-------------------------- MODULE LifecycleProofs --------------------------
(***************************************************************************)
(* Provisioner implements VolumeLifecycle: a claim that is bound to a      *)
(* generated bucket finds it empty and configured as asked, and keeps what *)
(* is written to it, for any number of claims, processes and faults.       *)
(*                                                                         *)
(* ProvisionerProofs says who may hold a generated name.  What is added    *)
(* here is the state such a bucket is in: untouched before its name is     *)
(* drawn and empty until its volume is saved, with the settings of the     *)
(* stages that its Provision has passed (Unspoilt).                        *)
(***************************************************************************)
EXTENDS ProvisionerProofs

\* The settings asked for by r that a bucket b has when a Provision is there.
Prepared(o, r, b) ==
  o.cause # "delete" /\ o.bucket \in Generated =>
    /\ b.cur = {}
    /\ o.pc \in {"authorize", "create"} => b = Absent
    /\ o.pc \in {"access", "quota", "check", "path", "built"}
         => b.ver = BucketVersioning(r)
    /\ o.pc \in {"quota", "check", "path", "built"} /\ SetBucketAccessPolicy(r)
         => b.policy
    /\ o.pc \in {"check", "path", "built"} /\ SetQuotaLimit(r) => b.quota

Unspoilt ==
  /\ \A n \in Generated \ used : store[n] = Absent
  /\ \A k \in Calls : Prepared(op[k], req[k[2]], store[op[k].bucket])

\* A Provision that would revert its creation has not met a foreign bucket.
Spared(o, s) ==
  /\ o.pc = "authorize" => ~ o.own
  /\ \/ o.own /\ o.pc \in {"version", "access", "quota", "check", "path", "built"}
     \/ o.cause = "revert"
     => o.bucket \in Names /\ s[o.bucket].owner \in {"none", "us"}

\* What a call may be doing for claim c.
Standing(o, c) ==
  /\ o.pc # "idle" => claim[c] # "none"
  /\ o.pc = "remove" => o.cause = "delete"

Saved ==
  \A c \in Claims : /\ claim[c] \in {"none", "pending"} => pv[c] = NoVolume
                    /\ claim[c] = "bound" => pv[c] # NoVolume

StateInv ==
  /\ Unspoilt /\ Saved /\ BoundBucketConfigured
  /\ \A k \in Calls : Spared(op[k], store) /\ Standing(op[k], k[2])

-----------------------------------------------------------------------------
(* What one step of a call does. *)

\* A bucket gains no object and does not become somebody else's.
Keeps(b, e) ==
  /\ e.cur \subseteq b.cur
  /\ b.owner \in {"none", "us"} => e.owner \in {"none", "us"}

\* A step of call k reaches its own bucket, or one whose name it draws.
Reaches(k) ==
  /\ \A n \in Names : Keeps(store[n], store'[n])
  /\ \A n \in Names :
       n # op[k].bucket /\ (n \in Generated => n \in used \/ n \notin used')
         => store'[n] = store[n]
  /\ \A l \in Calls : l # k => op'[l] \in {op[l], Idle}

\* A request to the service reaches the bucket it is about.
LEMMA CallReaches ==
  ASSUME TypeInv, NEW k \in Calls, NEW call, NEW granted, NEW effect,
         NEW done, NEW failed, op[k].bucket \in Names,
         Keeps(store[op[k].bucket], effect),
         Call(k, call, granted, effect, done, failed)
  PROVE  /\ Reaches(k)
         /\ \/ op'[k] = done /\ store'[op[k].bucket] = effect
            \/ /\ op'[k] = failed
               /\ store'[op[k].bucket] \in {store[op[k].bucket], effect}
<1> DEFINE changed == [store EXCEPT ![op[k].bucket] = effect]
<1>1. store \in [Names -> Bucket] /\ op \in [Calls -> NamedOperation]
  BY TypeInvOp DEF TypeOK
<1>2. \/ op' = [op EXCEPT ![k] = done] /\ store' = changed
      \/ op' = [op EXCEPT ![k] = failed] /\ store' \in {store, changed}
  BY DEF Call
<1>3. store' \in {store, changed} /\ op'[k] \in {done, failed}
  BY <1>1, <1>2
<1>4. \A n \in Names : \/ store'[n] = store[n]
                       \/ n = op[k].bucket /\ store'[n] = effect
  BY <1>1, <1>3
<1>5. \A l \in Calls : l # k => op'[l] = op[l]
  BY <1>1, <1>2
<1>6. \A n \in Names : Keeps(store[n], store'[n])
  <2>1. \A b : Keeps(b, b)
    BY DEF Keeps
  <2> QED
    BY <1>4, <2>1
<1>7. Reaches(k)
  BY <1>4, <1>5, <1>6 DEF Reaches
<1>8. \/ op'[k] = done /\ store'[op[k].bucket] = effect
      \/ /\ op'[k] = failed
         /\ store'[op[k].bucket] \in {store[op[k].bucket], effect}
  BY <1>1, <1>2
<1> QED
  BY <1>7, <1>8

\* What the requests leave behind, of a bucket that has the type of one.
LEMMA EffectKeeps ==
  ASSUME NEW b \in Bucket
  PROVE  /\ Keeps(b, b) /\ Keeps(b, Absent)
         /\ \A v : Keeps(b, [b EXCEPT !.ver = v])
         /\ Keeps(b, [b EXCEPT !.policy = TRUE])
         /\ Keeps(b, [b EXCEPT !.quota = TRUE])
         /\ \A key : Keeps(b, WithoutObject(b, key))
         /\ Keeps(b, IF Exists(b) THEN b ELSE Fresh)
BY DEF Keeps, Bucket, Absent, Fresh, WithoutObject, Exists

\* Passing on to a later stage finds the settings of the stages before it.
LEMMA StagePrepared ==
  ASSUME NEW r, NEW o \in Operation, NEW b, o.cause = "provision"
  PROVE  /\ Prepared(Idle, r, b)
         /\ b.cur = {} => Prepared(AfterError(r, o), r, b)
         /\ b.cur = {} /\ b.ver = "off" => Prepared(ToVersion(r, o), r, b)
         /\ b.cur = {} /\ b.ver = BucketVersioning(r) =>
              /\ Prepared(ToAccess(r, o), r, b)
              /\ (SetBucketAccessPolicy(r) => b.policy) =>
                   /\ Prepared(ToQuota(r, o), r, b)
                   /\ (SetQuotaLimit(r) => b.quota) =>
                        /\ Prepared(ToCheck(r, o), r, b)
                        /\ Prepared(ToPath(r, o), r, b)
                        /\ Prepared(ToBuilt(r, o), r, b)
<1> DEFINE V == b.cur = {} /\ b.ver = BucketVersioning(r)
           A == SetBucketAccessPolicy(r) => b.policy
           Q == SetQuotaLimit(r) => b.quota
<1>1. Prepared(Idle, r, b)
  BY NamesAssumption DEF Prepared, Idle
<1>2. b.cur = {} => Prepared(AfterError(r, o), r, b)
  <2>1. b.cur = {} => Prepared([o EXCEPT !.pc = "list", !.cause = "revert"], r, b)
    BY DEF Prepared, Operation
  <2> QED
    BY <1>1, <2>1 DEF AfterError
<1>3. /\ b.cur = {} => Prepared([o EXCEPT !.pc = "version"], r, b)
      /\ V => Prepared([o EXCEPT !.pc = "access"], r, b)
      /\ V /\ A => Prepared([o EXCEPT !.pc = "quota"], r, b)
      /\ V /\ A /\ Q => \A step \in {"check", "path", "built"} :
                          Prepared([o EXCEPT !.pc = step], r, b)
  BY DEF Prepared, Operation
<1> HIDE DEF V, A, Q
<1>4. V /\ A /\ Q => Prepared(ToBuilt(r, o), r, b)
  BY <1>1, <1>3 DEF ToBuilt
<1>5. V /\ A /\ Q => Prepared(ToPath(r, o), r, b)
  BY <1>3, <1>4 DEF ToPath
<1>6. V /\ A /\ Q => Prepared(ToCheck(r, o), r, b)
  BY <1>3, <1>5 DEF ToCheck
<1>7. V /\ A => Prepared(ToQuota(r, o), r, b)
  BY <1>3, <1>6 DEF ToQuota, Q
<1>8. V => Prepared(ToAccess(r, o), r, b)
  BY <1>3, <1>7 DEF ToAccess, A
<1>9. b.cur = {} /\ b.ver = "off" => Prepared(ToVersion(r, o), r, b)
  BY <1>3, <1>8 DEF ToVersion, V
<1> QED
  BY <1>1, <1>2, <1>4, <1>5, <1>6, <1>7, <1>8, <1>9 DEF V, A, Q

\* The stages of Provision are about one bucket and one claim.
LEMMA StageSpared ==
  ASSUME NEW r, NEW o \in Operation, NEW s, o.cause = "provision"
  PROVE  \A x \in {ToVersion(r, o), ToAccess(r, o), ToQuota(r, o),
                   ToCheck(r, o), ToPath(r, o), ToBuilt(r, o), AfterError(r, o),
                   Idle} :
           /\ x.pc # "remove"
           /\ x.bucket \in {o.bucket, NoBucket}
           /\ (o.own => o.bucket \in Names /\ s[o.bucket].owner \in {"none", "us"})
                => Spared(x, s)
<1> DEFINE P(x) ==
             /\ x.pc # "remove"
             /\ x.bucket \in {o.bucket, NoBucket}
             /\ (o.own => o.bucket \in Names /\ s[o.bucket].owner \in {"none", "us"})
                  => Spared(x, s)
<1>1. P(Idle)
  BY DEF Idle, Spared
<1>2. \A step \in {"version", "access", "quota", "check", "path", "built"} :
        P([o EXCEPT !.pc = step])
  BY DEF Operation, Spared
<1>3. o.own => P([o EXCEPT !.pc = "list", !.cause = "revert"])
  BY DEF Operation, Spared
<1> HIDE DEF P
<1>4. P(ToBuilt(r, o)) /\ P(ToPath(r, o))
  BY <1>1, <1>2 DEF ToBuilt, ToPath
<1>5. P(ToCheck(r, o))
  BY <1>2, <1>4 DEF ToCheck
<1>6. P(ToQuota(r, o))
  BY <1>2, <1>5 DEF ToQuota
<1>7. P(ToAccess(r, o))
  BY <1>2, <1>6 DEF ToAccess
<1>8. P(ToVersion(r, o))
  BY <1>2, <1>7 DEF ToVersion
<1>9. P(AfterError(r, o))
  BY <1>1, <1>3 DEF AfterError
<1>10. \A x \in {ToVersion(r, o), ToAccess(r, o), ToQuota(r, o), ToCheck(r, o),
                 ToPath(r, o), ToBuilt(r, o), AfterError(r, o), Idle} : P(x)
  BY <1>1, <1>4, <1>5, <1>6, <1>7, <1>8, <1>9
<1> QED
  BY <1>10 DEF P
-----------------------------------------------------------------------------
(* Every step of a call, action by action. *)

\* The step reaches one bucket, hands on a state that fits the call, and
\* leaves the other calls as they are or ends them.
StepFacts(k) ==
  /\ Reaches(k)
  /\ Prepared(op'[k], req[k[2]], store'[op'[k].bucket])
  /\ Spared(op'[k], store')
  /\ op'[k].pc # "idle" => claim[k[2]] # "none"
  /\ op'[k].pc = "remove" => op'[k].cause = "delete"

\* The requests that Provision makes of a bucket it has created or found.
LEMMA StageStep ==
  ASSUME TypeInv, LifeInv, StateInv, NEW k \in Calls,
         \/ SetBucketVersioning(k) \/ UpdateAccessPolicy(k) \/ UpdateQuotaLimit(k)
         \/ CheckBucketAccess(k) \/ CheckObjectPathExistence(k)
  PROVE  StepFacts(k)
<1> DEFINE r == req[k[2]]
           n == op[k].bucket
           b == store[n]
           o == IF op[k].pc = "access" THEN [op[k] EXCEPT !.val = TRUE] ELSE op[k]
<1>1. /\ n \in Names /\ b \in Bucket /\ op[k] \in Operation
      /\ op[k].cause = "provision" /\ claim[k[2]] # "none"
      /\ op[k].pc \in {"version", "access", "quota", "check", "path"}
  <2>1. op[k].pc \in {"version", "access", "quota", "check", "path"}
    BY DEF SetBucketVersioning, UpdateAccessPolicy, UpdateQuotaLimit,
           CheckBucketAccess, CheckObjectPathExistence
  <2> QED
    BY <2>1, TypeInvOp
       DEF TypeOK, NamedOperation, Named, Calls, LifeInv, Checked, Sound,
           StateInv, Standing
<1>2. /\ o \in Operation /\ o.cause = "provision" /\ o.bucket = n
      /\ o.own = op[k].own
  BY <1>1 DEF Operation
<1>3. /\ n \in Generated => Prepared(op[k], r, b)
      /\ o.own => b.owner \in {"none", "us"}
  BY <1>1, <1>2 DEF StateInv, Unspoilt, Spared
<1>4. \A x \in {ToAccess(r, op[k]), ToQuota(r, o), ToCheck(r, op[k]),
                ToPath(r, op[k]), ToBuilt(r, op[k]), AfterError(r, op[k]), Idle} :
        /\ x.pc # "remove" /\ x.bucket \in {n, NoBucket}
        /\ \A s : (op[k].own => s[n].owner \in {"none", "us"}) => Spared(x, s)
  <2> HIDE DEF o
  <2>1. \A x \in {ToAccess(r, op[k]), ToCheck(r, op[k]), ToPath(r, op[k]),
                  ToBuilt(r, op[k]), AfterError(r, op[k]), Idle} :
          /\ x.pc # "remove" /\ x.bucket \in {n, NoBucket}
          /\ \A s : (op[k].own => s[n].owner \in {"none", "us"}) => Spared(x, s)
    BY <1>1, StageSpared
  <2>2. /\ ToQuota(r, o).pc # "remove" /\ ToQuota(r, o).bucket \in {n, NoBucket}
        /\ \A s : (op[k].own => s[n].owner \in {"none", "us"})
                    => Spared(ToQuota(r, o), s)
    BY <1>1, <1>2, StageSpared
  <2> QED
    BY <2>1, <2>2
<1>5. ASSUME NEW effect, NEW done, NEW failed, NEW call, NEW granted,
             Call(k, call, granted, effect, done, failed), Keeps(b, effect),
             done \in {ToAccess(r, op[k]), ToQuota(r, o), ToCheck(r, op[k]),
                       ToPath(r, op[k]), ToBuilt(r, op[k]), Idle},
             failed \in {AfterError(r, op[k]), Idle},
             n \in Generated => /\ Prepared(done, r, effect)
                                /\ Prepared(failed, r, effect)
                                /\ Prepared(failed, r, b)
      PROVE  StepFacts(k)
  <2>1. /\ Reaches(k)
        /\ \/ op'[k] = done /\ store'[n] = effect
           \/ op'[k] = failed /\ store'[n] \in {b, effect}
    BY <1>1, <1>5, CallReaches
  <2>2. /\ op'[k].pc # "remove" /\ op'[k].bucket \in {n, NoBucket}
        /\ \A s : (op[k].own => s[n].owner \in {"none", "us"})
                    => Spared(op'[k], s)
    BY <1>4, <1>5, <2>1
  <2>3. op[k].own => store'[n].owner \in {"none", "us"}
    BY <1>1, <1>2, <1>3, <2>1 DEF Reaches, Keeps
  <2>4. Prepared(op'[k], r, store'[op'[k].bucket])
    <3>1. CASE op'[k].bucket \in Generated
      <4>1. op'[k].bucket = n /\ n \in Generated
        BY <2>2, <3>1, NamesAssumption
      <4> QED
        BY <1>5, <2>1, <4>1
    <3>2. CASE op'[k].bucket \notin Generated
      BY <3>2 DEF Prepared
    <3> QED
      BY <3>1, <3>2
  <2>5. Spared(op'[k], store')
    BY <2>2, <2>3
  <2> QED
    BY <1>1, <2>1, <2>2, <2>4, <2>5 DEF StepFacts
<1>6. n \in Generated => b.cur = {}
  BY <1>1, <1>3 DEF Prepared
<1>7. Keeps(b, b)
  BY <1>1, EffectKeeps
<1>8. \A e : Prepared(Idle, r, e)
  BY NamesAssumption DEF Prepared, Idle
<1> HIDE DEF o
<1>9. CASE SetBucketVersioning(k)
  <2> DEFINE e == [b EXCEPT !.ver = BucketVersioning(r)]
  <2>1. Call(k, "version", Reachable(b), e, ToAccess(r, op[k]),
             AfterError(r, op[k]))
    BY <1>9 DEF SetBucketVersioning
  <2>2. Keeps(b, e) /\ e.cur = b.cur /\ e.ver = BucketVersioning(r)
    BY <1>1, EffectKeeps DEF Bucket
  <2> HIDE DEF e
  <2>3. n \in Generated => /\ Prepared(ToAccess(r, op[k]), r, e)
                           /\ Prepared(AfterError(r, op[k]), r, e)
                           /\ Prepared(AfterError(r, op[k]), r, b)
    BY <1>1, <1>6, <2>2, StagePrepared
  <2> QED
    BY <1>5, <2>1, <2>2, <2>3
<1>10. CASE UpdateAccessPolicy(k)
  <2> DEFINE e == [b EXCEPT !.policy = TRUE]
  <2>1. /\ Call(k, "access", Reachable(b), e, ToQuota(r, o),
                AfterError(r, op[k]))
        /\ op[k].pc = "access"
    BY <1>10 DEF UpdateAccessPolicy, o
  <2>2. Keeps(b, e) /\ e.cur = b.cur /\ e.ver = b.ver /\ e.policy = TRUE
    BY <1>1, EffectKeeps DEF Bucket
  <2> HIDE DEF e
  <2>3. n \in Generated => /\ Prepared(ToQuota(r, o), r, e)
                           /\ Prepared(AfterError(r, op[k]), r, e)
                           /\ Prepared(AfterError(r, op[k]), r, b)
    <3>1. n \in Generated => b.ver = BucketVersioning(r)
      BY <1>1, <1>3, <2>1 DEF Prepared
    <3> QED
      BY <1>1, <1>2, <1>6, <2>2, <3>1, StagePrepared
  <2> QED
    BY <1>5, <2>1, <2>2, <2>3
<1>11. CASE UpdateQuotaLimit(k)
  <2> DEFINE e == [b EXCEPT !.quota = TRUE]
  <2>1. /\ Call(k, "quota", Reachable(b), e, ToCheck(r, op[k]),
                AfterError(r, op[k]))
        /\ op[k].pc = "quota"
    BY <1>11 DEF UpdateQuotaLimit
  <2>2. /\ Keeps(b, e) /\ e.cur = b.cur /\ e.ver = b.ver
        /\ e.policy = b.policy /\ e.quota = TRUE
    BY <1>1, EffectKeeps DEF Bucket
  <2> HIDE DEF e
  <2>3. n \in Generated => /\ Prepared(ToCheck(r, op[k]), r, e)
                           /\ Prepared(AfterError(r, op[k]), r, e)
                           /\ Prepared(AfterError(r, op[k]), r, b)
    <3>1. n \in Generated => /\ b.ver = BucketVersioning(r)
                             /\ SetBucketAccessPolicy(r) => b.policy
      BY <1>1, <1>3, <2>1 DEF Prepared
    <3> QED
      BY <1>1, <1>6, <2>2, <3>1, StagePrepared
  <2> QED
    BY <1>5, <2>1, <2>2, <2>3
<1>12. CASE CheckBucketAccess(k) \/ CheckObjectPathExistence(k)
  <2>1. \E call : \E done \in {ToPath(r, op[k]), ToBuilt(r, op[k]), Idle} :
          Call(k, call, Reachable(b), b, done, Idle)
    <3>1. CASE CheckBucketAccess(k)
      <4>1. Call(k, "check", Reachable(b), b, ToPath(r, op[k]), Idle)
        BY <3>1 DEF CheckBucketAccess
      <4> QED
        BY <4>1
    <3>2. CASE CheckObjectPathExistence(k)
      <4>1. PICK found \in BOOLEAN :
              Call(k, "path", Reachable(b), b,
                   IF found THEN ToBuilt(r, op[k]) ELSE Idle, Idle)
        BY <3>2 DEF CheckObjectPathExistence
      <4>2. (IF found THEN ToBuilt(r, op[k]) ELSE Idle)
              \in {ToPath(r, op[k]), ToBuilt(r, op[k]), Idle}
        OBVIOUS
      <4> QED
        BY <4>1, <4>2
    <3> QED
      BY <1>12, <3>1, <3>2
  <2>2. PICK call : \E done \in {ToPath(r, op[k]), ToBuilt(r, op[k]), Idle} :
          Call(k, call, Reachable(b), b, done, Idle)
    BY <2>1
  <2>3. PICK done \in {ToPath(r, op[k]), ToBuilt(r, op[k]), Idle} :
          Call(k, call, Reachable(b), b, done, Idle)
    BY <2>2
  <2>4. op[k].pc \in {"check", "path"}
    BY <1>12 DEF CheckBucketAccess, CheckObjectPathExistence
  <2>5. n \in Generated => Prepared(done, r, b)
    <3>1. n \in Generated => /\ b.ver = BucketVersioning(r)
                             /\ SetBucketAccessPolicy(r) => b.policy
                             /\ SetQuotaLimit(r) => b.quota
      BY <1>1, <1>3, <2>4 DEF Prepared
    <3> QED
      BY <1>1, <1>6, <1>8, <2>3, <3>1, StagePrepared
  <2> QED
    BY <1>5, <1>7, <1>8, <2>3, <2>5
<1> QED
  BY <1>9, <1>10, <1>11, <1>12
\* A step that leaves the store alone, or gives a name's bucket to the call.
LEMMA LocalReaches ==
  ASSUME TypeInv, NEW k \in Calls, NEW x, op' = [op EXCEPT ![k] = x],
         store' = store
  PROVE  Reaches(k) /\ op'[k] = x
<1>1. op \in [Calls -> NamedOperation]
  BY TypeInvOp
<1>2. \A l \in Calls : op'[l] = IF l = k THEN x ELSE op[l]
  BY <1>1
<1> QED
  BY <1>2 DEF Reaches, Keeps

\* Idle fits every claim and every bucket.
LEMMA IdleFits ==
  /\ \A r, b : Prepared(Idle, r, b)
  /\ \A s : Spared(Idle, s)
  /\ Idle.pc = "idle" /\ Idle.cause = "provision" /\ Idle.own = FALSE
  /\ Idle.bucket \notin Generated
BY NamesAssumption DEF Prepared, Spared, Idle

\* The beginning of Provision, up to the creation of the bucket, and its end.
LEMMA ProvisionStep ==
  ASSUME TypeInv, LifeInv, StateInv, NEW k \in Calls,
         StartProvision(k) \/ Authorize(k) \/ CreateBucket(k) \/ SavePV(k)
  PROVE  StepFacts(k)
<1> DEFINE r == req[k[2]]
           n == op[k].bucket
<1>0. /\ op[k] \in Operation /\ r \in Request /\ k[2] \in Claims
      /\ Named(op[k]) /\ op \in [Calls -> NamedOperation]
      /\ store \in [Names -> Bucket]
      /\ op[k].pc \in {"authorize", "create"} => op[k].cause = "provision"
      /\ op[k].pc # "idle" => claim[k[2]] # "none"
      /\ Prepared(op[k], r, store[n])
  BY TypeInvOp, RequestsAssumption
     DEF TypeOK, Calls, NamedOperation, LifeInv, Checked, Sound, StateInv,
         Standing, Unspoilt
<1>1. CASE StartProvision(k)
  <2>1. PICK m \in FreshNames \cup {r.bucket} :
          op' = [op EXCEPT ![k] = [Idle EXCEPT !.pc = "authorize",
                                     !.bucket = m, !.val = ValBucket(r)]]
    BY <1>1 DEF StartProvision
  <2> DEFINE x == [Idle EXCEPT !.pc = "authorize", !.bucket = m,
                               !.val = ValBucket(r)]
  <2>2. /\ x.pc = "authorize" /\ x.bucket = m /\ x.own = FALSE
        /\ x.cause = "provision"
    BY DEF Idle
  <2> HIDE DEF x
  <2>3. store' = store /\ claim[k[2]] # "none"
    BY <1>1 DEF StartProvision
  <2>4. m \in Generated => store[m] = Absent
    <3>1. m \in Generated => m \in FreshNames
      BY <1>0, NamesAssumption DEF Request
    <3> QED
      BY <3>1 DEF FreshNames, StateInv, Unspoilt
  <2>5. Prepared(x, r, store'[m])
    BY <2>2, <2>3, <2>4 DEF Prepared, Absent
  <2>6. Spared(x, store')
    BY <2>2 DEF Spared
  <2>7. Reaches(k) /\ op'[k] = x
    BY <2>1, <2>3, LocalReaches DEF x
  <2> QED
    BY <2>2, <2>3, <2>5, <2>6, <2>7 DEF StepFacts
<1>2. CASE Authorize(k)
  <2> DEFINE o == [op[k] EXCEPT !.sess = op[k].val]
             y == [o EXCEPT !.pc = "create", !.own = TRUE]
  <2>0. op[k].pc = "authorize" /\ op[k].cause = "provision"
    BY <1>0, <1>2 DEF Authorize
  <2>1. /\ store' = store
        /\ \/ op' = [op EXCEPT ![k] = Idle]
           \/ op' = [op EXCEPT ![k] = y]
           \/ op' = [op EXCEPT ![k] = ToVersion(r, o)] /\ o.bucket # NoBucket
    BY <1>2 DEF Authorize, BucketNamed
  <2>2. /\ o \in Operation /\ o.cause = "provision" /\ o.bucket = n
        /\ o.own = op[k].own
        /\ y.cause = "provision" /\ y.bucket = n /\ y.pc = "create"
    BY <1>0, <2>0 DEF Operation
  <2>3. n \in Generated => store[n] = Absent
    BY <1>0, <2>0 DEF Prepared
  <2>4. CASE op' = [op EXCEPT ![k] = Idle]
    BY <1>0, <2>0, <2>1, <2>4, IdleFits, LocalReaches DEF StepFacts
  <2>5. CASE op' = [op EXCEPT ![k] = y]
    <3> HIDE DEF y
    <3>1. Prepared(y, r, store'[n]) /\ Spared(y, store')
      BY <2>1, <2>2, <2>3 DEF Prepared, Spared, Absent
    <3> QED
      BY <1>0, <2>0, <2>1, <2>2, <2>5, <3>1, LocalReaches DEF StepFacts
  <2>6. CASE op' = [op EXCEPT ![k] = ToVersion(r, o)]
    <3> HIDE DEF o
    <3>1. Reaches(k) /\ op'[k] = ToVersion(r, o)
      BY <2>1, <2>6, LocalReaches
    <3>2. ~ op[k].own
      BY <1>0, <2>0 DEF StateInv, Spared, Calls
    <3>3. /\ op'[k].pc # "remove" /\ op'[k].bucket \in {n, NoBucket}
          /\ Spared(op'[k], store')
      BY <2>2, <3>1, <3>2, StageSpared
    <3>4. Prepared(op'[k], r, store'[op'[k].bucket])
      <4>1. CASE op'[k].bucket \in Generated
        <5>1. op'[k].bucket = n /\ store'[n] = Absent
          BY <2>1, <2>3, <3>3, <4>1, NamesAssumption
        <5>2. Absent.cur = {} /\ Absent.ver = "off"
          BY DEF Absent
        <5> QED
          BY <2>2, <3>1, <5>1, <5>2, StagePrepared
      <4>2. CASE op'[k].bucket \notin Generated
        BY <4>2 DEF Prepared
      <4> QED
        BY <4>1, <4>2
    <3> QED
      BY <1>0, <2>0, <3>1, <3>3, <3>4 DEF StepFacts
  <2> QED
    BY <2>1, <2>4, <2>5, <2>6
<1>3. CASE CreateBucket(k)
  <2> DEFINE After(m) == [op[k] EXCEPT !.bucket = m,
                                       !.own  = OwnAfterCreate(store[m]),
                                       !.val  = TRUE,
                                       !.made = ~ Exists(store[m])]
             Created(m) == [store EXCEPT ![m] = IF Exists(@) THEN @ ELSE Fresh]
  <2>0. op[k].pc = "create" /\ op[k].cause = "provision"
    BY <1>0, <1>3 DEF CreateBucket
  <2>1. PICK m \in IF n = NoBucket THEN FreshNames ELSE {n} :
          /\ used' = used \cup ({m} \cap Generated)
          /\ \/ /\ op' = [op EXCEPT ![k] = ToVersion(r, After(m))]
                /\ store' = Created(m)
             \/ op' = [op EXCEPT ![k] = Idle] /\ store' \in {store, Created(m)}
    BY <1>3 DEF CreateBucket
  <2>2. m \in Names /\ (m # n => m \in Generated \ used)
    BY <1>0 DEF FreshNames, Names, Operation
  <2>3. m \in Generated => store[m] = Absent
    BY <1>0, <2>0, <2>1, <2>2 DEF Prepared, StateInv, Unspoilt
  <2> DEFINE e == IF Exists(store[m]) THEN store[m] ELSE Fresh
             o == After(m)
  <2>4. /\ \A l \in Names : store'[l] = IF l = m THEN store'[m] ELSE store[l]
        /\ store'[m] \in {store[m], e}
        /\ store' = Created(m) => store'[m] = e
    BY <1>0, <2>1, <2>2
  <2>5. /\ o \in Operation /\ o.cause = "provision" /\ o.bucket = m
        /\ o.own = OwnAfterCreate(store[m])
    BY <1>0, <2>0, <2>2 DEF OwnAfterCreate, Exists, Operation
  <2>6. Keeps(store[m], e)
    BY <1>0, <2>2, EffectKeeps
  <2>7. o.own => e.owner \in {"none", "us"}
    BY <2>5 DEF OwnAfterCreate, CreateError, Exists, Fresh, Absent
  <2>8. m \in Generated => e.cur = {} /\ e.ver = "off"
    BY <2>3 DEF Exists, Fresh, Absent
  <2> HIDE DEF o, e
  <2>9. Reaches(k)
    <3>1. \A l \in Names : Keeps(store[l], store'[l])
      <4>1. \A b : Keeps(b, b)
        BY DEF Keeps
      <4> QED
        BY <2>4, <2>6, <4>1
    <3>2. \A l \in Calls : l # k => op'[l] = op[l]
      BY <1>0, <2>1
    <3>3. m \in Generated => m \in used'
      BY <2>1
    <3> QED
      BY <2>2, <2>4, <3>1, <3>2, <3>3 DEF Reaches
  <2>10. CASE op' = [op EXCEPT ![k] = Idle]
    <3>1. op'[k] = Idle
      BY <1>0, <2>10
    <3> QED
      BY <1>0, <2>0, <2>9, <3>1, IdleFits DEF StepFacts
  <2>11. CASE /\ op' = [op EXCEPT ![k] = ToVersion(r, o)]
              /\ store' = Created(m)
    <3>1. op'[k] = ToVersion(r, o) /\ store'[m] = e
      BY <1>0, <2>4, <2>11
    <3>2. /\ op'[k].pc # "remove" /\ op'[k].bucket \in {m, NoBucket}
          /\ Spared(op'[k], store')
      BY <2>2, <2>5, <2>7, <3>1, StageSpared
    <3>3. Prepared(op'[k], r, store'[op'[k].bucket])
      <4>1. CASE op'[k].bucket \in Generated
        <5>1. op'[k].bucket = m /\ m \in Generated
          BY <3>2, <4>1, NamesAssumption
        <5> QED
          BY <2>5, <2>8, <3>1, <5>1, StagePrepared
      <4>2. CASE op'[k].bucket \notin Generated
        BY <4>2 DEF Prepared
      <4> QED
        BY <4>1, <4>2
    <3> QED
      BY <1>0, <2>0, <2>9, <3>2, <3>3 DEF StepFacts
  <2> QED
    BY <2>1, <2>10, <2>11 DEF o
<1>4. CASE SavePV(k)
  <2>1. /\ op' = [op EXCEPT ![k] = Idle] /\ store' = store
        /\ op[k].pc # "idle"
    BY <1>4 DEF SavePV
  <2> QED
    BY <1>0, <2>1, IdleFits, LocalReaches DEF StepFacts
<1> QED
  BY <1>1, <1>2, <1>3, <1>4
\* A call that is in DeleteBucket, or goes on to it or out of it.
LEMMA DeleteStep ==
  ASSUME TypeInv, LifeInv, StateInv, NEW k \in Calls,
         \/ StartDelete(k) \/ DeleteCredentials(k) \/ RemovePV(k)
         \/ ListObjects(k) \/ DeleteObject(k) \/ DeleteBucket(k) \/ Panic(k)
  PROVE  StepFacts(k)
<1> DEFINE r == req[k[2]]
           n == op[k].bucket
           b == store[n]
<1>0. /\ op[k] \in Operation /\ Named(op[k]) /\ op \in [Calls -> NamedOperation]
      /\ store \in [Names -> Bucket]
      /\ op[k].pc # "idle" => claim[k[2]] # "none"
      /\ Prepared(op[k], r, b) /\ Spared(op[k], store)
  BY TypeInvOp
     DEF TypeOK, Calls, NamedOperation, StateInv, Standing, Unspoilt
<1>1. CASE StartDelete(k)
  <2>1. PICK step \in {"credentials", "remove"} :
          op' = [op EXCEPT ![k] = [Idle EXCEPT !.pc = step, !.cause = "delete",
                                               !.bucket = pv[k[2]].bucket]]
    BY <1>1 DEF StartDelete
  <2> DEFINE x == [Idle EXCEPT !.pc = step, !.cause = "delete",
                               !.bucket = pv[k[2]].bucket]
  <2>2. x.cause = "delete" /\ x.pc \in {"credentials", "remove"}
    BY DEF Idle
  <2> HIDE DEF x
  <2>3. store' = store /\ claim[k[2]] # "none"
    BY <1>1 DEF StartDelete, ShouldDelete
  <2>4. Reaches(k) /\ op'[k] = x
    BY <2>1, <2>3, LocalReaches DEF x
  <2> QED
    BY <2>2, <2>3, <2>4 DEF StepFacts, Prepared, Spared
<1>2. CASE RemovePV(k)
  <2>1. /\ op' = [op EXCEPT ![k] = Idle] /\ store' = store
        /\ op[k].pc # "idle"
    BY <1>2 DEF RemovePV
  <2> QED
    BY <1>0, <2>1, IdleFits, LocalReaches DEF StepFacts
<1>3. CASE Panic(k)
  <2>1. \A l \in Calls : op'[l] = IF l[1] = k[1] THEN Idle ELSE op[l]
    BY <1>0, <1>3 DEF Panic, Stopped
  <2>2. op'[k] = Idle /\ store' = store
    BY <1>3, <2>1 DEF Panic
  <2>3. Reaches(k)
    BY <2>1, <2>2 DEF Reaches, Keeps
  <2> QED
    BY <2>2, <2>3, IdleFits DEF StepFacts
\* What is left has the bucket and the cause that the call has.
<1>4. ASSUME NEW x, x = Idle \/ /\ x.bucket = n /\ x.cause = op[k].cause
                                /\ x.pc \in {"list", "objects", "remove"}
                                /\ x.pc = "remove" => x.cause = "delete",
             op'[k] = x, Reaches(k), op[k].pc # "idle", n \in Names
      PROVE  StepFacts(k)
  <2>1. CASE x = Idle
    BY <1>0, <1>4, <2>1, IdleFits DEF StepFacts
  <2>2. CASE x # Idle
    <3>1. Keeps(b, store'[n])
      BY <1>4 DEF Reaches
    <3>2. Prepared(x, r, store'[n])
      BY <1>0, <1>4, <2>2, <3>1 DEF Prepared, Keeps
    <3>3. Spared(x, store')
      BY <1>0, <1>4, <2>2, <3>1 DEF Spared, Keeps
    <3> QED
      BY <1>0, <1>4, <2>2, <3>2, <3>3 DEF StepFacts
  <2> QED
    BY <2>1, <2>2
<1>5. CASE DeleteCredentials(k)
  <2> DEFINE x == [op[k] EXCEPT !.pc = "list", !.sess = TRUE]
  <2>1. /\ op' = [op EXCEPT ![k] = x] \/ op' = [op EXCEPT ![k] = Idle]
        /\ store' = store /\ op[k].pc # "idle" /\ n \in Names
    BY <1>0, <1>5 DEF DeleteCredentials, NotDeleted, Named
  <2>2. x.bucket = n /\ x.cause = op[k].cause /\ x.pc = "list"
    BY <1>0 DEF Operation
  <2> HIDE DEF x
  <2>3. Reaches(k) /\ op'[k] \in {x, Idle}
    BY <2>1, LocalReaches
  <2> QED
    BY <1>4, <2>1, <2>2, <2>3
<1>6. /\ Deleted(op[k]) = Idle \/ /\ Deleted(op[k]).bucket = n
                                  /\ Deleted(op[k]).cause = op[k].cause
                                  /\ Deleted(op[k]).pc = "remove"
                                  /\ op[k].cause = "delete"
      /\ AlreadyDeleted(op[k]) = Deleted(op[k])
      /\ NotDeleted(op[k]) = Idle
  BY <1>0 DEF Deleted, AlreadyDeleted, NotDeleted, Operation
<1>7. CASE ListObjects(k)
  <2>0. op[k].pc = "list" /\ n \in Names /\ b \in Bucket
    BY <1>0, <1>7 DEF ListObjects, Named
  <2>1. CASE op' = [op EXCEPT ![k] = AlreadyDeleted(op[k])] /\ store' = store
    <3>1. Reaches(k) /\ op'[k] = AlreadyDeleted(op[k])
      BY <2>1, LocalReaches
    <3> QED
      BY <1>4, <1>6, <2>0, <3>1
  <2>2. ASSUME NEW page,
               Call(k, op[k].cause, Reachable(b), b,
                    [op[k] EXCEPT !.pc = "objects", !.keys = page],
                    NotDeleted(op[k]))
        PROVE  StepFacts(k)
    <3> DEFINE x == [op[k] EXCEPT !.pc = "objects", !.keys = page]
    <3>1. x.bucket = n /\ x.cause = op[k].cause /\ x.pc = "objects"
      BY <1>0 DEF Operation
    <3> HIDE DEF x
    <3>2. Keeps(b, b)
      BY <2>0, EffectKeeps
    <3>3. Reaches(k) /\ op'[k] \in {x, Idle}
      BY <1>6, <2>0, <2>2, <3>2, CallReaches DEF x
    <3> QED
      BY <1>4, <2>0, <3>1, <3>3
  <2> QED
    BY <1>7, <2>1, <2>2 DEF ListObjects
<1>8. CASE DeleteObject(k)
  <2>0. op[k].pc = "objects" /\ n \in Names /\ b \in Bucket
    BY <1>0, <1>8 DEF DeleteObject, Named
  <2>1. PICK key : Call(k, op[k].cause, Reachable(b), WithoutObject(b, key),
                        [op[k] EXCEPT !.keys = @ \ {key}], NotDeleted(op[k]))
    BY <1>8 DEF DeleteObject
  <2> DEFINE x == [op[k] EXCEPT !.keys = @ \ {key}]
  <2>2. x.bucket = n /\ x.cause = op[k].cause /\ x.pc = "objects"
    BY <1>0, <2>0 DEF Operation
  <2> HIDE DEF x
  <2>3. Keeps(b, WithoutObject(b, key))
    BY <2>0, EffectKeeps
  <2>4. Reaches(k) /\ op'[k] \in {x, Idle}
    BY <1>6, <2>0, <2>1, <2>3, CallReaches DEF x
  <2> QED
    BY <1>4, <2>0, <2>2, <2>4
<1>9. CASE DeleteBucket(k)
  <2>0. op[k].pc = "objects" /\ n \in Names /\ b \in Bucket
    BY <1>0, <1>9 DEF DeleteBucket, Named
  <2>1. Call(k, op[k].cause, Deletable(b), Absent, Deleted(op[k]),
             NotDeleted(op[k]))
    BY <1>9 DEF DeleteBucket
  <2>2. Keeps(b, Absent)
    BY <2>0, EffectKeeps
  <2>3. Reaches(k) /\ op'[k] \in {Deleted(op[k]), Idle}
    BY <1>6, <2>0, <2>1, <2>2, CallReaches
  <2> QED
    BY <1>4, <1>6, <2>0, <2>3
<1> QED
  BY <1>1, <1>2, <1>3, <1>5, <1>7, <1>8, <1>9

\* The facts hold of every step.
LEMMA StepsFacts ==
  ASSUME TypeInv, LifeInv, StateInv, NEW k \in Calls, Step(k)
  PROVE  StepFacts(k)
BY StageStep, ProvisionStep, DeleteStep DEF Step
-----------------------------------------------------------------------------
(* The volume of a claim. *)

\* Only a saved and a removed volume change what a claim has.
LEMMA VolumeStep ==
  ASSUME TypeInv, LifeInv, StateInv, NEW k \in Calls, Step(k)
  PROVE  /\ req' = req /\ used \subseteq used'
         /\ \/ UNCHANGED <<pv, claim>>
            \/ /\ SavePV(k) /\ pv[k[2]] = NoVolume /\ pv'[k[2]] # NoVolume
               /\ op[k].cause = "provision" /\ op[k].pc = "built"
               /\ claim[k[2]] \in {"pending", "deleted"}
               /\ pv' = [pv EXCEPT ![k[2]] = pv'[k[2]]]
               /\ pv'[k[2]].bucket = op[k].bucket
               /\ claim' = [claim EXCEPT ![k[2]] =
                               IF @ = "pending" THEN "bound" ELSE @]
               /\ UNCHANGED <<store, used>>
            \/ /\ RemovePV(k) /\ op[k].cause = "delete"
               /\ claim[k[2]] = "deleted"
               /\ pv' = [pv EXCEPT ![k[2]] = NoVolume]
               /\ UNCHANGED <<store, claim, used>>
<1> DEFINE c == k[2]
<1>0. /\ c \in Claims /\ pv \in [Claims -> Volume \cup {NoVolume}]
      /\ claim \in [Claims -> {"none", "pending", "bound", "deleted"}]
      /\ op[k] \in NamedOperation
  BY TypeInvOp DEF TypeOK, Calls
<1>1. CASE SavePV(k)
  <2>1. op[k].pc = "built" /\ req' = req /\ UNCHANGED <<store, used>>
    BY <1>1 DEF SavePV
  <2>2. /\ op[k].cause = "provision" /\ op[k].bucket \in Names
        /\ claim[c] # "none"
    BY <1>0, <2>1
       DEF NamedOperation, Named, LifeInv, Checked, Sound, StateInv, Standing
  <2>3. CASE pv[c] # NoVolume
    BY <1>1, <2>1, <2>3 DEF SavePV
  <2>4. CASE pv[c] = NoVolume
    <3>1. /\ pv' = [pv EXCEPT ![c] = [bucket |-> op[k].bucket,
                                      autoDelete |-> AutoDeleteBucket(req[c])]]
          /\ claim' = [claim EXCEPT ![c] = IF @ = "pending" THEN "bound" ELSE @]
      BY <1>1, <2>4 DEF SavePV
    <3>2. pv'[c] = [bucket |-> op[k].bucket,
                    autoDelete |-> AutoDeleteBucket(req[c])]
      BY <1>0, <3>1
    <3>3. NoBucket \notin Names
      BY NamesAssumption, NoBucketAssumption DEF Names
    <3>4. pv'[c].bucket = op[k].bucket /\ pv'[c] # NoVolume
      <4>1. pv'[c].bucket = op[k].bucket
        BY <3>2
      <4>2. NoVolume.bucket = NoBucket
        BY DEF NoVolume
      <4> QED
        BY <2>2, <3>3, <4>1, <4>2
    <3>5. pv' = [pv EXCEPT ![c] = pv'[c]]
      BY <3>1, <3>2
    <3>6. claim[c] \in {"pending", "deleted"}
      BY <1>0, <2>2, <2>4 DEF StateInv, Saved
    <3> QED
      BY <1>1, <2>1, <2>2, <2>4, <3>1, <3>4, <3>5, <3>6
  <2> QED
    BY <2>3, <2>4
<1>2. CASE RemovePV(k)
  <2>1. op[k].cause = "delete"
    BY <1>2 DEF RemovePV, StateInv, Standing
  <2>2. claim[c] = "deleted"
    BY <2>1 DEF LifeInv, DeletingOwn
  <2> QED
    BY <1>2, <2>1, <2>2 DEF RemovePV
<1>3. CASE ~ SavePV(k) /\ ~ RemovePV(k)
  BY <1>3
     DEF Step, StartProvision, Authorize, CreateBucket, SetBucketVersioning,
         UpdateAccessPolicy, UpdateQuotaLimit, CheckBucketAccess,
         CheckObjectPathExistence, StartDelete, DeleteCredentials, ListObjects,
         DeleteObject, DeleteBucket, Panic
<1> QED
  BY <1>1, <1>2, <1>3

\* A call reaches the generated bucket of a volume only to delete it, for the
\* claim that had it, and no name that another Provision holds.
LEMMA OthersUntouched ==
  ASSUME TypeInv, LifeInv, StateInv, NEW k \in Calls, Step(k), Reaches(k)
  PROVE  /\ \A d \in Claims :
              /\ pv[d].bucket \in Generated
              /\ claim[d] = "deleted" => d # k[2]
              => store'[pv[d].bucket] = store[pv[d].bucket]
         /\ \A l \in Calls :
              l # k /\ op[l].cause # "delete" /\ op[l].bucket \in Generated
              => store'[op[l].bucket] = store[op[l].bucket]
<1>1. ASSUME NEW d \in Claims, pv[d].bucket \in Generated,
             claim[d] = "deleted" => d # k[2]
      PROVE  store'[pv[d].bucket] = store[pv[d].bucket]
  <2>1. pv[d].bucket \in used
    BY <1>1 DEF LifeInv, Drawn
  <2>2. CASE op[k].cause # "delete"
    <3>1. op[k].bucket # pv[d].bucket
      BY <1>1, <2>2 DEF LifeInv, Unsaved
    <3> QED
      BY <1>1, <2>1, <3>1 DEF Reaches, Names
  <2>3. CASE op[k].cause = "delete"
    <3>1. op[k].bucket # pv[d].bucket
      BY <1>1, <2>3 DEF LifeInv, DeletingOwn
    <3> QED
      BY <1>1, <2>1, <3>1 DEF Reaches, Names
  <2> QED
    BY <2>2, <2>3
<1>2. ASSUME NEW l \in Calls, l # k, op[l].cause # "delete",
             op[l].bucket \in Generated
      PROVE  store'[op[l].bucket] = store[op[l].bucket]
  <2>1. op[l].bucket \in used /\ op[k].bucket # op[l].bucket
    BY <1>2 DEF LifeInv, Drawn, Exclusive
  <2> QED
    BY <1>2, <2>1 DEF Reaches, Names
<1> QED
  BY <1>1, <1>2

\* Every step of a call keeps the state that its bucket and volume are in.
LEMMA StateStep ==
  ASSUME TypeInv, LifeInv, StateInv, NEW k \in Calls, Step(k)
  PROVE  StateInv'
<1>0. /\ k[2] \in Claims /\ pv \in [Claims -> Volume \cup {NoVolume}]
      /\ claim \in [Claims -> {"none", "pending", "bound", "deleted"}]
      /\ \A l \in Calls : l[2] \in Claims
  BY DEF TypeInv, TypeOK, Calls
<1>1. StepFacts(k)
  BY StepsFacts
<1>2. Reaches(k)
  BY <1>1 DEF StepFacts
<1>3. req' = req /\ used \subseteq used'
  BY VolumeStep
<1>4. /\ \A d \in Claims :
           pv[d].bucket \in Generated /\ (claim[d] = "deleted" => d # k[2])
             => store'[pv[d].bucket] = store[pv[d].bucket]
      /\ \A l \in Calls :
           l # k /\ op[l].cause # "delete" /\ op[l].bucket \in Generated
             => store'[op[l].bucket] = store[op[l].bucket]
  BY <1>2, OthersUntouched
<1>5. \A l \in Calls : l # k => op'[l] \in {op[l], Idle}
  BY <1>2 DEF Reaches
<1>6. Unspoilt'
  <2>1. \A n \in Generated \ used' : store'[n] = Absent
    <3> SUFFICES ASSUME NEW n \in Generated, n \notin used'
                 PROVE  store'[n] = store[n] /\ n \notin used
      BY DEF StateInv, Unspoilt
    <3>1. n \notin used
      BY <1>3
    <3>2. n # op[k].bucket
      BY <3>1 DEF LifeInv, Drawn
    <3> QED
      BY <1>2, <3>1, <3>2 DEF Reaches, Names
  <2>2. ASSUME NEW l \in Calls
        PROVE  Prepared(op'[l], req[l[2]], store'[op'[l].bucket])
    <3>1. CASE l = k
      BY <1>1, <3>1 DEF StepFacts
    <3>2. CASE l # k /\ op'[l] = Idle
      BY <3>2, IdleFits
    <3>3. CASE l # k /\ op'[l] = op[l]
      <4>1. CASE op[l].cause # "delete" /\ op[l].bucket \in Generated
        <5>1. store'[op[l].bucket] = store[op[l].bucket]
          BY <1>4, <3>3, <4>1
        <5> QED
          BY <3>3, <5>1 DEF StateInv, Unspoilt
      <4>2. CASE ~ (op[l].cause # "delete" /\ op[l].bucket \in Generated)
        BY <3>3, <4>2 DEF Prepared
      <4> QED
        BY <4>1, <4>2
    <3> QED
      BY <1>5, <3>1, <3>2, <3>3
  <2> QED
    BY <1>3, <2>1, <2>2 DEF Unspoilt
<1>7. ASSUME NEW l \in Calls
      PROVE  (Spared(op[l], store) /\ Standing(op[l], l[2]))'
  <2>1. claim[l[2]] # "none" => claim'[l[2]] # "none"
    BY <1>0, VolumeStep
  <2>2. CASE l = k
    BY <1>1, <2>1, <2>2 DEF StepFacts, Standing
  <2>3. CASE op'[l] = Idle
    BY <2>3, IdleFits DEF Standing
  <2>4. CASE op'[l] = op[l]
    <3>1. \A n \in Names : store[n].owner \in {"none", "us"}
                             => store'[n].owner \in {"none", "us"}
      BY <1>2 DEF Reaches, Keeps
    <3>2. Spared(op[l], store) /\ Standing(op[l], l[2])
      BY DEF StateInv
    <3> QED
      BY <2>1, <2>4, <3>1, <3>2 DEF Spared, Standing
  <2> QED
    BY <1>5, <2>2, <2>3, <2>4
<1>8. Saved' /\ BoundBucketConfigured'
  <2>1. ASSUME NEW d \in Claims, claim'[d] = claim[d], pv'[d] = pv[d]
        PROVE  /\ claim'[d] \in {"none", "pending"} => pv'[d] = NoVolume
               /\ claim'[d] = "bound" => pv'[d] # NoVolume
               /\ claim'[d] = "bound" /\ pv'[d].bucket \in Generated =>
                    /\ store'[pv'[d].bucket].ver = BucketVersioning(req[d])
                    /\ SetBucketAccessPolicy(req[d])
                         => store'[pv'[d].bucket].policy
                    /\ SetQuotaLimit(req[d]) => store'[pv'[d].bucket].quota
    BY <1>4, <2>1 DEF StateInv, Saved, BoundBucketConfigured, Bound
  <2>2. CASE UNCHANGED <<pv, claim>>
    BY <1>3, <2>1, <2>2 DEF Saved, BoundBucketConfigured, Bound
  <2>3. CASE /\ claim[k[2]] = "deleted" /\ claim' = claim
             /\ pv' = [pv EXCEPT ![k[2]] = NoVolume]
    <3>1. \A d \in Claims : d # k[2] => pv'[d] = pv[d] /\ claim'[d] = claim[d]
      BY <1>0, <2>3
    <3>2. claim'[k[2]] = "deleted"
      BY <2>3
    <3> QED
      BY <1>3, <2>1, <3>1, <3>2 DEF Saved, BoundBucketConfigured, Bound
  <2>4. CASE /\ SavePV(k) /\ pv'[k[2]] # NoVolume
             /\ op[k].cause = "provision" /\ op[k].pc = "built"
             /\ pv' = [pv EXCEPT ![k[2]] = pv'[k[2]]]
             /\ pv'[k[2]].bucket = op[k].bucket
             /\ claim[k[2]] \in {"pending", "deleted"}
             /\ claim' = [claim EXCEPT ![k[2]] =
                             IF @ = "pending" THEN "bound" ELSE @]
             /\ UNCHANGED <<store, used>>
    <3>1. \A d \in Claims : d # k[2] => pv'[d] = pv[d] /\ claim'[d] = claim[d]
      BY <1>0, <2>4
    <3>2. claim'[k[2]] \in {"bound", "deleted"}
      BY <1>0, <2>4
    <3>3. Prepared(op[k], req[k[2]], store[op[k].bucket])
      BY DEF StateInv, Unspoilt
    <3>4. op[k].bucket \in Generated =>
            /\ store'[op[k].bucket].ver = BucketVersioning(req[k[2]])
            /\ SetBucketAccessPolicy(req[k[2]]) => store'[op[k].bucket].policy
            /\ SetQuotaLimit(req[k[2]]) => store'[op[k].bucket].quota
      BY <2>4, <3>3 DEF Prepared
    <3> QED
      BY <1>3, <2>1, <2>4, <3>1, <3>2, <3>4 DEF Saved, BoundBucketConfigured, Bound
  <2> QED
    BY <2>2, <2>3, <2>4, VolumeStep
<1> QED
  BY <1>6, <1>7, <1>8 DEF StateInv
\* No name has been drawn and no call is running at the start.
LEMMA StateInit == Init => StateInv
<1> SUFFICES ASSUME Init PROVE StateInv
  OBVIOUS
<1>1. \A k \in Calls : op[k] = Idle
  BY DEF Init, Calls
<1>2. \A c \in Claims : pv[c] = NoVolume /\ claim[c] = "none"
  BY DEF Init
<1>3. \A n \in Generated : store[n] = Absent
  BY NamesAssumption DEF Init, Names
<1>4. Unspoilt
  BY <1>1, <1>3, IdleFits DEF Unspoilt
<1>5. Saved /\ BoundBucketConfigured
  BY <1>2 DEF Saved, BoundBucketConfigured, Bound
<1>6. \A k \in Calls : Spared(op[k], store) /\ Standing(op[k], k[2])
  BY <1>1, IdleFits DEF Standing
<1> QED
  BY <1>4, <1>5, <1>6 DEF StateInv

\* The bucket of a bound claim is where its pods write, and nobody else's.
LEMMA WriteReaches ==
  ASSUME TypeInv, LifeInv, NEW c \in Claims, WriteObject(c)
  PROVE  /\ UNCHANGED <<req, claim, pv, op, used>> /\ Bound(c)
         /\ \A n \in Names : n # pv[c].bucket => store'[n] = store[n]
         /\ \E key \in Objects :
               pv[c].bucket \in Names =>
                 store'[pv[c].bucket] = WithObject(store[pv[c].bucket], key)
         /\ pv[c].bucket \in Generated =>
              /\ pv[c].bucket \in used
              /\ \A d \in Claims : d # c => pv[d].bucket # pv[c].bucket
              /\ \A k \in Calls :
                   op[k].cause # "delete" => op[k].bucket # pv[c].bucket
<1>1. store \in [Names -> Bucket]
  BY DEF TypeInv, TypeOK
<1>2. PICK key \in Objects :
        store' = [store EXCEPT ![pv[c].bucket] = WithObject(@, key)]
  BY DEF WriteObject
<1>3. /\ \A n \in Names : n # pv[c].bucket => store'[n] = store[n]
      /\ pv[c].bucket \in Names =>
           store'[pv[c].bucket] = WithObject(store[pv[c].bucket], key)
  BY <1>1, <1>2
<1>4. UNCHANGED <<req, claim, pv, op, used>> /\ Bound(c)
  BY DEF WriteObject, Bound
<1>5. pv[c].bucket \in Generated =>
        /\ pv[c].bucket \in used
        /\ \A d \in Claims : d # c => pv[d].bucket # pv[c].bucket
        /\ \A k \in Calls :
             op[k].cause # "delete" => op[k].bucket # pv[c].bucket
  BY DEF LifeInv, Drawn, Distinct, Unsaved
<1> QED
  BY <1>3, <1>4, <1>5

\* Every step of the system keeps the state of buckets and volumes.
LEMMA StateNext == TypeInv /\ LifeInv /\ StateInv /\ [Next]_vars => StateInv'
<1> SUFFICES ASSUME TypeInv, LifeInv, StateInv, [Next]_vars PROVE StateInv'
  OBVIOUS
<1>0. /\ claim \in [Claims -> {"none", "pending", "bound", "deleted"}]
      /\ \A l \in Calls : l[2] \in Claims
  BY DEF TypeInv, TypeOK, Calls
<1>1. ASSUME NEW c \in Claims, Submit(c) \/ DeleteClaim(c) PROVE StateInv'
  <2>1. /\ UNCHANGED <<store, req, pv, op, used>>
        /\ \A d \in Claims :
             /\ claim'[d] \in {"none", "pending"} => claim[d] \in {"none", "pending"}
             /\ claim'[d] = "bound" => claim[d] = "bound"
             /\ claim'[d] = "none" => claim[d] = "none"
    BY <1>0, <1>1 DEF Submit, DeleteClaim
  <2>2. Saved'
    BY <2>1 DEF StateInv, Saved
  <2>3. Unspoilt'
    BY <2>1 DEF StateInv, Unspoilt
  <2>4. BoundBucketConfigured'
    BY <2>1 DEF StateInv, BoundBucketConfigured, Bound
  <2>5. \A k \in Calls : (Spared(op[k], store) /\ Standing(op[k], k[2]))'
    BY <1>0, <2>1 DEF StateInv, Standing
  <2> QED
    BY <2>2, <2>3, <2>4, <2>5 DEF StateInv
<1>2. ASSUME NEW c \in Claims, WriteObject(c) PROVE StateInv'
  <2> DEFINE n == pv[c].bucket
  <2>1. /\ UNCHANGED <<req, claim, pv, op, used>>
        /\ \A m \in Names : m # n => store'[m] = store[m]
        /\ n \in Generated =>
             /\ n \in used
             /\ \A d \in Claims : d # c => pv[d].bucket # n
             /\ \A k \in Calls : op[k].cause # "delete" => op[k].bucket # n
    BY <1>2, WriteReaches
  <2>2. PICK key \in Objects :
          n \in Names => store'[n] = WithObject(store[n], key)
    BY <1>2, WriteReaches
  <2>3. \A m \in Names : /\ store'[m].ver = store[m].ver
                         /\ store'[m].policy = store[m].policy
                         /\ store'[m].quota = store[m].quota
                         /\ store'[m].owner = store[m].owner
    <3>1. \A b \in Bucket : /\ WithObject(b, key).ver = b.ver
                            /\ WithObject(b, key).policy = b.policy
                            /\ WithObject(b, key).quota = b.quota
                            /\ WithObject(b, key).owner = b.owner
      BY DEF WithObject, Bucket
    <3>2. store \in [Names -> Bucket]
      BY DEF TypeInv, TypeOK
    <3> QED
      BY <2>1, <2>2, <3>1, <3>2
  <2> HIDE DEF n
  <2>4. Saved'
    BY <2>1 DEF StateInv, Saved
  <2>5. \A m \in Generated \ used' : store'[m] = Absent
    BY <2>1 DEF StateInv, Unspoilt, Names
  <2>6. ASSUME NEW k \in Calls
        PROVE  Prepared(op[k], req[k[2]], store[op[k].bucket])'
    <3>1. CASE op[k].cause # "delete" /\ op[k].bucket \in Generated
      <4>1. store'[op[k].bucket] = store[op[k].bucket]
        BY <2>1, <3>1 DEF Names
      <4> QED
        BY <2>1, <4>1 DEF StateInv, Unspoilt
    <3>2. CASE ~ (op[k].cause # "delete" /\ op[k].bucket \in Generated)
      BY <2>1, <3>2 DEF Prepared
    <3> QED
      BY <3>1, <3>2
  <2>7. BoundBucketConfigured'
    <3> SUFFICES ASSUME NEW d \in Claims, claim[d] = "bound",
                        pv[d].bucket \in Generated
                 PROVE  LET b == store'[pv[d].bucket]
                        IN /\ b.ver = BucketVersioning(req[d])
                           /\ SetBucketAccessPolicy(req[d]) => b.policy
                           /\ SetQuotaLimit(req[d]) => b.quota
      BY <2>1 DEF BoundBucketConfigured, Bound
    <3> QED
      BY <2>3 DEF StateInv, BoundBucketConfigured, Bound, Names
  <2>8. \A k \in Calls : (Spared(op[k], store) /\ Standing(op[k], k[2]))'
    BY <2>1, <2>3 DEF StateInv, Spared, Standing
  <2> QED
    BY <2>4, <2>5, <2>6, <2>7, <2>8 DEF StateInv, Unspoilt
<1>3. ASSUME NEW k \in Calls, Step(k) PROVE StateInv'
  BY <1>3, StateStep
<1>4. ASSUME NEW p \in Procs, Crash(p) PROVE StateInv'
  <2>1. /\ \A l \in Calls : op'[l] \in {op[l], Idle}
        /\ UNCHANGED <<store, req, claim, pv, used>>
    BY <1>4 DEF Crash, Stopped, TypeInv, TypeOK, Calls
  <2>2. Unspoilt'
    BY <2>1, IdleFits DEF StateInv, Unspoilt
  <2>3. Saved' /\ BoundBucketConfigured'
    BY <2>1 DEF StateInv, Saved, BoundBucketConfigured, Bound
  <2>4. \A k \in Calls : (Spared(op[k], store) /\ Standing(op[k], k[2]))'
    BY <2>1, IdleFits DEF StateInv, Standing
  <2> QED
    BY <2>2, <2>3, <2>4 DEF StateInv
<1>5. CASE UNCHANGED vars
  BY <1>5
     DEF vars, StateInv, Unspoilt, Saved, BoundBucketConfigured, Bound, Standing
<1> QED
  BY <1>1, <1>2, <1>3, <1>4, <1>5 DEF Next, Calls

\* The three invariants together.
LEMMA Invariants == Spec => [](TypeInv /\ LifeInv /\ StateInv)
<1>1. Init => TypeInv /\ LifeInv /\ StateInv
  BY TypeInit, LifeInit, StateInit
<1>2. TypeInv /\ LifeInv /\ StateInv /\ [Next]_vars
        => (TypeInv /\ LifeInv /\ StateInv)'
  BY TypeNext, LifeNext, StateNext
<1> QED
  BY <1>1, <1>2, PTL DEF Spec

\* A bound claim's generated bucket has the settings asked for.
THEOREM BucketConfigured == Spec => []BoundBucketConfigured
<1>1. TypeInv /\ LifeInv /\ StateInv => BoundBucketConfigured
  BY DEF StateInv
<1> QED
  BY <1>1, Invariants, PTL

\* A revert never reaches a bucket of another service instance.  That is about
\* reverts only: a Delete whose claim asked for it takes a shared bucket too.
THEOREM OthersSpared == Spec => []RevertSparesOthers
<1>1. TypeInv /\ LifeInv /\ StateInv => RevertSparesOthers
  BY DEF TypeInv, TypeOK, StateInv, Spared, RevertSparesOthers, Calls
<1> QED
  BY <1>1, Invariants, PTL
-----------------------------------------------------------------------------
(* The refinement. *)

\* A step that moves one claim and leaves the others is one of the abstract
\* specification.
LEMMA Moved ==
  ASSUME NEW c \in Claims, NEW from, NEW to, NEW objects,
         Life(c) = from, Life(c)' = to, Data(c)' = objects,
         \A d \in Claims : d # c => Life(d)' = Life(d) /\ Data(d)' = Data(d)
  PROVE  Lifecycle!Moves(c, from, to, objects)
BY DEF Lifecycle!Moves

\* A step that moves no claim.
LEMMA Unmoved ==
  ASSUME \A d \in Claims : Life(d)' = Life(d) /\ Data(d)' = Data(d)
  PROVE  UNCHANGED Lifecycle!vars
BY DEF Lifecycle!vars
\* Users' steps are the abstract ones.
LEMMA UserSimulates ==
  ASSUME TypeInv, LifeInv, StateInv, NEW c \in Claims,
         Submit(c) \/ DeleteClaim(c) \/ WriteObject(c)
  PROVE  [Lifecycle!Next]_(Lifecycle!vars)
<1>0. /\ claim \in [Claims -> {"none", "pending", "bound", "deleted"}]
      /\ pv \in [Claims -> Volume \cup {NoVolume}]
      /\ store \in [Names -> Bucket]
  BY DEF TypeInv, TypeOK
<1>1. NoVolume.bucket \notin Generated
  BY NamesAssumption DEF NoVolume
<1>2. CASE Submit(c)
  <2>1. /\ claim[c] = "none" /\ claim'[c] = "pending" /\ UNCHANGED <<store, pv>>
        /\ \A d \in Claims : d # c => claim'[d] = claim[d]
    BY <1>0, <1>2 DEF Submit
  <2>2. Life(c) = "none" /\ Life(c)' = "pending"
    BY <2>1 DEF Life
  <2>3. \A d \in Claims : Data(d)' = Data(d)
    BY <2>1 DEF Data
  <2>4. \A d \in Claims : d # c => Life(d)' = Life(d)
    BY <2>1 DEF Life
  <2>5. Lifecycle!Moves(c, "none", "pending", Data(c))
    BY <2>2, <2>3, <2>4, Moved
  <2>6. Lifecycle!Ask(c)
    BY <2>5 DEF Lifecycle!Ask
  <2> QED
    BY <2>6 DEF Lifecycle!Next
<1>3. CASE DeleteClaim(c)
  <2>1. /\ claim[c] \in {"pending", "bound"} /\ claim'[c] = "deleted"
        /\ UNCHANGED <<store, pv>>
        /\ \A d \in Claims : d # c => claim'[d] = claim[d]
    BY <1>0, <1>3 DEF DeleteClaim
  <2>2. \A d \in Claims : Data(d)' = Data(d) /\ (d # c => Life(d)' = Life(d))
    BY <2>1 DEF Data, Life
  <2>3. CASE claim[c] = "pending"
    <3>1. Life(c) = "pending" /\ Life(c)' = "gone" /\ Data(c)' = {}
      BY <1>1, <2>1, <2>3 DEF Life, Data, StateInv, Saved
    <3>2. Lifecycle!Withdraw(c)
      BY <2>2, <3>1, Moved DEF Lifecycle!Withdraw
    <3> QED
      BY <3>2 DEF Lifecycle!Next
  <2>4. CASE claim[c] = "bound"
    <3>1. Life(c) = "bound" /\ Life(c)' = "released"
      BY <2>1, <2>4 DEF Life, StateInv, Saved
    <3>2. Lifecycle!Moves(c, "bound", "released", Data(c))
      BY <2>2, <3>1, Moved
    <3>3. Lifecycle!Release(c)
      BY <3>2 DEF Lifecycle!Release
    <3> QED
      BY <3>3 DEF Lifecycle!Next
  <2> QED
    BY <2>1, <2>3, <2>4
<1>4. CASE WriteObject(c)
  <2> DEFINE n == pv[c].bucket
  <2>1. /\ UNCHANGED <<req, claim, pv, op, used>> /\ Bound(c)
        /\ \A m \in Names : m # n => store'[m] = store[m]
        /\ n \in Generated => \A d \in Claims : d # c => pv[d].bucket # n
    BY <1>4, WriteReaches
  <2>2. PICK key \in Objects :
          n \in Names => store'[n] = WithObject(store[n], key)
    BY <1>4, WriteReaches
  <2> HIDE DEF n
  <2>3. \A d \in Claims : Life(d)' = Life(d)
    BY <2>1 DEF Life
  <2>4. ASSUME NEW d \in Claims, d # c PROVE Data(d)' = Data(d)
    <3>1. pv[d].bucket \in Generated => store'[pv[d].bucket] = store[pv[d].bucket]
      BY <2>1, <2>4 DEF n, Names
    <3> QED
      BY <2>1, <3>1 DEF Data
  <2>5. CASE n \in Generated
    <3>1. /\ Data(c) = store[n].cur
          /\ Data(c)' = WithObject(store[n], key).cur
      BY <2>1, <2>2, <2>5 DEF Data, n, Names
    <3>2. store[n] \in Bucket
      BY <1>0, <2>5 DEF Names
    <3>3. WithObject(store[n], key).cur = store[n].cur \cup {key}
      BY <3>2 DEF WithObject, Bucket
    <3>4. Data(c)' = Data(c) \cup {key}
      BY <3>1, <3>3
    <3>5. Life(c) = "bound" /\ Life(c)' = "bound"
      BY <2>1, <2>3 DEF Life, Bound
    <3>6. Lifecycle!Moves(c, "bound", "bound", Data(c) \cup {key})
      BY <2>3, <2>4, <3>4, <3>5, Moved
    <3>7. Lifecycle!Write(c)
      BY <3>6 DEF Lifecycle!Write
    <3> QED
      BY <3>7 DEF Lifecycle!Next
  <2>6. CASE n \notin Generated
    <3>1. Data(c)' = Data(c)
      BY <2>1, <2>6 DEF Data, n
    <3> QED
      BY <2>3, <2>4, <3>1, Unmoved
  <2> QED
    BY <2>5, <2>6
<1> QED
  BY <1>2, <1>3, <1>4

\* What a call does is one move of its claim, or nothing that a user sees.
LEMMA StepSimulates ==
  ASSUME TypeInv, LifeInv, StateInv, NEW k \in Calls, Step(k)
  PROVE  [Lifecycle!Next]_(Lifecycle!vars)
<1> DEFINE c == k[2]
           n == pv[c].bucket
<1>0. /\ c \in Claims
      /\ claim \in [Claims -> {"none", "pending", "bound", "deleted"}]
      /\ pv \in [Claims -> Volume \cup {NoVolume}]
      /\ store \in [Names -> Bucket]
  BY DEF TypeInv, TypeOK, Calls
<1>1. NoVolume.bucket \notin Generated
  BY NamesAssumption DEF NoVolume
<1>2. Reaches(k)
  BY StepsFacts DEF StepFacts
<1>3. \A d \in Claims :
        pv[d].bucket \in Generated /\ (claim[d] = "deleted" => d # c)
          => store'[pv[d].bucket] = store[pv[d].bucket]
  BY <1>2, OthersUntouched
<1>4. ASSUME NEW d \in Claims, pv'[d] = pv[d],
             claim[d] = "deleted" => d # c
      PROVE  Data(d)' = Data(d)
  BY <1>3, <1>4 DEF Data
<1>5. CASE UNCHANGED <<pv, claim>>
  <2>1. \A d \in Claims : Life(d)' = Life(d)
    BY <1>5 DEF Life
  <2>2. \A d \in Claims : d # c => Data(d)' = Data(d)
    BY <1>4, <1>5
  <2>3. CASE claim[c] = "deleted" /\ n \in Generated
    <3>1. Keeps(store[n], store'[n])
      BY <1>2, <2>3 DEF Reaches, Names
    <3>2. Data(c)' \subseteq Data(c)
      BY <1>5, <2>3, <3>1 DEF Data, Keeps
    <3>3. Life(c) = "released" /\ Life(c)' = "released"
      <4>1. pv[c] # NoVolume
        BY <1>1, <2>3
      <4>2. Life(c) = "released"
        BY <2>3, <4>1 DEF Life
      <4> QED
        BY <1>0, <2>1, <4>2
    <3>4. PICK rest \in SUBSET Data(c) : rest = Data(c)'
      BY <3>2
    <3>5. Lifecycle!Moves(c, "released", "released", rest)
      BY <1>0, <2>1, <2>2, <3>3, <3>4, Moved
    <3>6. Lifecycle!Purge(c)
      BY <1>0, <3>5 DEF Lifecycle!Purge
    <3> QED
      BY <1>0, <3>6 DEF Lifecycle!Next
  <2>4. CASE ~ (claim[c] = "deleted" /\ n \in Generated)
    <3>1. Data(c)' = Data(c)
      BY <1>0, <1>4, <1>5, <2>4 DEF Data
    <3> QED
      BY <2>1, <2>2, <3>1, Unmoved
  <2> QED
    BY <2>3, <2>4
<1>6. CASE /\ SavePV(k) /\ pv[c] = NoVolume /\ pv'[c] # NoVolume
           /\ op[k].cause = "provision" /\ claim[c] \in {"pending", "deleted"}
           /\ pv' = [pv EXCEPT ![c] = pv'[c]] /\ pv'[c].bucket = op[k].bucket
           /\ claim' = [claim EXCEPT ![c] = IF @ = "pending" THEN "bound" ELSE @]
           /\ store' = store
  <2>1. \A d \in Claims : d # c => pv'[d] = pv[d] /\ claim'[d] = claim[d]
    BY <1>0, <1>6
  <2>2. \A d \in Claims : d # c => Life(d)' = Life(d) /\ Data(d)' = Data(d)
    BY <1>4, <2>1 DEF Life
  <2>3. op[k].bucket \in Generated => store[op[k].bucket].cur = {}
    BY <1>6 DEF StateInv, Unspoilt, Prepared
  <2>4. Data(c)' = {}
    BY <1>6, <2>3 DEF Data
  <2>5. CASE claim[c] = "pending"
    <3>1. claim'[c] = "bound"
      BY <1>0, <1>6, <2>5
    <3>2. Life(c) = "pending" /\ Life(c)' = "bound"
      BY <2>5, <3>1 DEF Life
    <3>3. Lifecycle!Moves(c, "pending", "bound", {})
      BY <1>0, <2>2, <2>4, <3>2, Moved
    <3> QED
      BY <1>0, <3>3 DEF Lifecycle!Next, Lifecycle!Bind
  <2>6. CASE claim[c] = "deleted"
    <3>1. claim'[c] = "deleted"
      BY <1>0, <1>6, <2>6
    <3>2. Life(c) = "gone" /\ Life(c)' = "released"
      BY <1>6, <2>6, <3>1 DEF Life
    <3>3. Lifecycle!Moves(c, "gone", "released", {})
      BY <1>0, <2>2, <2>4, <3>2, Moved
    <3> QED
      BY <1>0, <3>3 DEF Lifecycle!Next, Lifecycle!ComeLate
  <2> QED
    BY <1>6, <2>5, <2>6
<1>7. CASE /\ claim[c] = "deleted" /\ UNCHANGED <<store, claim>>
           /\ pv' = [pv EXCEPT ![c] = NoVolume]
  <2>1. \A d \in Claims : pv'[d] = IF d = c THEN NoVolume ELSE pv[d]
    BY <1>0, <1>7
  <2>2. \A d \in Claims : d # c => Life(d)' = Life(d) /\ Data(d)' = Data(d)
    BY <1>7, <2>1 DEF Life, Data
  <2>3. Data(c)' = {} /\ Life(c)' = "gone"
    BY <1>0, <1>1, <1>7, <2>1 DEF Life, Data
  <2>4. CASE pv[c] # NoVolume
    <3>1. Life(c) = "released"
      BY <1>7, <2>4 DEF Life
    <3>2. Lifecycle!Moves(c, "released", "gone", {})
      BY <1>0, <2>2, <2>3, <3>1, Moved
    <3> QED
      BY <1>0, <3>2 DEF Lifecycle!Next, Lifecycle!Forget
  <2>5. CASE pv[c] = NoVolume
    <3>1. Life(c)' = Life(c) /\ Data(c)' = Data(c)
      BY <1>1, <1>7, <2>3, <2>5 DEF Life, Data
    <3> QED
      BY <2>2, <3>1, Unmoved
  <2> QED
    BY <2>4, <2>5
<1> QED
  BY <1>5, <1>6, <1>7, VolumeStep

\* So is every step of the system.
LEMMA NextSimulates ==
  TypeInv /\ LifeInv /\ StateInv /\ [Next]_vars
    => [Lifecycle!Next]_(Lifecycle!vars)
<1> SUFFICES ASSUME TypeInv, LifeInv, StateInv, [Next]_vars
             PROVE  [Lifecycle!Next]_(Lifecycle!vars)
  OBVIOUS
<1>1. CASE UNCHANGED <<store, claim, pv>>
  <2>1. \A d \in Claims : Life(d)' = Life(d) /\ Data(d)' = Data(d)
    BY <1>1 DEF Life, Data
  <2> QED
    BY <2>1, Unmoved
<1>2. ASSUME NEW p \in Procs, Crash(p) PROVE UNCHANGED <<store, claim, pv>>
  BY <1>2 DEF Crash
<1> QED
  BY <1>1, <1>2, UserSimulates, StepSimulates DEF Next, vars, Calls

\* Nobody has asked for anything at the start.
LEMMA InitSimulates == Init => Lifecycle!Init
<1> SUFFICES ASSUME Init PROVE Lifecycle!Init
  OBVIOUS
<1>1. \A c \in Claims : Life(c) = "none" /\ Data(c) = {}
  BY NamesAssumption DEF Init, Life, Data, NoVolume
<1> QED
  BY <1>1 DEF Lifecycle!Init

\* What users see of the provisioner is what VolumeLifecycle promises them.
THEOREM LifecycleImplemented == Spec => ImplementsLifecycle
<1>1. Init => Lifecycle!Init
  BY InitSimulates
<1>2. TypeInv /\ LifeInv /\ StateInv /\ [Next]_vars
        => [Lifecycle!Next]_(Lifecycle!vars)
  BY NextSimulates
<1> QED
  BY <1>1, <1>2, Invariants, PTL DEF Spec, ImplementsLifecycle, Lifecycle!Spec

\* No step takes an object away from a bound claim with a generated bucket.
THEOREM DataKept == Spec => BoundDataKept
<1> DEFINE Kept ==
             \A c \in Claims :
               Bound(c) /\ pv[c].bucket \in Generated =>
                 store[pv[c].bucket].cur \subseteq store'[pv[c].bucket].cur
<1>1. TypeInv /\ LifeInv /\ StateInv /\ [Next]_vars => [Kept]_vars
  <2> SUFFICES ASSUME TypeInv, LifeInv, StateInv, [Next]_vars,
                      NEW c \in Claims, Bound(c), pv[c].bucket \in Generated
               PROVE  store[pv[c].bucket].cur \subseteq store'[pv[c].bucket].cur
    OBVIOUS
  <2>1. ASSUME NEW k \in Calls, Step(k)
        PROVE  store'[pv[c].bucket] = store[pv[c].bucket]
    BY <2>1, StepsFacts, OthersUntouched DEF StepFacts, Bound
  <2>2. ASSUME NEW d \in Claims, WriteObject(d)
        PROVE  store[pv[c].bucket].cur \subseteq store'[pv[c].bucket].cur
    <3>1. CASE pv[d].bucket = pv[c].bucket
      <4>0. \E key \in Objects : pv[d].bucket \in Names =>
              store'[pv[d].bucket] = WithObject(store[pv[d].bucket], key)
        BY <2>2, WriteReaches
      <4>1. PICK key : store'[pv[c].bucket] = WithObject(store[pv[c].bucket], key)
        BY <3>1, <4>0 DEF Names
      <4>2. store[pv[c].bucket] \in Bucket
        BY DEF TypeInv, TypeOK, Names
      <4> QED
        BY <4>1, <4>2 DEF WithObject, Bucket
    <3>2. CASE pv[d].bucket # pv[c].bucket
      BY <2>2, <3>2, WriteReaches DEF Names
    <3> QED
      BY <3>1, <3>2
  <2>3. CASE store' = store
    BY <2>3
  <2> QED
    BY <2>1, <2>2, <2>3 DEF Next, Calls, Submit, DeleteClaim, Crash, vars
<1> QED
  BY <1>1, Invariants, PTL DEF Spec, BoundDataKept
=============================================================================
