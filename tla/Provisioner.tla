---------------------------- MODULE Provisioner ----------------------------
(***************************************************************************)
(* The provisioner: Provision and Delete of                                *)
(* src/provisioner/ibm-s3fs-provisioner.go, with the bucket operations of  *)
(* src/utils/backend they call, run by the sig-storage provision           *)
(* controller that src/cmd/provisioner/main.go configures.                 *)
(*                                                                         *)
(* Several provisioner processes may run at once: main.go switches leader  *)
(* election off and the deployment's rolling update starts the new pod     *)
(* before the old one is gone.  Every request to the object storage is a   *)
(* step of its own, and the steps of all processes interleave.             *)
(***************************************************************************)
EXTENDS Annotations, CosService

CONSTANTS
  Claims,       \* persistent volume claims
  Procs,        \* provisioner processes
  Generated,    \* the names tmp-s3fs-<uuid>
  Requests,     \* what the claims ask for
  Existing,     \* what a user-named bucket may be before the first claim
  ConfigBucketAccessPolicy, ConfigQuotaLimit,   \* flags of main.go
  Faults,       \* the calls that may fail
  MaxFaults     \* bound: failed calls and crashes in a behaviour

ASSUME RequestsAssumption == Requests \subseteq Request
ASSUME ExistingAssumption == Existing \subseteq Bucket
ASSUME NamesAssumption ==
  /\ NoBucket \notin Generated
  /\ Generated \cap UserBuckets = {}
ASSUME MaxFaultsAssumption == MaxFaults \in Nat

VARIABLES
  store,   \* store[b]: the bucket of that name
  req,     \* req[c]: annotations, storage class and secret of the claim
  claim,   \* claim[c]: where the claim is in its life
  pv,      \* pv[c]: the persistent volume pvc-<uid of c>
  op,      \* op[p, c]: what process p is doing for claim c
  used,    \* the UUIDs drawn so far
  faults,  \* failed calls and crashes so far
  tries    \* tries[p, c]: the failed attempts process p counts of a pending c

vars == <<store, req, claim, pv, op, used, faults, tries>>

Names == UserBuckets \cup Generated

\* The persistent volume's annotations that Delete reads back.
Volume == [bucket : Names, autoDelete : BoolText]
NoVolume == [bucket |-> NoBucket, autoDelete |-> ""]

\* A running Provision or Delete, by its local variables.  `made` is a
\* history variable: this call's own CreateBucket created the bucket.
Operation ==
  [ pc     : {"idle", "authorize", "create", "version", "access", "quota",
              "check", "path", "built",
              "credentials", "list", "objects", "remove"},
    cause  : {"provision", "revert", "delete"},
    bucket : Names \cup {NoBucket},   \* pvc.Bucket
    val    : BOOLEAN,                 \* valBucket
    sess   : BOOLEAN,                 \* sess # nil
    own    : BOOLEAN,                 \* deleteBucket
    keys   : SUBSET Objects,          \* resp.Contents not yet deleted
    made   : BOOLEAN ]

Idle ==
  [ pc |-> "idle", cause |-> "provision", bucket |-> NoBucket, val |-> FALSE,
    sess |-> FALSE, own |-> FALSE, keys |-> {}, made |-> FALSE ]

TypeOK ==
  /\ store \in [Names -> Bucket]
  /\ req \in [Claims -> Requests]
  /\ claim \in [Claims -> {"none", "pending", "bound", "deleted"}]
  /\ pv \in [Claims -> Volume \cup {NoVolume}]
  /\ op \in [Procs \X Claims -> Operation]
  /\ used \subseteq Generated
  /\ faults \in 0 .. MaxFaults
  /\ tries \in [Procs \X Claims -> Nat]

Init ==
  /\ \E s \in [UserBuckets -> Existing] :
        store = [b \in Names |-> IF b \in UserBuckets THEN s[b] ELSE Absent]
  /\ req \in [Claims -> Requests]
  /\ claim = [c \in Claims |-> "none"]
  /\ pv = [c \in Claims |-> NoVolume]
  /\ op = [k \in Procs \X Claims |-> Idle]
  /\ used = {}
  /\ faults = 0
  /\ tries = [k \in Procs \X Claims |-> 0]
-----------------------------------------------------------------------------
(* Users and their pods. *)

Submit(c) ==
  /\ claim[c] = "none"
  /\ claim' = [claim EXCEPT ![c] = "pending"]
  /\ UNCHANGED <<store, req, pv, op, used, faults>>

\* The claim is deleted, bound or not.  Its volume becomes Released.
DeleteClaim(c) ==
  /\ claim[c] \in {"pending", "bound"}
  /\ claim' = [claim EXCEPT ![c] = "deleted"]
  /\ UNCHANGED <<store, req, pv, op, used, faults>>

\* A pod that mounts the claim's volume writes an object.
WriteObject(c) ==
  /\ claim[c] = "bound"
  /\ Reachable(store[pv[c].bucket])
  /\ \E key \in Objects \ store[pv[c].bucket].cur :
        store' = [store EXCEPT ![pv[c].bucket] = WithObject(@, key)]
  /\ UNCHANGED <<req, claim, pv, op, used, faults>>
-----------------------------------------------------------------------------
(* The controller's queue of claims, in the memory of each process. *)

Busy(k) == op[k].pc # "idle"

\* With failedRetryThreshold = 1 a claim is queued again after its first
\* failure, and after the second one not until the process is a new one: the
\* resync leaves claims alone that have a count.
FailedRetryThreshold == 1
GivenUp(k) == tries[k] > FailedRetryThreshold

\* The counts after a step, as far as they matter: a claim that is no longer
\* pending needs none, and they go with the processes that end.
Remember(ended) ==
  tries' = [k \in Procs \X Claims |->
              IF claim'[k[2]] # "pending" \/ k[1] \in ended THEN 0
              ELSE IF Busy(k) /\ ~ Busy(k)' THEN tries[k] + 1
              ELSE tries[k]]
-----------------------------------------------------------------------------
(* Requests to the service. *)

Fault(call) ==
  /\ call \in Faults
  /\ faults < MaxFaults
  /\ faults' = faults + 1

\* The service grants the request if `granted` holds, and the bucket becomes
\* `effect`.  A failed call may have taken effect: only its answer is lost.
Call(k, call, granted, effect, done, failed) ==
  LET changed == [store EXCEPT ![op[k].bucket] = effect]
  IN \/ /\ granted
        /\ store' = changed
        /\ op' = [op EXCEPT ![k] = done]
        /\ UNCHANGED faults
     \/ /\ ~ granted
        /\ op' = [op EXCEPT ![k] = failed]
        /\ UNCHANGED <<store, faults>>
     \/ /\ granted
        /\ Fault(call)
        /\ store' \in {store, changed}
        /\ op' = [op EXCEPT ![k] = failed]
-----------------------------------------------------------------------------
(* The stages of Provision that are skipped when there is nothing to do.   *)
(* Each operator gives the operation as the stage before it leaves it.     *)

SetBucketAccessPolicy(r) == ConfigBucketAccessPolicy /\ r.setPolicy # "false"

SetQuotaLimit(r) == ConfigQuotaLimit /\ r.quotaLimit # "false"

\* More than one access mode is found out last, and nothing is undone.
ToBuilt(r, o) == IF r.accessModes > 1 THEN Idle ELSE [o EXCEPT !.pc = "built"]

ToPath(r, o) == IF r.objectPath THEN [o EXCEPT !.pc = "path"] ELSE ToBuilt(r, o)

ToCheck(r, o) == IF o.val THEN [o EXCEPT !.pc = "check"] ELSE ToPath(r, o)

ToQuota(r, o) ==
  IF SetQuotaLimit(r) THEN [o EXCEPT !.pc = "quota"] ELSE ToCheck(r, o)

ToAccess(r, o) ==
  IF SetBucketAccessPolicy(r) THEN [o EXCEPT !.pc = "access"] ELSE ToQuota(r, o)

ToVersion(r, o) ==
  IF BucketVersioning(r) = "off" THEN ToAccess(r, o)
                                 ELSE [o EXCEPT !.pc = "version"]

\* An error after the bucket has been created: "revert bucket creation" by
\* DeleteBucket if deleteBucket is still true, then return the error.
AfterErrorNoRevert(r, o) == Idle          \* mutant: the revert is missing
AfterErrorGoOn(r, o) == ToAccess(r, o)    \* mutant: the error is swallowed
AfterError(r, o) ==
  IF AutoCreateBucket(r) = "true" /\ o.own
    THEN [o EXCEPT !.pc = "list", !.cause = "revert"]
    ELSE Idle
-----------------------------------------------------------------------------
(* Provision. *)

FreshNamesReused == Generated             \* mutant: names repeat
FreshNames == Generated \ used

\* Provision's own check of the two auto-* texts, after validateAnnotations.
AutoDeleteNeedsAutoCreate(r) ==
  AutoDeleteBucket(r) = "true" => AutoCreateBucket(r) # "false"

ValBucket(r) == ~ (r.validate = "no" /\ AutoCreateBucket(r) = "false")

\* The error that comes out of backend.CreateBucket: the service's
\* BucketAlreadyOwnedByYou is turned into success.
CreateErrorAll(b) ==                      \* mutant: it is not
  CASE b.owner = "none" -> "" [] b.owner = "us" -> "BucketAlreadyOwnedByYou"
    [] OTHER -> "BucketAlreadyExists"
CreateError(b) ==
  IF b.owner \in {"none", "us"} THEN "" ELSE "BucketAlreadyExists"

\* deleteBucket after CreateBucket: only BucketAlreadyExists resets it.
OwnAfterCreateAlways(b) == TRUE           \* mutant: nothing resets it
OwnAfterCreate(b) == CreateError(b) = ""

\* The controller picks a pending claim that it has not given up.  A rejected request leaves no trace.
\* With auto-delete a missing bucket name is drawn at once.
StartProvision(k) ==
  LET r == req[k[2]]
      early == AutoDeleteBucket(r) = "true" /\ r.bucket = NoBucket
      Entry(b) == [Idle EXCEPT !.pc = "authorize", !.bucket = b,
                               !.val = ValBucket(r)]
  IN /\ ~ Busy(k)
     /\ claim[k[2]] = "pending"
     /\ ~ GivenUp(k)
     /\ Valid(r)
     /\ AutoDeleteNeedsAutoCreate(r)
     /\ \/ /\ early
           /\ \E b \in FreshNames :
                 /\ op' = [op EXCEPT ![k] = Entry(b)]
                 /\ used' = used \cup {b}
        \/ /\ ~ early
           /\ op' = [op EXCEPT ![k] = Entry(r.bucket)]
           /\ UNCHANGED used
     /\ UNCHANGED <<store, req, claim, pv, faults>>

\* The res-conf-apikey comes out of the secret, which is read iff valBucket.
ResConfKeyMissing(r) ==
  /\ SetBucketAccessPolicy(r) \/ SetQuotaLimit(r)
  /\ ~ (ValBucket(r) /\ r.resConfKey)

\* A bucket that is not to be created has to be named.
BucketNamedUnchecked(o) == TRUE           \* mutant: the check is missing
BucketNamed(o) == o.bucket # NoBucket

\* Credentials and session, allowed namespaces, the provider's answers over
\* gRPC, the res-conf-apikey; nothing has been created yet.  The fault stands
\* for a failed call of these and for an answer that Provision refuses.
Authorize(k) ==
  LET r == req[k[2]]
      o == [op[k] EXCEPT !.sess = op[k].val]
  IN /\ op[k].pc = "authorize"
     /\ \/ /\ ~ ResConfKeyMissing(r)
           /\ \/ /\ AutoCreateBucket(r) = "true"
                 /\ op' = [op EXCEPT ![k] = [o EXCEPT !.pc = "create",
                                                      !.own = TRUE]]
              \/ /\ AutoCreateBucket(r) # "true"
                 /\ BucketNamed(o)
                 /\ op' = [op EXCEPT ![k] = ToVersion(r, o)]
              \/ /\ AutoCreateBucket(r) # "true"
                 /\ ~ BucketNamed(o)
                 /\ op' = [op EXCEPT ![k] = Idle]
           /\ UNCHANGED faults
        \/ /\ ResConfKeyMissing(r)
           /\ op' = [op EXCEPT ![k] = Idle]
           /\ UNCHANGED faults
        \/ /\ Fault("authorize")
           /\ op' = [op EXCEPT ![k] = Idle]
     /\ UNCHANGED <<store, req, claim, pv, used>>

\* CreateBucket, drawing the name first if there is still none.  Provision
\* goes on after the error BucketAlreadyExists and gives up after any other.
CreateBucket(k) ==
  LET r == req[k[2]]
      o == op[k]
      After(b) == [o EXCEPT !.bucket = b,
                            !.own  = OwnAfterCreate(store[b]),
                            !.val  = TRUE,
                            !.made = ~ Exists(store[b])]
      Created(b) == [store EXCEPT ![b] = IF Exists(@) THEN @ ELSE Fresh]
  IN /\ o.pc = "create"
     /\ \E b \in IF o.bucket = NoBucket THEN FreshNames ELSE {o.bucket} :
           /\ used' = used \cup ({b} \cap Generated)
           /\ \/ /\ CreateError(store[b]) \in {"", "BucketAlreadyExists"}
                 /\ store' = Created(b)
                 /\ op' = [op EXCEPT ![k] = ToVersion(r, After(b))]
                 /\ UNCHANGED faults
              \/ /\ \/ Fault("create")
                    \/ /\ CreateError(store[b]) \notin {"", "BucketAlreadyExists"}
                       /\ UNCHANGED faults
                 /\ store' \in {store, Created(b)}
                 /\ op' = [op EXCEPT ![k] = Idle]
     /\ UNCHANGED <<req, claim, pv>>

SetBucketVersioning(k) ==
  LET r == req[k[2]]
      b == store[op[k].bucket]
  IN /\ op[k].pc = "version"
     /\ op[k].sess
     /\ Call(k, "version", Reachable(b),
             [b EXCEPT !.ver = BucketVersioning(r)],
             ToAccess(r, op[k]), AfterError(r, op[k]))
     /\ UNCHANGED <<req, claim, pv, used>>

UpdateAccessPolicy(k) ==
  LET r == req[k[2]]
      b == store[op[k].bucket]
  IN /\ op[k].pc = "access"
     /\ Call(k, "access", Reachable(b), [b EXCEPT !.policy = TRUE],
             ToQuota(r, [op[k] EXCEPT !.val = TRUE]), AfterError(r, op[k]))
     /\ UNCHANGED <<req, claim, pv, used>>

UpdateQuotaLimit(k) ==
  LET r == req[k[2]]
      b == store[op[k].bucket]
  IN /\ op[k].pc = "quota"
     /\ Call(k, "quota", Reachable(b), [b EXCEPT !.quota = TRUE],
             ToCheck(r, op[k]), AfterError(r, op[k]))
     /\ UNCHANGED <<req, claim, pv, used>>

CheckBucketAccess(k) ==
  LET b == store[op[k].bucket]
  IN /\ op[k].pc = "check"
     /\ op[k].sess
     /\ Call(k, "check", Reachable(b), b, ToPath(req[k[2]], op[k]), Idle)
     /\ UNCHANGED <<req, claim, pv, used>>

\* The path is found only if the bucket holds an object of that name.
CheckObjectPathExistence(k) ==
  LET b == store[op[k].bucket]
  IN /\ op[k].pc = "path"
     /\ op[k].sess
     /\ \E found \in BOOLEAN :
           /\ found => b.cur # {}
           /\ Call(k, "path", Reachable(b), b,
                   IF found THEN ToBuilt(req[k[2]], op[k]) ELSE Idle, Idle)
     /\ UNCHANGED <<req, claim, pv, used>>

\* The controller creates the volume Provision returned.  If one of that name
\* is there already, the one just provisioned is forgotten.
SavePV(k) ==
  LET c == k[2]
  IN /\ op[k].pc = "built"
     /\ op' = [op EXCEPT ![k] = Idle]
     /\ \/ /\ pv[c] = NoVolume
           /\ pv' = [pv EXCEPT ![c] =
                       [bucket |-> op[k].bucket,
                        autoDelete |-> AutoDeleteBucket(req[c])]]
           /\ claim' = [claim EXCEPT ![c] = IF @ = "pending" THEN "bound" ELSE @]
        \/ /\ pv[c] # NoVolume
           /\ UNCHANGED <<pv, claim>>
     /\ UNCHANGED <<store, req, used, faults>>
-----------------------------------------------------------------------------
(* DeleteBucket, called by Delete and by the reverting Provision. *)

\* Return from DeleteBucket without an error.
Deleted(o) == IF o.cause = "delete" THEN [o EXCEPT !.pc = "remove"] ELSE Idle

\* Return with one: the controller keeps the volume and tries again later.
NotDeletedIgnored(o) == Deleted(o)        \* mutant: the error is swallowed
NotDeleted(o) == Idle

\* ListObjects answers NoSuchBucket: somebody has been here before.
AlreadyDeletedError(o) == NotDeleted(o)   \* mutant: it is an error like others
AlreadyDeleted(o) == Deleted(o)

\* One ListObjects request: only the first page of keys is ever seen.
ListObjects(k) ==
  LET o == op[k]
      b == store[o.bucket]
  IN /\ o.pc = "list"
     /\ \/ /\ ~ Exists(b)
           /\ op' = [op EXCEPT ![k] = AlreadyDeleted(o)]
           /\ UNCHANGED <<store, faults>>
        \/ /\ Exists(b)
           /\ \E page \in Pages(b) :
                 Call(k, o.cause, Reachable(b), b,
                      [o EXCEPT !.pc = "objects", !.keys = page], NotDeleted(o))
     /\ UNCHANGED <<req, claim, pv, used>>

DeleteObject(k) ==
  LET o == op[k]
      b == store[o.bucket]
  IN /\ o.pc = "objects"
     /\ \E key \in o.keys :
           Call(k, o.cause, Reachable(b), WithoutObject(b, key),
                [o EXCEPT !.keys = @ \ {key}], NotDeleted(o))
     /\ UNCHANGED <<req, claim, pv, used>>

DeleteBucket(k) ==
  LET o == op[k]
      b == store[o.bucket]
  IN /\ o.pc = "objects"
     /\ o.keys = {}
     /\ Call(k, o.cause, Deletable(b), Absent, Deleted(o), NotDeleted(o))
     /\ UNCHANGED <<req, claim, pv, used>>
-----------------------------------------------------------------------------
(* Delete. *)

ShouldDeleteAny(c) == pv[c] # NoVolume    \* mutant: of any claim
\* The controller hands over the volume of a deleted claim.
ShouldDelete(c) == claim[c] = "deleted" /\ pv[c] # NoVolume

\* Delete goes by the text in the volume's annotation: "true" deletes the
\* bucket, any other boolean leaves it, anything else is an error.
StartDelete(k) ==
  LET v == pv[k[2]]
      Entry(step) == [Idle EXCEPT !.pc = step, !.cause = "delete",
                                  !.bucket = v.bucket]
  IN /\ ~ Busy(k)
     /\ ShouldDelete(k[2])
     /\ \/ /\ v.autoDelete = "true"
           /\ op' = [op EXCEPT ![k] = Entry("credentials")]
        \/ /\ v.autoDelete # "true"
           /\ ParseBool(v.autoDelete)
           /\ op' = [op EXCEPT ![k] = Entry("remove")]
     /\ UNCHANGED <<store, req, claim, pv, used, faults>>

DeleteCredentials(k) ==
  /\ op[k].pc = "credentials"
  /\ \/ /\ op' = [op EXCEPT ![k] = [@ EXCEPT !.pc = "list", !.sess = TRUE]]
        /\ UNCHANGED faults
     \/ /\ Fault("delete")
        /\ op' = [op EXCEPT ![k] = NotDeleted(op[k])]
  /\ UNCHANGED <<store, req, claim, pv, used>>

\* Delete succeeded: the controller removes the volume, by its name.
RemovePV(k) ==
  /\ op[k].pc = "remove"
  /\ pv' = [pv EXCEPT ![k[2]] = NoVolume]
  /\ op' = [op EXCEPT ![k] = Idle]
  /\ UNCHANGED <<store, req, claim, used, faults>>
-----------------------------------------------------------------------------
(* The end of a process takes every call it is in with it. *)

Stopped(p) == [k \in DOMAIN op |-> IF k[1] = p THEN Idle ELSE op[k]]

Crash(p) ==
  /\ Fault("crash")
  /\ op' = Stopped(p)
  /\ UNCHANGED <<store, req, claim, pv, used>>

\* A nil session is dereferenced: nothing recovers the panic.
UsesNilSession(k) == op[k].pc \in {"version", "check", "path"} /\ ~ op[k].sess

Panic(k) ==
  /\ UsesNilSession(k)
  /\ op' = Stopped(k[1])
  /\ UNCHANGED <<store, req, claim, pv, used, faults>>
-----------------------------------------------------------------------------
Step(k) ==
  /\ \/ StartProvision(k) \/ Authorize(k) \/ CreateBucket(k)
     \/ SetBucketVersioning(k) \/ UpdateAccessPolicy(k) \/ UpdateQuotaLimit(k)
     \/ CheckBucketAccess(k) \/ CheckObjectPathExistence(k) \/ SavePV(k)
     \/ StartDelete(k) \/ DeleteCredentials(k) \/ RemovePV(k)
     \/ ListObjects(k) \/ DeleteObject(k) \/ DeleteBucket(k)
     \/ Panic(k)
  /\ Remember(IF UsesNilSession(k) THEN {k[1]} ELSE {})

Next ==
  \/ /\ \E c \in Claims : Submit(c) \/ DeleteClaim(c) \/ WriteObject(c)
     /\ Remember({})
  \/ \E k \in Procs \X Claims : Step(k)
  \/ \E p \in Procs : Crash(p) /\ Remember({p})

Spec == Init /\ [][Next]_vars

\* The controller's worker threads go on with what they began.  They take up a
\* claim again that failed once, and a volume that failed: the library gives
\* volumes up after its default of 15 repetitions, which MaxFaults and the pages
\* of a bucket have to stay below.
Fairness == \A k \in Procs \X Claims : WF_vars(Step(k))

FairSpec == Spec /\ Fairness
-----------------------------------------------------------------------------
(* Properties. *)

Bound(c) == claim[c] = "bound"

\* Every request about a bucket, and so every volume, names one: all ways
\* through Provision and Delete have a name by then (499-505, 628-634, 706).
NamedBeforeUse ==
  \A k \in DOMAIN op :
    op[k].pc \notin {"idle", "authorize", "create"} => op[k].bucket \in Names

\* While a claim is bound to a bucket the provisioner named, that bucket is
\* there, whatever other processes provision, revert or delete meanwhile
\* (Provision 626-704, Delete 866-907, two processes: main.go 164).
BoundBucketLives ==
  \A c \in Claims :
    Bound(c) /\ pv[c].bucket \in Generated => Exists(store[pv[c].bucket])

\* No step removes an object from a generated bucket of a bound claim: no
\* revert or delete running for another volume, or from an earlier attempt
\* for the same claim, touches a pod's data (backend.go 187-216).
BoundDataKept ==
  [][\A c \in Claims :
       Bound(c) /\ pv[c].bucket \in Generated =>
         store[pv[c].bucket].cur \subseteq store'[pv[c].bucket].cur]_vars

\* A claim bound to a generated bucket has what it asked for: versioning,
\* firewall and quota survive failed calls, reverts and retries (655-704).
BoundBucketConfigured ==
  \A c \in Claims :
    Bound(c) /\ pv[c].bucket \in Generated =>
      LET b == store[pv[c].bucket]
      IN /\ b.ver = BucketVersioning(req[c])
         /\ SetBucketAccessPolicy(req[c]) => b.policy
         /\ SetQuotaLimit(req[c]) => b.quota

\* A failing Provision reverts a creation only if the name belonged to nobody
\* or to the own service instance: a bucket of another instance, which the
\* same credentials can delete, is left alone (649-657).
RevertSparesOthers ==
  \A k \in DOMAIN op :
    op[k].cause = "revert" => store[op[k].bucket].owner \in {"none", "us"}

\* A revert undoes the call's own creation and nothing else: comments at 679
\* and 694, "revert bucket creation if updating bucket access policy fails".
RevertOnlyOwnCreation ==
  \A k \in DOMAIN op : op[k].cause = "revert" => op[k].made

\* Somebody knows of the generated bucket g: a running call or a volume.
Held(g) ==
  \/ \E k \in DOMAIN op : Busy(k) /\ op[k].bucket = g
  \/ \E c \in Claims : pv[c].bucket = g

\* No bucket is forgotten: one that the provisioner has created is held by a
\* call or by a volume from its creation until it has gone, unless the claim
\* wanted it to outlive the volume.  With a single process whose reverts work,
\* no failing Provision and no Delete leaves a bucket behind (655-704, 878).
NoOrphanBuckets ==
  [][\A g \in Generated :
       Exists(store'[g]) /\ ~ Held(g)' =>
         \/ Exists(store[g]) /\ ~ Held(g)
         \/ \E c \in Claims : /\ pv[c].bucket = g
                             /\ pv[c].autoDelete # "true"
                             /\ claim[c] = "deleted"]_vars

\* Only calls for claim c create the bucket of its volume: the name is a
\* generated one, or no other claim and no second process knows it.
Sole(c) ==
  \/ pv[c].bucket \in Generated
  \/ /\ \A p, q \in Procs : p = q
     /\ \A d \in Claims : req[d].bucket = pv[c].bucket => d = c

\* When a volume with auto-delete goes, its bucket has gone before, however
\* often Delete failed, was cut off half way, or ran in both of the processes a
\* rolling update has (866-907; main.go 164).
BucketGoesBeforeVolume ==
  [][\A c \in Claims :
       /\ pv[c] # NoVolume
       /\ pv'[c] = NoVolume
       /\ pv[c].autoDelete = "true"
       /\ Sole(c)
       => ~ Exists(store'[pv[c].bucket])]_vars

\* A volume that is to be deleted with its bucket never names a bucket the
\* claim was not created from by auto-create: error text at 492, "bucket
\* auto-create must be enabled when bucket auto-delete is enabled".
AutoDeleteImpliesAutoCreate ==
  \A c \in Claims :
    pv[c].autoDelete = "true" => AutoCreateBucket(req[c]) = "true"

\* Every call that reaches the object storage has a session (515-523).
SessionBeforeUse == \A k \in DOMAIN op : ~ UsesNilSession(k)

\* The volume of a deleted claim goes away in the end: a deletion that failed
\* or was cut off is resumed, page after page, until the bucket is empty (for
\* fewer failures than the library's delete threshold, see Fairness).
ReleasedEventuallyGone ==
  \A c \in Claims : ShouldDelete(c) ~> pv[c] = NoVolume

\* Process k[1] will try the claim k[2] once more, whatever becomes of the
\* attempt that may be running.
AttemptLeft(k) == tries[k] = 0 \/ (~ Busy(k) /\ ~ GivenUp(k))

\* From when no request fails any more, a pending claim is bound that one
\* process has an attempt left for, unless the user deletes it: one attempt is
\* enough, though the process may have stopped right after CreateBucket and
\* find its bucket taken (BucketAlreadyOwnedByYou, backend.go 174).  A claim
\* that every process has given up stays pending (main.go 35, 167).
PendingEventuallyBound ==
  \A c \in Claims, n \in 0 .. MaxFaults :
    /\ claim[c] = "pending"
    /\ faults = n
    /\ \E p \in Procs : AttemptLeft(<<p, c>>)
    ~> claim[c] # "pending" \/ faults # n
-----------------------------------------------------------------------------
(* The abstract specification that the provisioner implements. *)

\* Where claim c is, its volume taken into account.
Life(c) ==
  CASE claim[c] # "deleted" -> claim[c]
    [] claim[c] = "deleted" /\ pv[c] # NoVolume -> "released"
    [] OTHER -> "gone"

\* The objects of its volume, if the provisioner named the bucket: a bucket
\* with a name the user chose may be shared, and nothing is promised of it.
Data(c) == IF pv[c].bucket \in Generated THEN store[pv[c].bucket].cur ELSE {}

Lifecycle ==
  INSTANCE VolumeLifecycle WITH life <- [c \in Claims |-> Life(c)],
                                data <- [c \in Claims |-> Data(c)]

\* Every claim goes through its life as VolumeLifecycle has it: a volume with
\* a generated bucket starts empty, whichever failed attempts came before,
\* holds what its pods wrote until the claim is deleted, and no step of a call
\* for one claim changes what another one sees (Provision 459-863, Delete
\* 866-907, two processes: main.go 164).
ImplementsLifecycle == Lifecycle!Spec
=============================================================================
