--------------------------- MODULE MCProvisioner ---------------------------
(***************************************************************************)
(* Small instances of Provisioner for TLC.                                 *)
(***************************************************************************)
EXTENDS Provisioner, TLC

CONSTANTS p1, p2, c1, c2, g1, g2, g3, g4, u1, o1, o2, none

MCSymmetry == 
  Permutations(Generated) \cup Permutations(Procs) \cup Permutations(Claims)

\* A claim that names nothing: bucket created and named by the provisioner.
Plain ==
  [ autoCreate |-> "", scAutoCreate |-> "", autoDelete |-> "",
    scAutoDelete |-> "", versioning |-> "", bucket |-> NoBucket,
    objectPath |-> FALSE, setPolicy |-> "false", quotaLimit |-> "false",
    validate |-> "", accessModes |-> 1, resConfKey |-> TRUE,
    wellFormed |-> TRUE ]

AutoDelete == [Plain EXCEPT !.autoDelete = "true"]

\* All three settings after creation, each of which can fail and revert.
Configured ==
  [AutoDelete EXCEPT !.versioning = "1", !.setPolicy = "", !.quotaLimit = ""]

Named == [AutoDelete EXCEPT !.bucket = u1, !.setPolicy = ""]

\* An existing bucket, used as it is.
Static ==
  [Plain EXCEPT !.autoCreate = "false", !.bucket = u1]

Unvalidated == [Static EXCEPT !.validate = "no", !.objectPath = TRUE]

OwnBucket == [Fresh EXCEPT !.cur = {o1}]
SharedBucket == [OwnBucket EXCEPT !.owner = "shared"]
ForeignBucket == [OwnBucket EXCEPT !.owner = "them"]

AllFaults ==
  {"authorize", "create", "version", "access", "quota", "check", "path",
   "revert", "delete", "crash"}

RaceRequests == {AutoDelete, Configured}

\* Every way through Provision and Delete, and every answer of CreateBucket.
MixedRequests ==
  { AutoDelete, Configured, Named, Static,
    [Plain EXCEPT !.accessModes = 2],
    [Plain EXCEPT !.setPolicy = "", !.resConfKey = FALSE],
    [Static EXCEPT !.bucket = NoBucket],
    [Static EXCEPT !.objectPath = TRUE, !.versioning = "true"],
    [Static EXCEPT !.validate = "no", !.objectPath = TRUE],
    [Static EXCEPT !.setPolicy = "", !.quotaLimit = "true"] }

MixedExisting == {Absent, OwnBucket, SharedBucket, ForeignBucket}

\* Claims with one access mode and a session wherever they need one, and the
\* failures that Provision reverts or Delete retries.
PlainRequests ==
  { AutoDelete, Configured, Plain, Named, [Static EXCEPT !.validate = "no"] }
PlainFaults == {"authorize", "version", "access", "quota", "delete"}
PlainExisting == {Absent, OwnBucket}

\* Volumes that go with their bucket and some that do not; own names and one
\* that is already taken, by us or by a reachable instance.  The latter has no
\* settings: two processes that fail to make them undo each other and may both
\* give the claim up.
RecoveryRequests ==
  { AutoDelete, [AutoDelete EXCEPT !.setPolicy = "", !.quotaLimit = ""], Plain,
    [Named EXCEPT !.setPolicy = "false"], Static }
RecoveryExisting == {OwnBucket, SharedBucket}

RevertRequests == {Named}
SpellingRequests == {[Static EXCEPT !.autoCreate = "TRUE", !.autoDelete = "true"]}
NilRequests ==
  {[Static EXCEPT !.validate = "no", !.objectPath = TRUE]}
VersionRequests == {[AutoDelete EXCEPT !.versioning = "true"]}
=============================================================================
