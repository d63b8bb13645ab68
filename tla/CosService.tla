----------------------------- MODULE CosService -----------------------------
(***************************************************************************)
(* IBM Cloud Object Storage as utils/backend uses it: the state of one     *)
(* bucket and the effect of one request on it.  The service itself is      *)
(* outside the repository.                                                 *)
(***************************************************************************)
EXTENDS Naturals, FiniteSets, FiniteSetsExt

CONSTANTS
  Objects,     \* object keys
  PageSize     \* keys one ListObjects answer holds (1000 in the service)

ASSUME PageSizeAssumption == PageSize \in Nat \ {0}

\* "none": no such bucket.  "us": a bucket of the service instance the secret
\* belongs to.  "shared": a bucket of another instance the credentials reach
\* as well.  "them": somebody else's bucket.
Owner == {"none", "us", "shared", "them"}

Bucket ==
  [ owner  : Owner,
    ver    : {"off", "Enabled", "Suspended"},
    cur    : SUBSET Objects,    \* current objects, what ListObjects shows
    old    : SUBSET Objects,    \* keys with only hidden versions or markers
    policy : BOOLEAN,           \* a firewall has been configured
    quota  : BOOLEAN ]          \* a hard quota has been configured

Absent ==
  [ owner |-> "none", ver |-> "off", cur |-> {}, old |-> {},
    policy |-> FALSE, quota |-> FALSE ]

Fresh == [Absent EXCEPT !.owner = "us"]

Exists(b) == b.owner # "none"

\* The credentials of the secret may read, configure and delete the bucket.
Reachable(b) == b.owner \in {"us", "shared"}

\* The answers of ListObjects without a marker: the first page.
Pages(b) == kSubset(Min({PageSize, Cardinality(b.cur)}), b.cur)

\* DeleteObject without a version id hides the object once versioning has
\* been configured and removes it otherwise.
WithoutObject(b, key) ==
  [b EXCEPT !.cur = @ \ {key},
            !.old = IF b.ver # "off" /\ key \in b.cur THEN @ \cup {key} ELSE @]

WithObject(b, key) ==
  [b EXCEPT !.cur = @ \cup {key}, !.old = @ \ {key}]

\* DeleteBucket is refused (BucketNotEmpty) while any version is left.
Deletable(b) == Reachable(b) /\ b.cur = {} /\ b.old = {}
=============================================================================
