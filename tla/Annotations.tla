---------------------------- MODULE Annotations ----------------------------
(***************************************************************************)
(* The request a claim carries (PVC annotations plus storage class         *)
(* parameters) and what validateAnnotations makes of it.                   *)
(*                                                                         *)
(* Only the values that steer Provision and Delete are kept apart.  Every  *)
(* annotation whose one effect on them is to make validation fail          *)
(* (secret-name, endpoints, counts, sizes, timeouts, allowed IPs) is       *)
(* summed up in the field wellFormed.                                      *)
(***************************************************************************)

CONSTANTS
  UserBuckets,   \* bucket names a user may write in ibm.io/bucket
  NoBucket       \* the empty bucket name

ASSUME NoBucketAssumption == NoBucket \notin UserBuckets

\* Spellings of a boolean annotation.  "TRUE" stands for every spelling that
\* strconv.ParseBool accepts and that strings.ToLower turns into the literal
\* "true"; "1" for those it accepts and ToLower leaves alone; "yes" for those
\* it rejects; "" is the absent annotation.
BoolText == {"", "true", "false", "TRUE", "1", "yes"}

\* strconv.ParseBool returns no error.
ParseBool(text) == text \in {"true", "false", "TRUE", "1"}

\* strings.ToLower(strings.TrimSpace(text))
ToLower(text) == IF text = "TRUE" THEN "true" ELSE text

Request ==
  [ autoCreate   : BoolText,   \* PVC ibm.io/auto-create-bucket
    scAutoCreate : BoolText,   \* the storage class parameter of that name
    autoDelete   : BoolText,
    scAutoDelete : BoolText,
    versioning   : BoolText,   \* bucket-versioning, PVC over storage class
    bucket       : UserBuckets \cup {NoBucket},
    objectPath   : BOOLEAN,    \* an object-path is given
    setPolicy    : BoolText,   \* set-access-policy
    quotaLimit   : BoolText,   \* quota-limit
    validate     : {"", "no"}, \* validate-bucket
    accessModes  : {1, 2},     \* how many access modes the claim asks for
    resConfKey   : BOOLEAN,    \* its secret holds a res-conf-apikey
    wellFormed   : BOOLEAN ]

\* The first text that is present: PVC over storage class over default.
FirstOf(pvcText, scText, default) ==
  IF pvcText # "" THEN pvcText ELSE IF scText # "" THEN scText ELSE default

AutoCreateBucket(r) == FirstOf(r.autoCreate, r.scAutoCreate, "true")

AutoDeleteBucket(r) == FirstOf(r.autoDelete, r.scAutoDelete, "false")

\* SetBucketVersioning is called with `enable` iff the text is exactly "true"
\* once it is in lower case: "1" is a valid value and suspends versioning.
BucketVersioningText(r) ==      \* mutant: the text is sent as it stands
  IF r.versioning = "" THEN "off" ELSE r.versioning
BucketVersioning(r) ==
  CASE r.versioning = ""               -> "off"
    [] ToLower(r.versioning) = "true"  -> "Enabled"
    [] OTHER                           -> "Suspended"

\* validateAnnotations returns no error.  Of the two auto-* texts only the
\* PVC's is parsed: the one a storage class supplies is taken as it stands.
Valid(r) ==
  /\ r.wellFormed
  /\ \A text \in {r.autoCreate, r.autoDelete, r.setPolicy, r.quotaLimit} :
        text = "" \/ ParseBool(text)
  /\ r.versioning = "" \/ ParseBool(ToLower(r.versioning))
  /\ ~ (AutoCreateBucket(r) = "true" /\ r.objectPath)
=============================================================================
