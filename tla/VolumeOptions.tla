--------------------------- MODULE VolumeOptions ---------------------------
(***************************************************************************)
(* The mount options of a claim on their way to s3fs: annotations and      *)
(* storage class parameters, checked by validateAnnotations, resolved and  *)
(* stored in the volume by Provision, checked again by the driver, and put *)
(* on the command line of s3fs.                                            *)
(*                                                                         *)
(* A text is a constant with what the code's conversions make of it.       *)
(* Options that the code treats alike are one: ChunkSizeMB stands for      *)
(* ParallelCount, MultiReqMax and StatCacheSize as well.                   *)
(***************************************************************************)
EXTENDS Integers

CONSTANTS
  Text,                 \* what an annotation may say; "" if it is absent
  Atoi,                 \* Atoi[text] for the texts that strconv.Atoi accepts
  JsonInts,             \* the texts that the JSON decoder accepts as an int
  Schemed,              \* the texts with prefix https:// or http://
  Addresses,            \* the texts that net.ParseIP accepts
  TrimSpace,            \* strings.TrimSpace
  ServiceEndpoint,      \* address of a COS service inside of the cluster
  AllowCrossNsSecret    \* the flag of that name

ASSUME TextAssumption ==
  /\ {"", "true", "false", "standard-cos"} \subseteq Text
  /\ Schemed \subseteq Text \ {""}
  /\ ServiceEndpoint \in Schemed
  /\ Atoi \in [DOMAIN Atoi -> Int]
  /\ "" \notin DOMAIN Atoi
  /\ JsonInts \subseteq DOMAIN Atoi
  /\ TrimSpace \in [Text -> Text]
  /\ \A text \in Text : TrimSpace[TrimSpace[text]] = TrimSpace[text]

\* Options that both a claim and its storage class may give.  "Cache" is
\* auto_cache in a claim and kernel-cache in a storage class.
Switches == {"UseXattr", "CurlDebug", "Cache"}

Options ==
  Switches \cup
  { "OSEndpoint", "OSStorageClass", "IAMEndpoint", "S3FSFUSERetryCount",
    "StatCacheExpireSeconds", "ChunkSizeMB", "ConnectTimeoutSeconds",
    "ReadwriteTimeoutSeconds", "DebugLevel", "AddMountParam",
    "TLSCipherSuite", "SecretName", "SecretNamespace" }

Request ==
  [ pvc : [Options -> Text],      \* annotations of the claim
    sc  : [Options -> Text],      \* parameters of its storage class
    Namespace : Text,             \* where the claim is
    AccessMode : Text,
    CosServiceName : Text,
    CosServiceNamespace : Text,
    SetAccessPolicy : Text,
    AllowedIps : SUBSET Text ]    \* the parts of access-policy-allowed-ips
-----------------------------------------------------------------------------
(* The provisioner. *)

\* The claim's text, or else that of its storage class.
ClassFirst(r, k) ==               \* mutant: the storage class overrides
  IF r.sc[k] # "" THEN r.sc[k] ELSE r.pvc[k]
Resolved(r, k) == IF r.pvc[k] # "" THEN r.pvc[k] ELSE r.sc[k]

\* UnmarshalMap decodes the annotations and the parameters.
Unmarshals(r) ==
  /\ \A k \in Switches : {r.pvc[k], r.sc[k]} \subseteq {"", "true", "false"}
  /\ r.sc["ChunkSizeMB"] \in JsonInts \cup {""}

ParseIPs(parts) == {TrimSpace[part] : part \in parts} \subseteq Addresses \cup {""}

\* A COS service inside of the cluster, if it is named with its namespace.
Endpoint(r) ==
  IF r.CosServiceName # "" /\ r.CosServiceNamespace # ""
    THEN ServiceEndpoint
    ELSE Resolved(r, "OSEndpoint")

IsNumber(text) == text \in DOMAIN Atoi

AtLeast(text, least) == text = "" \/ (IsNumber(text) /\ Atoi[text] >= least)

\* The checks of validateAnnotations before the CA bundle is written ...
ValidBefore(r) ==
  /\ Unmarshals(r)
  /\ Resolved(r, "SecretName") # ""
  /\ ParseIPs(r.AllowedIps)

\* ... and those behind it.  Only the claim's own timeouts are looked at.
ValidAfterUnchecked(r) ==         \* mutant: numbers are not looked at
  /\ {Endpoint(r), Resolved(r, "IAMEndpoint")} \subseteq Schemed
  /\ r.pvc["ChunkSizeMB"] = "" \/ IsNumber(r.pvc["ChunkSizeMB"])
ValidAfter(r) ==
  /\ {Endpoint(r), Resolved(r, "IAMEndpoint")} \subseteq Schemed
  /\ AtLeast(Resolved(r, "S3FSFUSERetryCount"), 1)
  /\ AtLeast(Resolved(r, "StatCacheExpireSeconds"), 0)
  /\ \A k \in {"ChunkSizeMB", "ConnectTimeoutSeconds", "ReadwriteTimeoutSeconds"} :
       r.pvc[k] = "" \/ IsNumber(r.pvc[k])

Valid(r) == ValidBefore(r) /\ ValidAfter(r)

\* The namespace the secret is taken from, now and by every mount.
SecretNamespace(r) ==
  IF AllowCrossNsSecret /\ Resolved(r, "SecretNamespace") # ""
    THEN Resolved(r, "SecretNamespace")
    ELSE r.Namespace

SwitchedOn(r, k) == "true" \in {r.pvc[k], r.sc[k]}

\* Options and secret of the volume: a number is decoded, the others are
\* texts and truth values.
Volume(r) ==
  [ OSEndpoint |-> Endpoint(r),
    OSStorageClass |-> Resolved(r, "OSStorageClass"),
    IAMEndpoint |-> Resolved(r, "IAMEndpoint"),
    S3FSFUSERetryCount |-> Resolved(r, "S3FSFUSERetryCount"),
    StatCacheExpireSeconds |-> Resolved(r, "StatCacheExpireSeconds"),
    ChunkSizeMB |->
      LET text == Resolved(r, "ChunkSizeMB")
      IN  IF text = "" THEN 0 ELSE Atoi[text],
    ConnectTimeoutSeconds |-> Resolved(r, "ConnectTimeoutSeconds"),
    ReadwriteTimeoutSeconds |-> Resolved(r, "ReadwriteTimeoutSeconds"),
    DebugLevel |-> Resolved(r, "DebugLevel"),
    AddMountParam |-> Resolved(r, "AddMountParam"),
    TLSCipherSuite |->
      LET own == TrimSpace[r.pvc["TLSCipherSuite"]]
      IN  IF own # "" THEN own ELSE r.sc["TLSCipherSuite"],
    UseXattr |-> SwitchedOn(r, "UseXattr"),
    CurlDebug |-> SwitchedOn(r, "CurlDebug"),
    AutoCache |-> r.pvc["Cache"] = "true",
    KernelCache |-> r.sc["Cache"] = "true" /\ r.pvc["Cache"] # "true",
    AccessMode |-> r.AccessMode,
    SecretName |-> Resolved(r, "SecretName"),
    SecretNamespace |-> SecretNamespace(r) ]
-----------------------------------------------------------------------------
(* The driver, for a volume v whose secret holds an API key or a key pair. *)

\* mountInternal goes on to the bucket.
DriverAccepts(v, apiKey) ==
  /\ v.OSEndpoint \in Schemed
  /\ AtLeast(v.S3FSFUSERetryCount, 1)
  /\ AtLeast(v.StatCacheExpireSeconds, 0)
  /\ \A text \in {v.ConnectTimeoutSeconds, v.ReadwriteTimeoutSeconds} :
       text = "" \/ IsNumber(text)
  /\ apiKey => v.IAMEndpoint \in Schemed \cup {""}

\* What follows -o on the command line; "" and FALSE are not given, but for an
\* empty dbglevel.
S3fsArgs(v, apiKey) ==
  [ url |-> v.OSEndpoint,
    endpoint |-> IF v.OSStorageClass # "" THEN v.OSStorageClass
                 ELSE "dummy-object-store-storageclass",
    multipart_size |-> v.ChunkSizeMB,
    dbglevel |-> v.DebugLevel,
    ro |-> v.AccessMode = "ReadOnlyMany",
    cipher_suites |->
      IF TrimSpace[v.TLSCipherSuite] = "" \/ v.TLSCipherSuite = "default"
        THEN "" ELSE v.TLSCipherSuite,
    retries |-> v.S3FSFUSERetryCount,
    stat_cache_expire |-> v.StatCacheExpireSeconds,
    curldbg |-> v.CurlDebug,
    auto_cache |-> v.AutoCache,
    kernel_cache |-> v.KernelCache,
    ibm_iam_auth |-> apiKey,
    ibm_iam_endpoint |->
      CASE ~ apiKey -> ""
        [] apiKey /\ v.IAMEndpoint = "" -> "https://iam.cloud.ibm.com"
        [] OTHER -> v.IAMEndpoint,
    connect_timeout |-> v.ConnectTimeoutSeconds,
    readwrite_timeout |-> v.ReadwriteTimeoutSeconds,
    use_xattr |-> v.UseXattr,
    params |-> v.AddMountParam ]
-----------------------------------------------------------------------------
(* What a user who reads the annotations may expect of the mount. *)

\* x is what the claim says of option k, or else what its storage class says,
\* or else what is meant by saying nothing.
Chosen(r, k, x, otherwise) ==
  /\ r.pvc[k] # "" => x = r.pvc[k]
  /\ r.pvc[k] = "" /\ r.sc[k] # "" => x = r.sc[k]
  /\ r.pvc[k] = "" /\ r.sc[k] = "" => x = otherwise

\* Options of s3fs that are a text and not given unless asked for.
Texts ==
  [ retries |-> "S3FSFUSERetryCount",
    stat_cache_expire |-> "StatCacheExpireSeconds",
    connect_timeout |-> "ConnectTimeoutSeconds",
    readwrite_timeout |-> "ReadwriteTimeoutSeconds",
    dbglevel |-> "DebugLevel", params |-> "AddMountParam" ]

\* The endpoints: a named service inside of the cluster goes before both texts;
\* IAM is for an API key only.
EndpointsAsAsked(r, apiKey, args) ==
  /\ IF r.CosServiceName # "" /\ r.CosServiceNamespace # ""
       THEN args.url = ServiceEndpoint
       ELSE Chosen(r, "OSEndpoint", args.url, "")
  /\ Chosen(r, "OSStorageClass", args.endpoint,
            "dummy-object-store-storageclass")
  /\ args.ibm_iam_auth = apiKey
  /\ IF apiKey
       THEN Chosen(r, "IAMEndpoint", args.ibm_iam_endpoint,
                   "https://iam.cloud.ibm.com")
       ELSE args.ibm_iam_endpoint = ""

\* The counts, 0 if nobody names one.
CountsAsAsked(r, args) ==
  \E text \in Text :
    /\ Chosen(r, "ChunkSizeMB", text, "")
    /\ text = "" => args.multipart_size = 0
    /\ text # "" => args.multipart_size = Atoi[text]

\* A claim that says "default" is rid of the suite of its class; one that says
\* nothing but blanks is not.
SuiteAsAsked(r, args) ==
  LET own == TrimSpace[r.pvc["TLSCipherSuite"]]
      class == r.sc["TLSCipherSuite"]
  IN /\ own \notin {"", "default"} => args.cipher_suites = own
     /\ own = "default" => args.cipher_suites = ""
     /\ own = "" => args.cipher_suites =
                      IF TrimSpace[class] = "" \/ class = "default" THEN ""
                      ELSE class

\* A switch is on if claim or class has it on: a claim cannot switch off what
\* its class has switched on, its "false" is as good as silence.  Only
\* a class asks for the kernel cache and only a claim for auto_cache; the claim
\* goes first and never gets both.
SwitchesAsAsked(r, args) ==
  /\ args.use_xattr = (r.pvc["UseXattr"] = "true" \/ r.sc["UseXattr"] = "true")
  /\ args.curldbg = (r.pvc["CurlDebug"] = "true" \/ r.sc["CurlDebug"] = "true")
  /\ args.auto_cache = (r.pvc["Cache"] = "true")
  /\ args.kernel_cache = (r.sc["Cache"] = "true" /\ ~ args.auto_cache)

\* Every option of args is the one that claim r and its class have asked for.
AsAsked(r, apiKey, args) ==
  /\ \A option \in DOMAIN Texts : Chosen(r, Texts[option], args[option], "")
  /\ EndpointsAsAsked(r, apiKey, args)
  /\ CountsAsAsked(r, args)
  /\ SuiteAsAsked(r, args)
  /\ SwitchesAsAsked(r, args)
  /\ args.ro = (r.AccessMode = "ReadOnlyMany")
=============================================================================
