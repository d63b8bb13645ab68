------------------------ MODULE MCProvisionerProcess ------------------------
(***************************************************************************)
(* A small instance of ProvisionerProcess for TLC.                         *)
(***************************************************************************)
EXTENDS ProvisionerProcess, TLC

CONSTANTS j1, j2, j3, b1, b2, none, system

MCAtoi ==
  [text \in {"-1", "0", "5", "+5"} |->
     CASE text = "-1" -> -1 [] text = "0" -> 0 [] OTHER -> 5]
MCJsonInts == {"-1", "0", "5"}
MCSchemed == {"https://a", "http://b", "https://svc"}
MCText ==
  DOMAIN MCAtoi \cup MCSchemed \cup
  {"", " ", "true", "false", "yes", "word", "default", "10.0.0.1",
   "ReadOnlyMany", "svc", "standard-cos"}
MCTrimSpace == [text \in MCText |-> IF text = " " THEN "" ELSE text]

\* A claim that leaves everything to its storage class.
Silent == [k \in Options |-> ""]

Class ==
  [Silent EXCEPT !["OSEndpoint"] = "https://a", !["IAMEndpoint"] = "https://a",
                 !["ChunkSizeMB"] = "5", !["SecretName"] = "word"]

Plain ==
  [ pvc |-> Silent, sc |-> Class, Namespace |-> "word",
    AccessMode |-> "word", CosServiceName |-> "", CosServiceNamespace |-> "",
    SetAccessPolicy |-> "false", AllowedIps |-> {} ]

\* What claim and class may say of an option, by what the code makes of it.
Numbers ==
  { "S3FSFUSERetryCount", "StatCacheExpireSeconds", "ChunkSizeMB",
    "ConnectTimeoutSeconds", "ReadwriteTimeoutSeconds" }
Endpoints == {"OSEndpoint", "IAMEndpoint"}

TextsOf(k) ==
  CASE k \in Switches -> {"", "true", "false", "0"}
    [] k \in Numbers -> {"", "-1", "0", "+5", "word"}
    [] k \in Endpoints -> {"", "word", "http://b", "https://a"}
    [] k = "TLSCipherSuite" -> {"", " ", "default", "0", "word"}
    [] OTHER -> {"", "0", "word"}

\* One option at a time in every pair of its texts, and what else there is.
OptionRequests ==
  UNION {{[Plain EXCEPT !.pvc[k] = own, !.sc[k] = class] :
            own \in TextsOf(k), class \in TextsOf(k)} : k \in Options}
  \cup {[Plain EXCEPT !.AllowedIps = ips] :
          ips \in SUBSET {" ", "10.0.0.1", "word"}}
  \cup {[Plain EXCEPT !.AccessMode = "ReadOnlyMany",
                      !.pvc["OSEndpoint"] = "word",
                      !.CosServiceName = "svc",
                      !.CosServiceNamespace = ns] : ns \in {"", "word"}}

Provision(request, bundle) ==
  [ kind |-> "provision", request |-> request, bundle |-> bundle,
    apiKey |-> TRUE ]
Delete(bundle) == [Provision(Plain, bundle) EXCEPT !.kind = "delete"]
WithKeyPair(request) == [Provision(request, none) EXCEPT !.apiKey = FALSE]
NoJob == [Delete(none) EXCEPT !.kind = "none"]

Dialing == [Plain EXCEPT !.SetAccessPolicy = ""]
ForService == [Plain EXCEPT !.CosServiceName = "svc"]
Late == [Plain EXCEPT !.sc["OSEndpoint"] = "word"]

Three(x, y, z) == [j \in Jobs |-> IF j = j1 THEN x ELSE IF j = j2 THEN y ELSE z]
Two(x, y) == Three(x, y, NoJob)

World(jobs, map) == [jobs |-> jobs, info |-> map]

\* Options; bundles in the same file, in two files, and none; calls that wait
\* for the provider and others; a process that has no cluster-info.
MCWorlds ==
  {World(Two(Provision(r, none), NoJob), "fine") : r \in OptionRequests}
  \cup {World(Two(WithKeyPair(Plain), NoJob), "fine")}
  \cup {World(Two(x, y), "fine") :
          x \in {Provision(Plain, b1), Delete(b1)},
          y \in {Provision(Plain, b1), Provision(Plain, b2),
                 Provision(ForService, b2), Provision(Late, b2),
                 Provision(Dialing, none)}}
  \cup {World(Two(Provision(Dialing, none), Provision(Plain, none)), map) :
          map \in ClusterInfo}
  \cup {World(Three(Provision(Dialing, none), Provision(Dialing, none), last), "fine") :
          last \in {Delete(none), Provision(Dialing, none)}}
=============================================================================
