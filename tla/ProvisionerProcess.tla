------------------------- MODULE ProvisionerProcess -------------------------
(***************************************************************************)
(* One provisioner process and what its worker threads share: the files    *)
(* with CA bundles and the environment, the socket of the provider, and    *)
(* the two pools of threads.  What a call does to its bucket is one step   *)
(* here, Finish; Provisioner has it in full.  Only calls that make a       *)
(* session are jobs: claims that validate their bucket and volumes that    *)
(* are deleted with theirs.                                                *)
(***************************************************************************)
EXTENDS VolumeOptions, FiniteSets

CONSTANTS
  Jobs,                      \* claims to provision and volumes to delete
  Bundles,                   \* CA certificates a secret may hold
  NoBundle,                  \* the secret holds none
  System,                    \* the certificates of the operating system
  Threads,                   \* worker threads of each of the two queues
  ConfigBucketAccessPolicy,  \* the flag bucketAccessPolicy
  Worlds,                    \* the jobs and the cluster-info a run begins with
  Faults,                    \* what may fail
  MaxFaults                  \* and how often

Job ==
  [ kind : {"provision", "delete", "none"},
    request : Request,
    bundle : Bundles \cup {NoBundle},
    apiKey : BOOLEAN ]

\* "fine": well formed, or not there at all; "broken": without a cluster_id.
ClusterInfo == {"fine", "broken"}

ASSUME WorldsAssumption ==
  Worlds \subseteq [jobs : [Jobs -> Job], info : ClusterInfo]

ASSUME BundlesAssumption ==
  NoBundle \notin Bundles /\ System \notin Bundles /\ "unset" \notin Text

ASSUME ThreadsAssumption ==
  Threads \in Nat \ {0} /\ MaxFaults \in Nat /\ IsFiniteSet(Jobs)

VARIABLES
  work,        \* work[j]: what job j is
  info,        \* the config map cluster-info
  up,          \* the process has got through its start
  bundleEnv,   \* the environment's AWS_CA_BUNDLE, by the name of the service
  file,        \* file[s]: the certificates in /tmp/s; none: empty or missing
  socket,      \* the provider listens
  call,        \* call[j]: the thread that works on j
  done,        \* done[j]: the controller is through with j
  tries,       \* tries[j]: the failed attempts the queue of claims counts
  faults

vars ==
  <<work, info, up, bundleEnv, file, socket, call, done, tries, faults>>

given == <<work, info>>
shared == <<up, bundleEnv, file>>
queue == <<done, tries>>

\* pc is the next step; trust the certificates of the session; late, that the
\* context of Provision has expired.  own is history: since the call began no
\* call with another bundle or for another service has touched what they share.
Call ==
  [ pc : {"idle", "open", "write", "setenv", "session", "dial", "ask", "finish"},
    trust : SUBSET (Bundles \cup {System}),
    late : BOOLEAN,
    own : BOOLEAN ]

Idle == [pc |-> "idle", trust |-> {}, late |-> FALSE, own |-> TRUE]

Services == Text \ {""}

Init ==
  /\ \E world \in Worlds : work = world.jobs /\ info = world.info
  /\ up = FALSE
  /\ bundleEnv = "unset"
  /\ file = [s \in Services |-> {}]
  /\ socket \in BOOLEAN
  /\ call = [j \in Jobs |-> Idle]
  /\ done = [j \in Jobs |-> FALSE]
  /\ tries = [j \in Jobs |-> 0]
  /\ faults \in 0..MaxFaults

\* Nothing fails any more once faults is MaxFaults; it starts anywhere below, so
\* that there are behaviours with fewer failures, and with none.
Fault(kind) == kind \in Faults /\ faults < MaxFaults /\ faults' = faults + 1
-----------------------------------------------------------------------------
(* The process. *)

\* main gives up on an error of LoadClusterInfoMap.  It is none if the map
\* cannot be read: then there are dummy values.
Start ==
  /\ ~ up
  /\ up' = TRUE
  /\ \/ info = "fine" /\ UNCHANGED faults
     \/ Fault("info")
  /\ UNCHANGED <<given, bundleEnv, file, socket, call, queue>>

\* The container restarts with neither files nor environment, and its queues
\* count anew.
Stopped ==
  /\ up' = FALSE
  /\ bundleEnv' = "unset"
  /\ file' = [s \in Services |-> {}]
  /\ call' = [j \in Jobs |-> Idle]
  /\ tries' = [j \in Jobs |-> 0]
  /\ UNCHANGED <<given, socket, done>>

Crash == up /\ Fault("crash") /\ Stopped

SocketDown ==
  /\ socket
  /\ Fault("socket")
  /\ socket' = FALSE
  /\ UNCHANGED <<given, shared, call, queue>>

SocketUp ==
  /\ ~ socket
  /\ socket' = TRUE
  /\ UNCHANGED <<given, shared, call, queue, faults>>
-----------------------------------------------------------------------------
(* The threads. *)

Asked(j) == work[j].request
Provisions(j) == work[j].kind = "provision"
Bundled(j) == work[j].kind # "none" /\ work[j].bundle # NoBundle

\* The name of the file that the bundle of a job goes to.
ServiceName(j) ==
  IF Asked(j).CosServiceName = "" THEN "standard-cos"
  ELSE Asked(j).CosServiceName

Dials(j) ==
  /\ Provisions(j)
  /\ ConfigBucketAccessPolicy
  /\ Asked(j).SetAccessPolicy # "false"

Busy(jobs) == {j \in jobs : call[j].pc # "idle"}

\* Claims and volumes are queued apart, each queue with threads of its own.
SharedPool(j) == Jobs                     \* mutant: one pool for both
Pool(j) == {k \in Jobs : work[k].kind = work[j].kind}

EndsLate(j) ==                  \* mutant: one context for all attempts
  call' = [call EXCEPT ![j] = [Idle EXCEPT !.late = call[j].late]]
Ends(j) == call' = [call EXCEPT ![j] = Idle]

\* An attempt fails.  With failedRetryThreshold = 1 a claim is queued again
\* after its first failure, and after the second one not until the process is a
\* new one; volumes have the library's 15 repetitions, which no behaviour within
\* MaxFaults uses up, and are not counted.
FailedRetryThreshold == 1
GivenUp(j) == tries[j] > FailedRetryThreshold

Fails(j) ==
  /\ Ends(j)
  /\ tries' = [tries EXCEPT ![j] = IF Provisions(j) THEN @ + 1 ELSE @]
  /\ UNCHANGED done

Goes(j, pc) == call' = [call EXCEPT ![j].pc = pc]

\* A thread takes job j, which the queue has not given up; one whose annotations
\* are refused before anything is written is left where it is.
Take(j) ==
  /\ up
  /\ call[j].pc = "idle" /\ ~ done[j] /\ work[j].kind # "none"
  /\ ~ GivenUp(j)
  /\ Cardinality(Busy(Pool(j))) < Threads
  /\ Provisions(j) => ValidBefore(Asked(j))
  /\ Goes(j, IF Bundled(j) THEN "open" ELSE "session")
  /\ UNCHANGED <<given, shared, socket, queue, faults>>

\* Two jobs that want the shared file or the environment to be different.
Conflict(j, k) ==
  /\ Bundled(j) /\ Bundled(k)
  /\ <<ServiceName(j), work[j].bundle>> # <<ServiceName(k), work[k].bundle>>

Preparing == {"open", "write", "setenv", "session"}

\* Job j goes on from a step that changed what is shared.
Touches(j, pc) ==
  call' = [k \in Jobs |->
    IF k = j THEN [call[j] EXCEPT !.pc = pc]
    ELSE IF Conflict(j, k) /\ call[k].pc \in Preparing
      THEN [call[k] EXCEPT !.own = FALSE]
      ELSE call[k]]

\* os.WriteFile first truncates the file ...
OpenBundle(j) ==
  /\ call[j].pc = "open"
  /\ file' = [file EXCEPT ![ServiceName(j)] = {}]
  /\ Touches(j, "write")
  /\ UNCHANGED <<given, up, bundleEnv, socket, queue, faults>>

\* ... and then writes over what another thread may have written meanwhile,
\* of which a tail may be left.
WriteBundle(j) ==
  /\ call[j].pc = "write"
  /\ \E rest \in {{}, file[ServiceName(j)]} :
       file' = [file EXCEPT ![ServiceName(j)] = rest \cup {work[j].bundle}]
  /\ Touches(j, "setenv")
  /\ UNCHANGED <<given, up, bundleEnv, socket, queue, faults>>

BundlePathOnce(j) ==                        \* mutant: it is set only once
  IF bundleEnv = "unset" THEN ServiceName(j) ELSE bundleEnv
BundlePathAsGiven(j) == Asked(j).CosServiceName  \* mutant: without the default
BundlePath(j) == ServiceName(j)

SetBundleEnv(j) ==
  /\ call[j].pc = "setenv"
  /\ bundleEnv' = BundlePath(j)
  /\ Touches(j, "session")
  /\ UNCHANGED <<given, up, file, socket, queue, faults>>

\* The rest of validateAnnotations refuses the claim.
Reject(j) ==
  /\ call[j].pc = "session"
  /\ Provisions(j) /\ ~ ValidAfter(Asked(j))
  /\ Fails(j)
  /\ UNCHANGED <<given, shared, socket, faults>>

Trusted == IF bundleEnv = "unset" THEN {System} ELSE file[bundleEnv]

ReadsBundle(j) ==
  /\ call[j].pc = "session"
  /\ Provisions(j) => ValidAfter(Asked(j))

NewSession(j) ==
  /\ ReadsBundle(j)
  /\ Trusted # {}
  /\ call' = [call EXCEPT ![j].trust = Trusted,
                          ![j].pc = IF Dials(j) THEN "dial" ELSE "finish"]
  /\ UNCHANGED <<given, shared, socket, queue, faults>>

\* A bundle without certificates: there is no session, its error is dropped
\* and the nil pointer used.  Finding a file in the moment between truncation
\* and writing counts as a fault, for it may happen over and over.
Panic(j) ==
  /\ ReadsBundle(j)
  /\ Trusted = {}
  /\ IF \E k \in Jobs : call[k].pc = "write" /\ ServiceName(k) = bundleEnv
       THEN Fault("collision")
       ELSE UNCHANGED faults
  /\ Stopped

\* grpc.Dial with WithBlock waits for the provider, whatever the context says.
Dial(j) ==
  /\ call[j].pc = "dial"
  /\ socket
  /\ Goes(j, "ask")
  /\ UNCHANGED <<given, shared, socket, queue, faults>>

\* The 60 seconds of the context are over.
Expire(j) ==
  /\ call[j].pc = "dial"
  /\ ~ socket /\ ~ call[j].late
  /\ call' = [call EXCEPT ![j].late = TRUE]
  /\ UNCHANGED <<given, shared, socket, queue, faults>>

\* GetProviderType and GetVPCSvcEndpoint have the context.
Answered(j) == socket /\ ~ call[j].late

Ask(j) ==
  /\ call[j].pc = "ask"
  /\ IF Answered(j) THEN Goes(j, "finish") /\ UNCHANGED queue ELSE Fails(j)
  /\ UNCHANGED <<given, shared, socket, faults>>

\* The object storage shows a certificate that the job's bundle has signed.
Trusts(j) ==
  (IF Bundled(j) THEN work[j].bundle ELSE System) \in call[j].trust

\* The rest of the call: its requests, and the volume saved or removed.
Finish(j) ==
  /\ call[j].pc = "finish"
  /\ \/ /\ Trusts(j)
        /\ Ends(j)
        /\ done' = [done EXCEPT ![j] = TRUE]
        /\ tries' = [tries EXCEPT ![j] = 0]
     \/ /\ ~ Trusts(j)
        /\ Fails(j)
  /\ UNCHANGED <<given, shared, socket, faults>>

\* A secret, a file, the provider or the object storage fails.
Fail(j) ==
  /\ call[j].pc \in {"open", "write", "session", "ask", "finish"}
  /\ Fault("call")
  /\ Fails(j)
  /\ UNCHANGED <<given, shared, socket>>

Step(j) ==
  \/ OpenBundle(j) \/ WriteBundle(j) \/ SetBundleEnv(j)
  \/ Reject(j) \/ NewSession(j) \/ Panic(j)
  \/ Dial(j) \/ Expire(j) \/ Ask(j) \/ Finish(j) \/ Fail(j)

Next ==
  \/ Start \/ Crash \/ SocketDown \/ SocketUp
  \/ \E j \in Jobs : Take(j) \/ Step(j)

Spec == Init /\ [][Next]_vars

\* The container is restarted, a thread goes on, and a job that is queued is
\* taken in the end: the queue is first in, first out.  One that is given up is
\* not queued.
Fairness ==
  /\ WF_vars(Start)
  /\ \A j \in Jobs : WF_vars(Step(j)) /\ SF_vars(Take(j))

FairSpec == Spec /\ Fairness
-----------------------------------------------------------------------------
(* Properties. *)

TypeOK ==
  /\ work \in [Jobs -> Job]
  /\ info \in ClusterInfo
  /\ up \in BOOLEAN
  /\ bundleEnv \in Services \cup {"unset"}
  /\ file \in [Services -> SUBSET Bundles]
  /\ socket \in BOOLEAN
  /\ call \in [Jobs -> Call]
  /\ done \in [Jobs -> BOOLEAN]
  /\ tries \in [Jobs -> Nat]
  /\ faults \in 0..MaxFaults

\* A call whose secret holds a CA bundle talks to the object storage with this
\* bundle and no other, whatever earlier calls, failed writes or restarts have
\* left in the file and in the environment, if no call for something else ran
\* at the same time (writeCrtFile 155-176; there is no lock).
OwnBundleTrusted ==
  \A j \in Jobs :
    Bundled(j) /\ call[j].own /\ call[j].pc \in {"dial", "ask", "finish"}
    => call[j].trust = {work[j].bundle}

\* The storage class's own timeouts are the one thing only the driver checks.
ClassTimeoutsFine(r) ==
  \A k \in {"ConnectTimeoutSeconds", "ReadwriteTimeoutSeconds"} :
    r.sc[k] = "" \/ IsNumber(r.sc[k])

\* What the provisioner has accepted the driver accepts on every node, for
\* the two check the same options in code of their own (validateAnnotations
\* 238-444, mountInternal 348-467).
AcceptedMounts ==
  \A j \in Jobs :
    done[j] /\ Provisions(j) /\ ClassTimeoutsFine(Asked(j))
    => DriverAccepts(Volume(Asked(j)), work[j].apiKey)

\* s3fs is started with every option that the claim, or else its storage class,
\* has asked for, through two decodings and the options of the volume between
\* them; switches and the kernel cache as SwitchesAsAsked has it (Provision
\* 753-804, mountInternal 330-467, 581-680).
MountsAsAsked ==
  \A j \in Jobs :
    done[j] /\ Provisions(j)
    => AsAsked(Asked(j), work[j].apiKey,
               S3fsArgs(Volume(Asked(j)), work[j].apiKey))

\* Job j is valid, and nothing else wants another bundle than it does.
Undisputed(j) ==
  /\ work[j].kind # "none" /\ info # "broken"
  /\ Provisions(j) => Valid(Asked(j))
  /\ \A k \in Jobs : Bundled(k) => Bundled(j) /\ ~ Conflict(j, k)

\* The queue will hand out j once more, whatever becomes of a running attempt.
AttemptLeft(j) == tries[j] = 0 \/ (call[j].pc = "idle" /\ ~ GivenUp(j))

\* When the provider is back after an outage, a claim with an attempt left is
\* provisioned, if nothing else fails from then on: those are included whose
\* thread was in the dial (564) all the while and comes out of it with an
\* expired context, for the next attempt has a context of its own; and the
\* process may have been stopped and started without its cluster-info (config.go
\* 130).
OutageLosesNobody ==
  \A j \in Jobs :
    socket /\ faults = MaxFaults /\ Undisputed(j) /\ AttemptLeft(j) ~> done[j]

\* An outage of the provider, however long, stops nobody who has no need of it:
\* if nothing else fails from then on, a volume is deleted, and a claim without
\* an access policy that has an attempt left is provisioned, as long as those
\* that wait in a dial leave a thread to the others.
OthersGoOn ==
  \A j \in Jobs :
    /\ faults = MaxFaults /\ Undisputed(j) /\ AttemptLeft(j)
    /\ ~ Dials(j)
    /\ Provisions(j) => Cardinality({k \in Jobs : Dials(k)}) < Threads
    ~> done[j]
=============================================================================
