--------------------------- MODULE ProcessProofs ---------------------------
(***************************************************************************)
(* Theorems about VolumeOptions and ProvisionerProcess, for every text,    *)
(* every number of jobs and threads, and every kind and number of faults.  *)
(***************************************************************************)
EXTENDS ProvisionerProcess, TLAPS

(* Options on their way to s3fs. *)

\* A claim that the provisioner accepts the driver accepts: each check of
\* mountInternal (330-467) has one of validateAnnotations before it, except
\* for the timeouts of the storage class.
THEOREM AcceptedClaimMounts ==
  ASSUME NEW r \in Request, NEW apiKey \in BOOLEAN,
         Valid(r), ClassTimeoutsFine(r)
  PROVE  DriverAccepts(Volume(r), apiKey)
<1> DEFINE v == Volume(r)
<1>1. ValidAfter(r)
  BY DEF Valid
<1>2. v.OSEndpoint \in Schemed
  BY <1>1 DEF ValidAfter, Volume
<1>3. /\ AtLeast(v.S3FSFUSERetryCount, 1)
      /\ AtLeast(v.StatCacheExpireSeconds, 0)
  BY <1>1 DEF ValidAfter, Volume
<1>4. \A text \in {v.ConnectTimeoutSeconds, v.ReadwriteTimeoutSeconds} :
        text = "" \/ IsNumber(text)
  <2>1. ASSUME NEW k \in {"ConnectTimeoutSeconds", "ReadwriteTimeoutSeconds"}
        PROVE  Resolved(r, k) = "" \/ IsNumber(Resolved(r, k))
    <3>1. r.pvc[k] = "" \/ IsNumber(r.pvc[k])
      BY <1>1 DEF ValidAfter
    <3>2. r.sc[k] = "" \/ IsNumber(r.sc[k])
      BY DEF ClassTimeoutsFine
    <3> QED
      BY <3>1, <3>2 DEF Resolved
  <2>2. /\ v.ConnectTimeoutSeconds = Resolved(r, "ConnectTimeoutSeconds")
        /\ v.ReadwriteTimeoutSeconds = Resolved(r, "ReadwriteTimeoutSeconds")
    BY DEF Volume
  <2>3. ASSUME NEW text \in {v.ConnectTimeoutSeconds, v.ReadwriteTimeoutSeconds}
        PROVE  text = "" \/ IsNumber(text)
    <3> HIDE DEF v
    <3>1. \E k \in {"ConnectTimeoutSeconds", "ReadwriteTimeoutSeconds"} :
             text = Resolved(r, k)
      BY <2>2
    <3> QED
      BY <2>1, <3>1
  <2> QED
    BY <2>3
<1>5. v.IAMEndpoint \in Schemed
  BY <1>1 DEF ValidAfter, Volume
<1> QED
  BY <1>2, <1>3, <1>4, <1>5 DEF DriverAccepts

\* What s3fs is told is what was asked for, in every option that a claim or its
\* class can give (Provision 753-804, mountInternal 330-467, 581-680).
THEOREM ArgsAsAsked ==
  ASSUME NEW r \in Request, NEW apiKey \in BOOLEAN
  PROVE  AsAsked(r, apiKey, S3fsArgs(Volume(r), apiKey))
<1> DEFINE args == S3fsArgs(Volume(r), apiKey)
           Fits(option) == Chosen(r, Texts[option], args[option], "")
<1>1. Fits("retries") /\ Fits("stat_cache_expire")
  BY DEF Texts, S3fsArgs, Volume, Resolved, Chosen
<1>2. Fits("connect_timeout") /\ Fits("readwrite_timeout")
  BY DEF Texts, S3fsArgs, Volume, Resolved, Chosen
<1>3. Fits("dbglevel") /\ Fits("params")
  BY DEF Texts, S3fsArgs, Volume, Resolved, Chosen
<1>4. \A option \in DOMAIN Texts : Fits(option)
  <2>1. DOMAIN Texts =
          {"retries", "stat_cache_expire", "connect_timeout",
           "readwrite_timeout", "dbglevel", "params"}
    BY DEF Texts
  <2> HIDE DEF Fits
  <2> QED
    BY <1>1, <1>2, <1>3, <2>1
<1>5. EndpointsAsAsked(r, apiKey, args)
  <2>1. /\ args.url = Endpoint(r)
        /\ args.endpoint = IF Resolved(r, "OSStorageClass") # ""
                             THEN Resolved(r, "OSStorageClass")
                             ELSE "dummy-object-store-storageclass"
        /\ args.ibm_iam_auth = apiKey
    BY DEF S3fsArgs, Volume
  <2>2. /\ ~ apiKey => args.ibm_iam_endpoint = ""
        /\ apiKey => args.ibm_iam_endpoint =
                       IF Resolved(r, "IAMEndpoint") = ""
                         THEN "https://iam.cloud.ibm.com"
                         ELSE Resolved(r, "IAMEndpoint")
    BY DEF S3fsArgs, Volume
  <2> HIDE DEF args
  <2> QED
    BY <2>1, <2>2 DEF EndpointsAsAsked, Chosen, Endpoint, Resolved
<1>6. CountsAsAsked(r, args)
  <2> DEFINE text == Resolved(r, "ChunkSizeMB")
  <2>1. r.pvc["ChunkSizeMB"] \in Text /\ r.sc["ChunkSizeMB"] \in Text
    BY DEF Request, Options
  <2>2. text \in Text /\ Chosen(r, "ChunkSizeMB", text, "")
    BY <2>1 DEF Resolved, Chosen
  <2>3. args.multipart_size = IF text = "" THEN 0 ELSE Atoi[text]
    BY DEF S3fsArgs, Volume
  <2> HIDE DEF text, args
  <2> QED
    BY <2>2, <2>3 DEF CountsAsAsked
<1>7. SuiteAsAsked(r, args)
  <2> DEFINE own == TrimSpace[r.pvc["TLSCipherSuite"]]
             suite == IF own # "" THEN own ELSE r.sc["TLSCipherSuite"]
  <2>1. args.cipher_suites =
          IF TrimSpace[suite] = "" \/ suite = "default" THEN "" ELSE suite
    BY DEF S3fsArgs, Volume
  <2>2. TrimSpace[own] = own
    <3>1. r.pvc["TLSCipherSuite"] \in Text
      BY DEF Request, Options
    <3> QED
      BY <3>1, TextAssumption
  <2> HIDE DEF args
  <2> QED
    BY <2>1, <2>2 DEF SuiteAsAsked
<1>8. SwitchesAsAsked(r, args)
  <2>1. /\ args.use_xattr = SwitchedOn(r, "UseXattr")
        /\ args.curldbg = SwitchedOn(r, "CurlDebug")
        /\ args.auto_cache = (r.pvc["Cache"] = "true")
        /\ args.kernel_cache = (r.sc["Cache"] = "true" /\ r.pvc["Cache"] # "true")
    BY DEF S3fsArgs, Volume
  <2>2. \A k \in Options : SwitchedOn(r, k)
                           = (r.pvc[k] = "true" \/ r.sc[k] = "true")
    BY DEF SwitchedOn
  <2>3. "UseXattr" \in Options /\ "CurlDebug" \in Options
    BY DEF Options, Switches
  <2> HIDE DEF args
  <2> QED
    BY <2>1, <2>2, <2>3, Zenon DEF SwitchesAsAsked
<1>9. args.ro = (r.AccessMode = "ReadOnlyMany")
  BY DEF S3fsArgs, Volume
<1> QED
  BY <1>4, <1>5, <1>6, <1>7, <1>8, <1>9 DEF AsAsked
-----------------------------------------------------------------------------
(* The process. *)

Connected == {"dial", "ask", "finish"}

\* What a call c that works on job j has been through, if f and env are the
\* files and the environment.  The last conjunct follows its bundle from the
\* file to the session.
CallOK(j, c, f, env) ==
  /\ c.pc \in {"open", "write", "setenv"} => Bundled(j)
  /\ Provisions(j) /\ c.pc # "idle" => ValidBefore(Asked(j))
  /\ Provisions(j) /\ c.pc \in Connected => ValidAfter(Asked(j))
  /\ Bundled(j) /\ c.own
     => /\ c.pc \in {"write", "setenv", "session"}
           => f[ServiceName(j)] \subseteq {work[j].bundle}
        /\ c.pc = "session" => env = ServiceName(j)
        /\ c.pc \in Connected => c.trust = {work[j].bundle}

CallsOK(calls, f, env) == \A j \in Jobs : CallOK(j, calls[j], f, env)

DoneOK(d) == \A j \in Jobs : d[j] /\ Provisions(j) => Valid(Asked(j))

ProcessInv == TypeOK /\ CallsOK(call, file, bundleEnv) /\ DoneOK(done)

\* Types of a job and of what it names.
LEMMA JobTypes ==
  ASSUME TypeOK, NEW j \in Jobs
  PROVE  /\ work[j] \in Job /\ Asked(j) \in Request
         /\ ServiceName(j) \in Services
         /\ Bundled(j) => work[j].bundle \in Bundles
         /\ call[j] \in Call
<1>1. work[j] \in Job /\ call[j] \in Call
  BY DEF TypeOK
<1>2. Asked(j) \in Request
  BY <1>1 DEF Job, Asked
<1>3. ServiceName(j) \in Services
  <2>1. Asked(j).CosServiceName \in Text
    BY <1>2 DEF Request
  <2>2. "standard-cos" \in Text /\ "standard-cos" # ""
    BY TextAssumption
  <2> QED
    BY <2>1, <2>2 DEF ServiceName, Services
<1>4. Bundled(j) => work[j].bundle \in Bundles
  BY <1>1 DEF Job, Bundled
<1> QED
  BY <1>1, <1>2, <1>3, <1>4

\* A call that does nothing is in order.
LEMMA IdleOK ==
  ASSUME NEW j \in Jobs, NEW f, NEW env
  PROVE  Idle \in Call /\ CallOK(j, Idle, f, env)
BY DEF Idle, Call, CallOK, Connected

\* The invariant after a step that leaves the jobs what they are.
LEMMA InvAfter ==
  ASSUME UNCHANGED given, TypeOK', CallsOK(call', file', bundleEnv'),
         DoneOK(done')
  PROVE  ProcessInv'
<1>1. /\ \A j \in Jobs : Bundled(j)' = Bundled(j)
      /\ \A j \in Jobs : Provisions(j)' = Provisions(j)
      /\ \A j \in Jobs : Asked(j)' = Asked(j)
      /\ \A j \in Jobs : ServiceName(j)' = ServiceName(j)
      /\ work' = work
  BY DEF given, Bundled, Provisions, Asked, ServiceName
<1>2. CallsOK(call, file, bundleEnv)'
  BY <1>1 DEF CallsOK, CallOK
<1>3. DoneOK(done)'
  BY <1>1 DEF DoneOK
<1> QED
  BY <1>2, <1>3 DEF ProcessInv

\* A step of call j alone, which leaves the files and the environment.
LEMMA CallMoves ==
  ASSUME ProcessInv, NEW j \in Jobs, NEW c \in Call,
         CallOK(j, c, file, bundleEnv),
         call' = [call EXCEPT ![j] = c],
         UNCHANGED <<given, shared, socket>>, faults' \in 0..MaxFaults,
         done' \in [Jobs -> BOOLEAN], DoneOK(done'), tries' \in [Jobs -> Nat]
  PROVE  ProcessInv'
<1>1. call' \in [Jobs -> Call]
  BY DEF ProcessInv, TypeOK
<1>2. TypeOK'
  BY <1>1 DEF ProcessInv, TypeOK, given, shared, Services
<1>3. CallsOK(call', file', bundleEnv')
  <2> SUFFICES ASSUME NEW k \in Jobs
               PROVE  CallOK(k, call'[k], file, bundleEnv)
    BY DEF CallsOK, shared
  <2>1. CASE k = j
    <3>1. call'[k] = c
      BY <2>1 DEF ProcessInv, TypeOK
    <3> QED
      BY <2>1, <3>1
  <2>2. CASE k # j
    <3>1. call'[k] = call[k]
      BY <2>2 DEF ProcessInv, TypeOK
    <3> QED
      BY <3>1 DEF ProcessInv, CallsOK
  <2> QED
    BY <2>1, <2>2
<1>4. UNCHANGED given
  OBVIOUS
<1> QED
  BY <1>2, <1>3, <1>4, InvAfter

\* A call that ends.
LEMMA CallEnds ==
  ASSUME ProcessInv, NEW j \in Jobs, Ends(j),
         UNCHANGED <<given, shared, socket>>, faults' \in 0..MaxFaults,
         done' \in [Jobs -> BOOLEAN], DoneOK(done'), tries' \in [Jobs -> Nat]
  PROVE  ProcessInv'
BY IdleOK, CallMoves DEF Ends

\* A failure is counted by a number.
LEMMA FailsTyped ==
  ASSUME ProcessInv, NEW j \in Jobs, Fails(j)
  PROVE  tries' \in [Jobs -> Nat]
BY DEF Fails, ProcessInv, TypeOK

\* The process stops, and with it every call.
LEMMA StopInv ==
  ASSUME ProcessInv, Stopped, faults' \in 0..MaxFaults
  PROVE  ProcessInv'
<1>1. \A j \in Jobs : call'[j] = Idle
  BY DEF Stopped
<1>2. CallsOK(call', file', bundleEnv')
  BY <1>1, IdleOK DEF CallsOK
<1>3. call' \in [Jobs -> Call]
  BY IdleOK DEF Stopped
<1>4. TypeOK'
  BY <1>3 DEF ProcessInv, TypeOK, Stopped, given
<1>5. UNCHANGED given /\ DoneOK(done')
  BY DEF Stopped, ProcessInv
<1> QED
  BY <1>2, <1>4, <1>5, InvAfter

\* A fault is counted within its bound.
LEMMA FaultBound ==
  ASSUME ProcessInv, NEW kind
  PROVE  Fault(kind) => faults' \in 0..MaxFaults
<1>1. faults \in 0..MaxFaults
  BY DEF ProcessInv, TypeOK
<1>2. MaxFaults \in Nat
  BY ThreadsAssumption
<1>3. Fault(kind) => faults < MaxFaults /\ faults' = faults + 1
  BY DEF Fault
<1> QED
  BY <1>1, <1>2, <1>3

\* What a step of job j on what is shared leaves to a call it has no conflict
\* with, and takes from the others.
LEMMA TouchesOK ==
  ASSUME ProcessInv, NEW j \in Jobs, Bundled(j),
         NEW pc \in {"write", "setenv", "session"}, Touches(j, pc),
         UNCHANGED given,
         file' \in [Services -> SUBSET Bundles],
         \A s \in Services : s # ServiceName(j) => file'[s] = file[s],
         file[ServiceName(j)] \subseteq {work[j].bundle}
           => file'[ServiceName(j)] \subseteq {work[j].bundle},
         bundleEnv' \in {bundleEnv, ServiceName(j)},
         CallOK(j, [call[j] EXCEPT !.pc = pc], file', bundleEnv')
  PROVE  call' \in [Jobs -> Call] /\ CallsOK(call', file', bundleEnv')
<1>1. call' \in [Jobs -> Call]
  <2>1. ASSUME NEW k \in Jobs
        PROVE  /\ [call[k] EXCEPT !.pc = pc] \in Call
               /\ [call[k] EXCEPT !.own = FALSE] \in Call
               /\ call[k] \in Call
    <3>1. call[k] \in Call
      BY DEF ProcessInv, TypeOK
    <3> QED
      BY <3>1 DEF Call
  <2> QED
    BY <2>1 DEF Touches
<1>2. ASSUME NEW k \in Jobs
      PROVE  CallOK(k, call'[k], file', bundleEnv')
  <2>1. CASE k = j
    BY <2>1 DEF Touches
  <2>2. CASE k # j /\ Conflict(j, k) /\ call[k].pc \in Preparing
    <3>1. call'[k] = [call[k] EXCEPT !.own = FALSE]
      BY <2>2 DEF Touches
    <3>2. call[k] \in Call /\ CallOK(k, call[k], file, bundleEnv)
      BY DEF ProcessInv, TypeOK, CallsOK
    <3>3. call'[k].own = FALSE /\ call'[k].pc = call[k].pc
      BY <3>1, <3>2 DEF Call
    <3> QED
      BY <3>2, <3>3 DEF CallOK
  <2>3. CASE k # j /\ ~ (Conflict(j, k) /\ call[k].pc \in Preparing)
    <3>1. call'[k] = call[k]
      BY <2>3 DEF Touches
    <3>2. CallOK(k, call[k], file, bundleEnv)
      BY DEF ProcessInv, CallsOK
    <3>3. CASE call[k].pc \notin Preparing
      BY <3>1, <3>2, <3>3 DEF CallOK, Preparing
    <3>4. CASE ~ Bundled(k)
      BY <3>1, <3>2, <3>4 DEF CallOK
    <3>5. CASE Bundled(k) /\ ~ Conflict(j, k)
      <4>1. ServiceName(k) = ServiceName(j) /\ work[k].bundle = work[j].bundle
        BY <3>5 DEF Conflict
      <4> QED
        BY <3>1, <3>2, <4>1 DEF CallOK
    <3> QED
      BY <2>3, <3>3, <3>4, <3>5
  <2> QED
    BY <2>1, <2>2, <2>3
<1> QED
  BY <1>1, <1>2 DEF CallsOK

\* The three steps that bring a bundle into the environment.
LEMMA BundleInv ==
  ASSUME ProcessInv, NEW j \in Jobs,
         OpenBundle(j) \/ WriteBundle(j) \/ SetBundleEnv(j)
  PROVE  ProcessInv'
<1> DEFINE s == ServiceName(j)
           b == work[j].bundle
           c == call[j]
<1>1. /\ CallOK(j, c, file, bundleEnv) /\ c \in Call
      /\ c.pc \in {"open", "write", "setenv"}
      /\ file \in [Services -> SUBSET Bundles]
  BY DEF ProcessInv, CallsOK, TypeOK, OpenBundle, WriteBundle, SetBundleEnv
<1>2. Bundled(j) /\ s \in Services /\ b \in Bundles
  <2>1. Bundled(j)
    BY <1>1 DEF CallOK
  <2> QED
    BY <2>1, JobTypes DEF ProcessInv
<1>3. UNCHANGED <<given, up, socket, queue, faults>>
  BY DEF OpenBundle, WriteBundle, SetBundleEnv
<1>4. SUFFICES /\ file' \in [Services -> SUBSET Bundles]
               /\ bundleEnv' \in Services \cup {"unset"}
               /\ call' \in [Jobs -> Call]
               /\ CallsOK(call', file', bundleEnv')
  <2>1. TypeOK'
    BY <1>3, <1>4 DEF ProcessInv, TypeOK, given, queue, Services
  <2>2. DoneOK(done') /\ UNCHANGED given
    BY <1>3 DEF ProcessInv, queue
  <2> QED
    BY <1>4, <2>1, <2>2, InvAfter
<1>5. CASE OpenBundle(j)
  <2>1. /\ file' = [file EXCEPT ![s] = {}] /\ bundleEnv' = bundleEnv
        /\ Touches(j, "write")
    BY <1>5 DEF OpenBundle
  <2>2. /\ file' \in [Services -> SUBSET Bundles] /\ file'[s] = {}
        /\ \A t \in Services : t # s => file'[t] = file[t]
    BY <1>1, <1>2, <2>1
  <2>3. CallOK(j, [c EXCEPT !.pc = "write"], file', bundleEnv')
    BY <1>1, <1>2, <2>2 DEF CallOK, Call, Connected
  <2>4. call' \in [Jobs -> Call] /\ CallsOK(call', file', bundleEnv')
    BY <1>2, <1>3, <2>1, <2>2, <2>3, TouchesOK
  <2> QED
    BY <2>1, <2>2, <2>4 DEF ProcessInv, TypeOK
<1>6. CASE WriteBundle(j)
  <2>1. PICK rest \in {{}, file[s]} : file' = [file EXCEPT ![s] = rest \cup {b}]
    BY <1>6 DEF WriteBundle
  <2>2. bundleEnv' = bundleEnv /\ Touches(j, "setenv") /\ c.pc = "write"
    BY <1>6 DEF WriteBundle
  <2>3. /\ file' \in [Services -> SUBSET Bundles] /\ file'[s] = rest \cup {b}
        /\ \A t \in Services : t # s => file'[t] = file[t]
    BY <1>1, <1>2, <2>1
  <2>4. file[s] \subseteq {b} => file'[s] \subseteq {b}
    BY <2>1, <2>3
  <2>5. CallOK(j, [c EXCEPT !.pc = "setenv"], file', bundleEnv')
    BY <1>1, <1>2, <2>2, <2>4 DEF CallOK, Call, Connected
  <2>6. call' \in [Jobs -> Call] /\ CallsOK(call', file', bundleEnv')
    BY <1>2, <1>3, <2>2, <2>3, <2>4, <2>5, TouchesOK
  <2> QED
    BY <2>2, <2>3, <2>6 DEF ProcessInv, TypeOK
<1>7. CASE SetBundleEnv(j)
  <2>1. /\ file' = file /\ bundleEnv' = s
        /\ Touches(j, "session") /\ c.pc = "setenv"
    BY <1>7 DEF SetBundleEnv, BundlePath
  <2>2. CallOK(j, [c EXCEPT !.pc = "session"], file', bundleEnv')
    BY <1>1, <1>2, <2>1 DEF CallOK, Call, Connected
  <2>3. call' \in [Jobs -> Call] /\ CallsOK(call', file', bundleEnv')
    BY <1>1, <1>2, <1>3, <2>1, <2>2, TouchesOK
  <2> QED
    BY <1>1, <1>2, <2>1, <2>3
<1> QED
  BY <1>5, <1>6, <1>7
\* A session is made from the certificates the environment points to.
LEMMA SessionInv ==
  ASSUME ProcessInv, NEW j \in Jobs, NewSession(j)
  PROVE  ProcessInv'
<1> DEFINE c == call[j]
           pc == IF Dials(j) THEN "dial" ELSE "finish"
           d == [c EXCEPT !.trust = Trusted, !.pc = pc]
<1>1. /\ c.pc = "session" /\ Trusted # {}
      /\ Provisions(j) => ValidAfter(Asked(j))
      /\ UNCHANGED <<given, shared, socket, queue, faults>>
  BY DEF NewSession, ReadsBundle
<1>2. c \in Call /\ CallOK(j, c, file, bundleEnv)
  BY DEF ProcessInv, TypeOK, CallsOK
<1>3. Trusted \in SUBSET (Bundles \cup {System})
  <2>1. /\ bundleEnv \in Services \cup {"unset"}
        /\ file \in [Services -> SUBSET Bundles]
    BY DEF ProcessInv, TypeOK
  <2> QED
    BY <2>1 DEF Trusted
<1>4. d \in Call
  BY <1>2, <1>3 DEF Call
<1>5. call' = [call EXCEPT ![j] = d]
  BY <1>2 DEF NewSession, ProcessInv, TypeOK
<1>6. Bundled(j) /\ c.own => Trusted = {work[j].bundle}
  <2> SUFFICES ASSUME Bundled(j), c.own
               PROVE  Trusted = {work[j].bundle}
    OBVIOUS
  <2>1. /\ bundleEnv = ServiceName(j)
        /\ file[ServiceName(j)] \subseteq {work[j].bundle}
    BY <1>1, <1>2 DEF CallOK
  <2>2. ServiceName(j) # "unset"
    <3>1. ServiceName(j) \in Services
      BY JobTypes DEF ProcessInv
    <3> QED
      BY <3>1, BundlesAssumption DEF Services
  <2>3. Trusted = file[ServiceName(j)]
    BY <2>1, <2>2 DEF Trusted
  <2> QED
    BY <1>1, <2>1, <2>3
<1>7. CallOK(j, d, file, bundleEnv)
  <2>1. d.trust = Trusted /\ d.own = c.own /\ d.pc \in {"dial", "finish"}
    BY <1>2 DEF Call
  <2> HIDE DEF d
  <2> QED
    BY <1>1, <1>2, <1>6, <2>1 DEF CallOK, Connected
<1>8. /\ faults' \in 0..MaxFaults /\ tries' \in [Jobs -> Nat]
      /\ done' \in [Jobs -> BOOLEAN] /\ DoneOK(done')
  BY <1>1 DEF ProcessInv, TypeOK, queue
<1> HIDE DEF d
<1> QED
  BY <1>1, <1>4, <1>5, <1>7, <1>8, CallMoves

\* Job j is taken.
LEMMA TakeInv ==
  ASSUME ProcessInv, NEW j \in Jobs, Take(j)
  PROVE  ProcessInv'
<1> DEFINE d == [call[j] EXCEPT !.pc = IF Bundled(j) THEN "open" ELSE "session"]
<1>1. /\ UNCHANGED <<given, shared, socket, queue, faults>>
      /\ Provisions(j) => ValidBefore(Asked(j))
      /\ Goes(j, IF Bundled(j) THEN "open" ELSE "session")
  BY DEF Take
<1>2. call[j] \in Call
  BY DEF ProcessInv, TypeOK
<1>3. /\ d \in Call
      /\ d.pc = IF Bundled(j) THEN "open" ELSE "session"
  BY <1>2 DEF Call
<1>4. CallOK(j, d, file, bundleEnv)
  BY <1>1, <1>3 DEF CallOK, Connected
<1>5. call' = [call EXCEPT ![j] = d]
  BY <1>1 DEF Goes
<1>6. /\ faults' \in 0..MaxFaults /\ tries' \in [Jobs -> Nat]
      /\ done' \in [Jobs -> BOOLEAN] /\ DoneOK(done')
  BY <1>1 DEF ProcessInv, TypeOK, queue
<1> HIDE DEF d
<1> QED
  BY <1>1, <1>3, <1>4, <1>5, <1>6, CallMoves

\* Waiting for the provider and asking it.
LEMMA ProviderInv ==
  ASSUME ProcessInv, NEW j \in Jobs, Dial(j) \/ Expire(j) \/ Ask(j)
  PROVE  ProcessInv'
<1> DEFINE c == call[j]
<1>1. /\ UNCHANGED <<given, shared, socket, done, faults>>
      /\ c.pc \in {"dial", "ask"}
  BY DEF Dial, Expire, Ask, Fails, queue
<1>2. c \in Call /\ CallOK(j, c, file, bundleEnv)
  BY DEF ProcessInv, TypeOK, CallsOK
<1>3. faults' \in 0..MaxFaults /\ done' \in [Jobs -> BOOLEAN] /\ DoneOK(done')
  BY <1>1 DEF ProcessInv, TypeOK
<1>4. CASE Ask(j) /\ ~ Answered(j)
  <2>1. Ends(j) /\ tries' \in [Jobs -> Nat]
    BY <1>4, FailsTyped DEF Ask, Fails
  <2> QED
    BY <1>1, <1>3, <2>1, CallEnds
<1>5. CASE ~ (Ask(j) /\ ~ Answered(j))
  <2>1. PICK d \in {[c EXCEPT !.pc = "ask"], [c EXCEPT !.pc = "finish"],
                    [c EXCEPT !.late = TRUE]} :
          call' = [call EXCEPT ![j] = d]
    BY <1>5 DEF Dial, Expire, Ask, Goes
  <2>4. tries' \in [Jobs -> Nat]
    BY <1>5 DEF Dial, Expire, Ask, queue, ProcessInv, TypeOK
  <2>2. d \in Call /\ d.pc \in Connected /\ d.trust = c.trust /\ d.own = c.own
    BY <1>1, <1>2 DEF Call, Connected
  <2>3. CallOK(j, d, file, bundleEnv)
    BY <1>1, <1>2, <2>2 DEF CallOK, Connected
  <2> QED
    BY <1>1, <1>3, <2>1, <2>2, <2>3, <2>4, CallMoves
<1> QED
  BY <1>4, <1>5

\* Calls that end: refused, failed, or through.
LEMMA EndInv ==
  ASSUME ProcessInv, NEW j \in Jobs, Reject(j) \/ Fail(j) \/ Finish(j)
  PROVE  ProcessInv'
<1>1. Ends(j) /\ UNCHANGED <<given, shared, socket>>
  BY DEF Reject, Fail, Finish, Fails
<1>2. faults' \in 0..MaxFaults
  <2>1. faults' = faults \/ Fault("call")
    BY DEF Reject, Fail, Finish
  <2> QED
    BY <2>1, FaultBound DEF ProcessInv, TypeOK
<1>3. done' \in [Jobs -> BOOLEAN] /\ DoneOK(done')
  <2>1. CASE done' = done
    BY <2>1 DEF ProcessInv, TypeOK
  <2>2. CASE Finish(j)
    <3>1. /\ done' \in {done, [done EXCEPT ![j] = TRUE]}
          /\ call[j].pc = "finish"
      BY <2>2 DEF Finish, Fails
    <3>2. Provisions(j) => Valid(Asked(j))
      <4>1. CallOK(j, call[j], file, bundleEnv)
        BY DEF ProcessInv, CallsOK
      <4> QED
        BY <3>1, <4>1 DEF CallOK, Connected, Valid
    <3>3. done \in [Jobs -> BOOLEAN] /\ DoneOK(done)
      BY DEF ProcessInv, TypeOK
    <3>4. \A k \in Jobs : k # j => done'[k] = done[k]
      BY <3>1, <3>3
    <3> QED
      BY <3>1, <3>2, <3>3, <3>4 DEF DoneOK
  <2> QED
    BY <2>1, <2>2 DEF Reject, Fail, Fails
<1>4. tries' \in [Jobs -> Nat]
  <2>1. CASE Fails(j)
    BY <2>1, FailsTyped
  <2>2. CASE tries' = [tries EXCEPT ![j] = 0]
    BY <2>2 DEF ProcessInv, TypeOK
  <2> QED
    BY <2>1, <2>2 DEF Reject, Fail, Finish
<1> QED
  BY <1>1, <1>2, <1>3, <1>4, CallEnds

\* The process comes up, and the provider goes and comes.
LEMMA OutsideInv ==
  ASSUME ProcessInv, Start \/ SocketDown \/ SocketUp
  PROVE  ProcessInv'
<1>1. UNCHANGED <<given, bundleEnv, file, call, done, tries>>
  BY DEF Start, SocketDown, SocketUp, shared, queue
<1>2. up' \in BOOLEAN
  BY DEF Start, SocketDown, SocketUp, shared, ProcessInv, TypeOK
<1>3. faults' \in 0..MaxFaults
  <2>1. faults' = faults \/ Fault("info") \/ Fault("socket")
    BY DEF Start, SocketDown, SocketUp
  <2> QED
    BY <2>1, FaultBound DEF ProcessInv, TypeOK
<1>4. socket' \in BOOLEAN
  BY DEF Start, SocketDown, SocketUp, ProcessInv, TypeOK
<1>5. TypeOK'
  BY <1>1, <1>2, <1>3, <1>4 DEF ProcessInv, TypeOK, given, Services
<1>6. CallsOK(call', file', bundleEnv') /\ DoneOK(done') /\ UNCHANGED given
  BY <1>1 DEF ProcessInv
<1> QED
  BY <1>5, <1>6, InvAfter

LEMMA ProcessInit == Init => ProcessInv
<1> SUFFICES ASSUME Init PROVE ProcessInv
  OBVIOUS
<1>1. work \in [Jobs -> Job] /\ info \in ClusterInfo
  BY WorldsAssumption DEF Init
<1>2. \A j \in Jobs : call[j] = Idle
  BY DEF Init
<1>3. CallsOK(call, file, bundleEnv)
  BY <1>2, IdleOK DEF CallsOK
<1>4. call \in [Jobs -> Call]
  BY IdleOK DEF Init
<1>5. faults \in 0..MaxFaults
  BY DEF Init
<1>6. /\ up = FALSE /\ bundleEnv = "unset" /\ socket \in BOOLEAN
      /\ file \in [Services -> SUBSET Bundles]
      /\ done \in [Jobs -> BOOLEAN] /\ DoneOK(done)
      /\ tries \in [Jobs -> Nat]
  BY DEF Init, DoneOK
<1> QED
  BY <1>1, <1>3, <1>4, <1>5, <1>6 DEF ProcessInv, TypeOK

LEMMA ProcessNext ==
  ASSUME ProcessInv, [Next]_vars
  PROVE  ProcessInv'
<1>1. CASE Start \/ SocketDown \/ SocketUp
  BY <1>1, OutsideInv
<1>2. CASE Crash
  BY <1>2, StopInv, FaultBound DEF Crash
<1>3. ASSUME NEW j \in Jobs, Take(j)
      PROVE  ProcessInv'
  BY <1>3, TakeInv
<1>4. ASSUME NEW j \in Jobs, Step(j)
      PROVE  ProcessInv'
  <2>1. CASE OpenBundle(j) \/ WriteBundle(j) \/ SetBundleEnv(j)
    BY <2>1, BundleInv
  <2>2. CASE NewSession(j)
    BY <2>2, SessionInv
  <2>3. CASE Panic(j)
    <3>1. Stopped /\ (Fault("collision") \/ faults' = faults)
      BY <2>3 DEF Panic
    <3>2. faults' \in 0..MaxFaults
      BY <3>1, FaultBound DEF ProcessInv, TypeOK
    <3> QED
      BY <3>1, <3>2, StopInv
  <2>4. CASE Dial(j) \/ Expire(j) \/ Ask(j)
    BY <2>4, ProviderInv
  <2>5. CASE Reject(j) \/ Fail(j) \/ Finish(j)
    BY <2>5, EndInv
  <2> QED
    BY <1>4, <2>1, <2>2, <2>3, <2>4, <2>5 DEF Step
<1>5. CASE UNCHANGED vars
  <2>1. /\ UNCHANGED <<given, up, bundleEnv, file, socket, call, queue>>
        /\ UNCHANGED <<work, info, faults>>
    BY <1>5 DEF vars, given, queue
  <2>2. TypeOK'
    BY <2>1 DEF ProcessInv, TypeOK, Services, queue
  <2>3. CallsOK(call', file', bundleEnv') /\ DoneOK(done')
    BY <2>1 DEF ProcessInv, queue
  <2> QED
    BY <2>1, <2>2, <2>3, InvAfter
<1> QED
  BY <1>1, <1>2, <1>3, <1>4, <1>5 DEF Next

LEMMA ProcessAlways == Spec => []ProcessInv
BY ProcessInit, ProcessNext, PTL DEF Spec

\* Every state of the process has its type (config.go 120-162,
\* writeCrtFile 155-176).
THEOREM ProcessTypeCorrect == Spec => []TypeOK
<1>1. ProcessInv => TypeOK
  BY DEF ProcessInv
<1> QED
  BY <1>1, ProcessAlways, PTL

\* A call that nothing else disturbs trusts the bundle of its own secret,
\* whatever was left by others (writeCrtFile 155-176).
THEOREM BundleTrusted == Spec => []OwnBundleTrusted
<1>1. ProcessInv => OwnBundleTrusted
  BY DEF ProcessInv, CallsOK, CallOK, OwnBundleTrusted, Connected
<1> QED
  BY <1>1, ProcessAlways, PTL

\* A provisioned claim has options that the driver accepts (validateAnnotations
\* 228-456, mountInternal 330-467).
THEOREM ProvisionedMounts == Spec => []AcceptedMounts
<1>1. ProcessInv => AcceptedMounts
  <2> SUFFICES ASSUME ProcessInv, NEW j \in Jobs, done[j], Provisions(j),
                      ClassTimeoutsFine(Asked(j))
               PROVE  DriverAccepts(Volume(Asked(j)), work[j].apiKey)
    BY DEF AcceptedMounts
  <2>1. Valid(Asked(j))
    BY DEF ProcessInv, DoneOK
  <2>2. Asked(j) \in Request /\ work[j].apiKey \in BOOLEAN
    BY JobTypes DEF ProcessInv, Job
  <2> QED
    BY <2>1, <2>2, AcceptedClaimMounts
<1> QED
  BY <1>1, ProcessAlways, PTL

\* A provisioned claim is mounted with what it and its class have asked for, in
\* every option (Provision 753-804, mountInternal 330-467, 581-680).
THEOREM ProvisionedAsAsked == Spec => []MountsAsAsked
<1>1. ProcessInv => MountsAsAsked
  <2> SUFFICES ASSUME ProcessInv, NEW j \in Jobs
               PROVE  AsAsked(Asked(j), work[j].apiKey,
                              S3fsArgs(Volume(Asked(j)), work[j].apiKey))
    BY DEF MountsAsAsked
  <2>1. Asked(j) \in Request /\ work[j].apiKey \in BOOLEAN
    BY JobTypes DEF ProcessInv, Job
  <2> QED
    BY <2>1, ArgsAsAsked
<1> QED
  BY <1>1, ProcessAlways, PTL
=============================================================================
