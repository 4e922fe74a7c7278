--------------------------- MODULE InitJobsProofs ---------------------------
(***************************************************************************)
(* Proofs about InitJobs, for any number of kills, syncs, certificates and *)
(* roles.  What holds at a statement of a script is tied to the statement; *)
(* what a killed pod leaves is tied to nothing but the services.           *)
(***************************************************************************)
EXTENDS InitJobs, FiniteSetTheorems, TLAPS

-----------------------------------------------------------------------------
(* The type invariant.                                                     *)

Lines == {"none", "exit", "wait", "status", "update", "apply", "healthy", "bucket",
          "key", "allow", "secret", "catalog", "role", "grant", "assign",
          "namespace", "check", "deleteCert", "deleteKey", "createCert", "markCert",
          "createKey", "markKey", "login", "ready", "dataset", "chart", "board", "link"}

PodTypes ==
  /\ job \in [Job -> {"absent", "pending", "running", "complete", "failed"}]
  /\ at \in [Job -> Lines]
  /\ failures \in [Job -> Nat]
  /\ tries \in [Job -> 0..(Polls - 1)]
  /\ kills \in 0..MaxKills /\ syncs \in 0..MaxSyncs

GarageTypes ==
  /\ garage \in [up : BOOLEAN, version : Nat, staged : BOOLEAN, roles : BOOLEAN,
                 healthy : BOOLEAN, bucket : BOOLEAN, keys : SUBSET Nat, allowed : SUBSET Nat]
  /\ layoutVersion \in Nat /\ key \in Nat /\ secret \in Nat

PolarisTypes ==
  /\ polaris \in [up : BOOLEAN, catalog : Nat, roles : SUBSET (1..Roles),
                  granted : SUBSET (1..Roles), assigned : SUBSET (1..Roles),
                  namespace : BOOLEAN]
  /\ s3Key \in Nat /\ role \in 1..Roles

KafkaTypes ==
  /\ kafka \in [cert : Nat, key : Nat, certMarked : BOOLEAN, keyMarked : BOOLEAN]
  /\ source \in Nat

LEMMA TypeParts == TypeOK <=> PodTypes /\ GarageTypes /\ PolarisTypes /\ KafkaTypes
BY DEF TypeOK, PodTypes, GarageTypes, PolarisTypes, KafkaTypes, Lines

LEMMA InitTypes == Init => TypeOK
<1> SUFFICES ASSUME Init PROVE TypeOK
  OBVIOUS
<1>1. PodTypes
  BY JobsAssumption DEF Init, InitOfJobs, PodTypes, Lines
<1>2. GarageTypes
  BY DEF Init, GarageTypes
<1>3. PolarisTypes
  BY InitJobsAssumption DEF Init, PolarisTypes
<1>4. KafkaTypes
  <2>1. PICK ca \in 0..1 : kafka = [cert |-> ca, key |-> ca, certMarked |-> ca = 1,
                                   keyMarked |-> ca = 1]
    BY DEF Init
  <2> QED
    BY <2>1 DEF Init, KafkaTypes
<1> QED
  BY <1>1, <1>2, <1>3, <1>4, TypeParts

\* What the scripts share: a statement done, a poll, a failure.
LEMMA PodPieces ==
  ASSUME PodTypes, NEW j \in Job, NEW from, NEW to \in Lines, NEW ok,
         Advance(j, from, to) \/ Poll(j, from, ok, to)
           \/ (PodFails(j) /\ UNCHANGED <<tries, kills>>)
  PROVE  PodTypes'
<1>1. CASE Advance(j, from, to)
  BY <1>1 DEF Advance, Goto, jobVars, PodTypes
<1>2. ASSUME PodFails(j) PROVE /\ job' \in [Job -> {"absent", "pending", "running", "complete", "failed"}]
                               /\ at' \in [Job -> Lines]
                               /\ failures' \in [Job -> Nat]
                               /\ UNCHANGED syncs
  BY <1>2 DEF PodFails, PodTypes, Lines
<1>3. CASE Poll(j, from, ok, to)
  <2>1. tries' \in [Job -> 0..(Polls - 1)]
    BY <1>3, JobsAssumption DEF Poll, PodTypes
  <2> QED
    BY <1>2, <1>3, <2>1 DEF Poll, Goto, jobVars, PodTypes
<1>4. CASE PodFails(j) /\ UNCHANGED <<tries, kills>>
  BY <1>2, <1>4 DEF PodTypes
<1> QED
  BY <1>1, <1>3, <1>4

\* The import of the resources of Superset, and Superset: the other scripts stay where they are.
LEMMA ImportSteps ==
  ASSUME PodTypes, ImportResources \/ Superset
  PROVE  /\ PodTypes'
         /\ \A j \in Job : j # S => at'[j] = at[j] /\ job'[j] = job[j]
<1>0. S \in Job
  BY DEF S, Job
<1>1. CASE ImportResources
  <2>1. \E from, ok : \E to \in Lines :
          \/ Advance(S, from, to) \/ Poll(S, from, ok, to)
          \/ PodFails(S) /\ UNCHANGED <<tries, kills>>
    BY <1>1 DEF ImportResources, Login, WaitForSuperset, SupersetGone, SkipDataset,
       EnsureDataset, DatasetRefused, NextChart, UpdateChart, CreateChart, ChartRefused,
       EnsureDashboard, LinkChart, Lines
  <2>2. PodTypes'
    BY <1>0, <2>1, PodPieces
  <2>3. \A j \in Job : j # S => at'[j] = at[j] /\ job'[j] = job[j]
    BY <1>0, <2>1 DEF Advance, Poll, PodFails, Goto, jobVars, PodTypes
  <2> QED
    BY <2>2, <2>3
<1>2. CASE Superset
  <2>1. CASE SupersetUp \/ ImportDatabase \/ SupersetDown \/ Edit
    <3>1. UNCHANGED <<jobVars, at, tries>> /\ kills' \in 0..MaxKills
      BY <2>1, JobsAssumption DEF SupersetUp, ImportDatabase, SupersetDown, Edit, podVars,
         PodTypes
    <3> QED
      BY <3>1 DEF jobVars, PodTypes
  <2>2. CASE DeadlineExceeded
    <3>1. kills' \in 0..MaxKills
      BY <2>2, JobsAssumption DEF DeadlineExceeded, PodTypes
    <3>2. tries' \in [Job -> 0..(Polls - 1)]
      <4>1. 0 \in 0..(Polls - 1)
        BY JobsAssumption
      <4>2. tries' = [tries EXCEPT ![S] = 0] /\ tries \in [Job -> 0..(Polls - 1)]
        BY <2>2 DEF DeadlineExceeded, PodTypes
      <4> QED
        BY <4>1, <4>2
    <3>3. /\ job' \in [Job -> {"absent", "pending", "running", "complete", "failed"}]
          /\ at' \in [Job -> Lines]
      BY <2>2 DEF DeadlineExceeded, Goto, PodTypes, Lines
    <3>4. \A j \in Job : j # S => at'[j] = at[j] /\ job'[j] = job[j]
      BY <2>2 DEF DeadlineExceeded, Goto, PodTypes
    <3> QED
      BY <2>2, <3>1, <3>2, <3>3, <3>4 DEF DeadlineExceeded, PodTypes
  <2> QED
    BY <1>2, <2>1, <2>2 DEF Superset
<1> QED
  BY <1>1, <1>2

LEMMA NextTypes == TypeOK /\ [Next]_vars => TypeOK'
<1> SUFFICES ASSUME TypeOK, [Next]_vars PROVE TypeOK'
  OBVIOUS
<1>parts. PodTypes /\ GarageTypes /\ PolarisTypes /\ KafkaTypes
  BY TypeParts
<1>whole. (PodTypes /\ GarageTypes /\ PolarisTypes /\ KafkaTypes)' => TypeOK'
  BY TypeParts, PTL
<1>g. GarageTypes /\ UNCHANGED garageVars => GarageTypes'
  BY DEF GarageTypes, garageVars
<1>p. PolarisTypes /\ UNCHANGED polarisVars => PolarisTypes'
  BY DEF PolarisTypes, polarisVars
<1>k. KafkaTypes /\ UNCHANGED kafkaVars => KafkaTypes'
  BY DEF KafkaTypes, kafkaVars
<1>1. ASSUME UNCHANGED vars PROVE TypeOK'
  <2>1. PodTypes'
    BY <1>1, <1>parts DEF vars, jobVars, podVars, PodTypes
  <2> QED
    BY <1>1, <2>1, <1>parts, <1>whole, <1>g, <1>p, <1>k DEF vars
<1>2. ASSUME NEW j \in Job, StartPod(j) \/ KillPod(j) \/ ExitPod(j) \/ Sync(j) PROVE TypeOK'
  <2>1. PodTypes'
    <3>1. CASE StartPod(j)
      BY <3>1, <1>parts DEF StartPod, Goto, PodTypes, Lines
    <3>2. CASE KillPod(j)
      <4>1. tries' \in [Job -> 0..(Polls - 1)] /\ kills' \in 0..MaxKills
        BY <3>2, <1>parts, JobsAssumption DEF KillPod, PodTypes
      <4> QED
        BY <3>2, <4>1, <1>parts DEF KillPod, PodFails, PodTypes, Lines
    <3>3. CASE ExitPod(j)
      BY <3>3, <1>parts DEF ExitPod, Goto, PodTypes, Lines
    <3>4. CASE Sync(j)
      BY <3>4, <1>parts, JobsAssumption DEF Sync, podVars, PodTypes
    <3> QED
      BY <1>2, <3>1, <3>2, <3>3, <3>4
  <2>2. GarageTypes' /\ KafkaTypes'
    BY <1>2, <1>parts, <1>g, <1>k DEF StartPod, KillPod, ExitPod, Sync
  <2>3. PolarisTypes'
    BY <1>2, <1>parts, InitJobsAssumption
      DEF StartPod, KillPod, ExitPod, Sync, polarisVars, PolarisTypes, GarageTypes
  <2> QED
    BY <2>1, <2>2, <2>3, <1>whole
<1>3. ASSUME GarageInit PROVE TypeOK'
  <2>1. PodTypes'
    <3>1. G \in Job
      BY DEF G, Job
    <3>2. \E from, ok : \E to \in Lines :
            \/ Advance(G, from, to) \/ Poll(G, from, ok, to)
            \/ PodFails(G) /\ UNCHANGED <<tries, kills>>
      BY <1>3 DEF GarageInit, WaitForGarage, GetClusterStatus, UpdateClusterLayout,
         ApplyClusterLayout, WaitForHealthy, GarageRefuses, EnsureBucket, EnsureKey,
         AllowBucketKey, UpsertSecret, Lines
    <3> QED
      BY <3>1, <3>2, <1>parts, PodPieces
  <2>2. PolarisTypes' /\ KafkaTypes'
    BY <1>3, <1>parts, <1>p, <1>k DEF GarageInit, WaitForGarage, GetClusterStatus,
       UpdateClusterLayout, ApplyClusterLayout, WaitForHealthy, GarageRefuses, EnsureBucket,
       EnsureKey, AllowBucketKey, UpsertSecret
  <2>3. GarageTypes'
    <3>1. CASE WaitForGarage \/ WaitForHealthy \/ GarageRefuses
      BY <3>1, <1>parts, <1>g DEF WaitForGarage, WaitForHealthy, GarageRefuses
    <3>2. CASE GetClusterStatus \/ UpsertSecret
      BY <3>2, <1>parts DEF GetClusterStatus, UpsertSecret, GarageTypes
    <3>3. CASE UpdateClusterLayout
      BY <3>3, <1>parts DEF UpdateClusterLayout, GarageTypes
    <3>5. CASE ApplyClusterLayout
      <4>1. garage.version + 1 \in Nat
        BY <1>parts DEF GarageTypes
      <4>2. garage' = [garage EXCEPT !.staged = FALSE, !.roles = TRUE,
                                     !.version = garage.version + 1]
        BY <3>5, <1>parts DEF ApplyClusterLayout, GarageTypes
      <4>3. UNCHANGED <<layoutVersion, key, secret>>
        BY <3>5 DEF ApplyClusterLayout
      <4> QED
        BY <4>1, <4>2, <4>3, <1>parts DEF GarageTypes
    <3>6. CASE EnsureBucket
      BY <3>6, <1>parts DEF EnsureBucket, GarageTypes
    <3>7. CASE AllowBucketKey
      BY <3>7, <1>parts DEF AllowBucketKey, GarageTypes
    <3>4. CASE EnsureKey
      <4>1. key' \in Nat
        BY <3>4, <1>parts, FS_EmptySet DEF EnsureKey, GarageTypes
      <4> QED
        BY <3>4, <4>1, <1>parts DEF EnsureKey, GarageTypes
    <3> QED
      BY <1>3, <3>1, <3>2, <3>3, <3>4, <3>5, <3>6, <3>7 DEF GarageInit
  <2> QED
    BY <2>1, <2>2, <2>3, <1>whole
<1>4. ASSUME PolarisInit PROVE TypeOK'
  <2>1. PodTypes'
    <3>1. P \in Job
      BY DEF P, Job
    <3>2. \E from, ok : \E to \in Lines : Advance(P, from, to) \/ Poll(P, from, ok, to)
      BY <1>4 DEF PolarisInit, WaitForPolaris, EnsureCatalog, CreateRole, RoleExists,
         GrantManageContent, AssignRole, EnsureNamespace, Lines
    <3> QED
      BY <3>1, <3>2, <1>parts, PodPieces
  <2>2. GarageTypes' /\ KafkaTypes'
    BY <1>4, <1>parts, <1>g, <1>k DEF PolarisInit, WaitForPolaris, EnsureCatalog, CreateRole,
       RoleExists, GrantManageContent, AssignRole, EnsureNamespace
  <2>3. PolarisTypes'
    <3>1. CASE WaitForPolaris \/ RoleExists
      BY <3>1, <1>parts, <1>p DEF WaitForPolaris, RoleExists
    <3>2. CASE EnsureCatalog \/ CreateRole \/ GrantManageContent
      BY <3>2, <1>parts DEF EnsureCatalog, CreateRole, GrantManageContent, PolarisTypes
    <3>3. CASE AssignRole
      <4>1. role' \in 1..Roles
        BY <3>3, <1>parts, InitJobsAssumption DEF AssignRole, PolarisTypes
      <4> QED
        BY <3>3, <4>1, <1>parts DEF AssignRole, PolarisTypes
    <3>4. CASE EnsureNamespace
      BY <3>4, <1>parts DEF EnsureNamespace, PolarisTypes
    <3> QED
      BY <1>4, <3>1, <3>2, <3>3, <3>4 DEF PolarisInit
  <2> QED
    BY <2>1, <2>2, <2>3, <1>whole
<1>5. ASSUME KafkaCaInit PROVE TypeOK'
  <2>1. PodTypes'
    <3>1. K \in Job
      BY DEF K, Job
    <3>2. \E from : \E to \in Lines : Advance(K, from, to)
      BY <1>5 DEF KafkaCaInit, CheckSecrets, DeleteCert, DeleteKey, CreateCert, MarkCert,
         CreateKey, MarkKey, Lines
    <3> QED
      BY <3>1, <3>2, <1>parts, PodPieces
  <2>2. GarageTypes' /\ PolarisTypes'
    BY <1>5, <1>parts, <1>g, <1>p DEF KafkaCaInit, CheckSecrets, DeleteCert, DeleteKey,
       CreateCert, MarkCert, CreateKey, MarkKey
  <2>3. KafkaTypes'
    <3>1. CASE CheckSecrets
      BY <3>1, <1>parts, <1>k DEF CheckSecrets
    <3>2. CASE DeleteCert
      BY <3>2, <1>parts DEF DeleteCert, KafkaTypes
    <3>3. CASE DeleteKey
      BY <3>3, <1>parts DEF DeleteKey, KafkaTypes
    <3>4. CASE CreateCert
      BY <3>4, <1>parts DEF CreateCert, KafkaTypes
    <3>5. CASE MarkCert
      BY <3>5, <1>parts DEF MarkCert, KafkaTypes
    <3>6. CASE CreateKey
      BY <3>6, <1>parts DEF CreateKey, KafkaTypes
    <3>7. CASE MarkKey
      BY <3>7, <1>parts DEF MarkKey, KafkaTypes
    <3> QED
      BY <1>5, <3>1, <3>2, <3>3, <3>4, <3>5, <3>6, <3>7 DEF KafkaCaInit
  <2> QED
    BY <2>1, <2>2, <2>3, <1>whole
<1>6. ASSUME Services PROVE TypeOK'
  <2>1. PodTypes'
    BY <1>6, <1>parts DEF Services, GarageUp, GarageHealthy, PolarisUp, Rotate, jobVars,
       podVars, PodTypes
  <2>2. GarageTypes' /\ PolarisTypes' /\ KafkaTypes'
    <3>1. CASE GarageUp
      BY <3>1, <1>parts, <1>p, <1>k DEF GarageUp, GarageTypes
    <3>2. CASE GarageHealthy
      BY <3>2, <1>parts, <1>p, <1>k DEF GarageHealthy, GarageTypes
    <3>3. CASE PolarisUp
      BY <3>3, <1>parts, <1>g, <1>k DEF PolarisUp, PolarisTypes
    <3>4. CASE Rotate
      BY <3>4, <1>parts, <1>g, <1>p DEF Rotate, KafkaTypes
    <3> QED
      BY <1>6, <3>1, <3>2, <3>3, <3>4 DEF Services
  <2> QED
    BY <2>1, <2>2, <1>whole
<1>7. ASSUME ImportResources \/ Superset, UNCHANGED <<garageVars, polarisVars, kafkaVars>>
      PROVE  TypeOK'
  BY <1>7, <1>parts, <1>g, <1>p, <1>k, <1>whole, ImportSteps
<1> QED
  BY <1>1, <1>2, <1>3, <1>4, <1>5, <1>6, <1>7 DEF Next

-----------------------------------------------------------------------------
(* Where a step leaves the scripts.                                        *)

\* The steps of the pods and jobs of the other scripts leave a script where it is.
LEMMA ElsewhereG == TypeOK /\ (PolarisInit \/ KafkaCaInit) => at'[G] = at[G] /\ job'[G] = job[G]
BY DEF TypeOK, Job, G, P, K, PolarisInit, WaitForPolaris, EnsureCatalog, CreateRole, RoleExists,
       GrantManageContent, AssignRole, EnsureNamespace, KafkaCaInit, CheckSecrets, DeleteCert,
       DeleteKey, CreateCert, MarkCert, CreateKey, MarkKey, Advance, Poll, PodFails, Goto, jobVars

LEMMA ElsewhereP == TypeOK /\ (GarageInit \/ KafkaCaInit) => at'[P] = at[P] /\ job'[P] = job[P]
BY DEF TypeOK, Job, G, P, K, GarageInit, WaitForGarage, GetClusterStatus, UpdateClusterLayout,
       ApplyClusterLayout, WaitForHealthy, GarageRefuses, EnsureBucket, EnsureKey,
       AllowBucketKey, UpsertSecret, KafkaCaInit, CheckSecrets, DeleteCert,
       DeleteKey, CreateCert, MarkCert, CreateKey, MarkKey, Advance, Poll, PodFails, Goto, jobVars

LEMMA ElsewhereK == TypeOK /\ (GarageInit \/ PolarisInit) => at'[K] = at[K]
BY DEF TypeOK, Job, G, P, K, GarageInit, WaitForGarage, GetClusterStatus, UpdateClusterLayout,
       ApplyClusterLayout, WaitForHealthy, GarageRefuses, EnsureBucket, EnsureKey,
       AllowBucketKey, UpsertSecret, PolarisInit, WaitForPolaris, EnsureCatalog, CreateRole,
       RoleExists, GrantManageContent, AssignRole, EnsureNamespace, Advance, Poll, PodFails, Goto, jobVars

LEMMA ImportElsewhere ==
  TypeOK /\ (ImportResources \/ Superset) =>
    /\ at'[G] = at[G] /\ at'[P] = at[P] /\ at'[K] = at[K]
    /\ job'[G] = job[G] /\ job'[P] = job[P]
BY TypeParts, ImportSteps DEF Job, G, P, K, S

\* A step of Kubernetes puts a script at its first statement, nowhere, or leaves it.
LEMMA PodSteps ==
  ASSUME TypeOK, NEW j \in Job, StartPod(j) \/ KillPod(j) \/ ExitPod(j) \/ Sync(j)
  PROVE  /\ UNCHANGED <<garage, layoutVersion, key, secret, polaris, kafkaVars>>
         /\ \A i \in Job : at'[i] \in {at[i], "none", "wait", "check", "login"}
        /\ \A i \in Job : job'[i] = "complete" => job[i] = "complete" \/ at[i] = "exit"
BY DEF TypeOK, StartPod, KillPod, ExitPod, Sync, PodFails, Goto, garageVars, polarisVars, podVars

-----------------------------------------------------------------------------
(* The Secrets of Kafka.                                                   *)

\* No Secret holds a CA that was not issued yet; while a script works on the Secrets the key
\* has no annotation, and before it gets one it is at least as new as the certificate.
KafkaInv ==
  /\ kafka.cert <= source /\ kafka.key <= source
  /\ at[K] \in {"createCert", "markCert", "createKey", "markKey"} => ~kafka.keyMarked
  /\ at[K] = "markKey" => kafka.cert <= kafka.key
  /\ SkipIsSafe

LEMMA InitKafka == Init => KafkaInv
BY DEF Init, InitOfJobs, KafkaInv, SkipIsSafe, UpToDate, K, Job

LEMMA NextKafka == TypeOK /\ KafkaInv /\ [Next]_vars => KafkaInv'
<1> SUFFICES ASSUME TypeOK, KafkaInv, [Next]_vars PROVE KafkaInv'
  OBVIOUS
<1> USE DEF KafkaInv, SkipIsSafe, UpToDate
<1>1. ASSUME UNCHANGED <<kafka, source>>, at'[K] \in {at[K], "none", "wait", "check", "login"}
      PROVE  KafkaInv'
  BY <1>1
<1>2. ASSUME UNCHANGED vars PROVE KafkaInv'
  BY <1>1, <1>2 DEF vars, podVars, kafkaVars
<1>3. ASSUME NEW j \in Job, StartPod(j) \/ KillPod(j) \/ ExitPod(j) \/ Sync(j) PROVE KafkaInv'
  BY <1>1, <1>3, PodSteps DEF kafkaVars, K, Job
<1>4. ASSUME GarageInit \/ PolarisInit PROVE KafkaInv'
  <2>1. UNCHANGED <<kafka, source>>
    BY <1>4 DEF GarageInit, WaitForGarage, GetClusterStatus, UpdateClusterLayout,
       ApplyClusterLayout, WaitForHealthy, GarageRefuses, EnsureBucket, EnsureKey,
       AllowBucketKey, UpsertSecret, PolarisInit, WaitForPolaris, EnsureCatalog, CreateRole,
       RoleExists, GrantManageContent, AssignRole, EnsureNamespace, kafkaVars
  <2> QED
    BY <1>1, <1>4, <2>1, ElsewhereK
<1>5. ASSUME KafkaCaInit PROVE KafkaInv'
  <2> USE DEF Advance, Goto, TypeOK, K, Job
  <2>0. CASE CheckSecrets
    BY <2>0 DEF CheckSecrets, kafkaVars
  <2>1. CASE DeleteCert
    <3>1. /\ at'[K] = "deleteKey" /\ source' = source /\ kafka'.cert = 0
          /\ ~kafka'.certMarked /\ kafka'.key = kafka.key
      BY <2>1 DEF DeleteCert
    <3> QED
      BY <3>1
  <2>6. CASE DeleteKey
    <3>1. /\ at'[K] = "createCert" /\ source' = source /\ kafka'.key = 0
          /\ ~kafka'.keyMarked /\ kafka'.cert = kafka.cert
      BY <2>6 DEF DeleteKey
    <3> QED
      BY <3>1
  <2>2. CASE CreateCert
    BY <2>2 DEF CreateCert
  <2>3. CASE MarkCert
    BY <2>3 DEF MarkCert
  <2>4. CASE CreateKey
    BY <2>4 DEF CreateKey
  <2>5. CASE MarkKey
    BY <2>5 DEF MarkKey
  <2> QED
    BY <1>5, <2>0, <2>1, <2>2, <2>3, <2>4, <2>5, <2>6 DEF KafkaCaInit
<1>6. ASSUME Services PROVE KafkaInv'
  <2>1. CASE GarageUp \/ GarageHealthy \/ PolarisUp
    BY <1>1, <2>1 DEF GarageUp, GarageHealthy, PolarisUp, podVars, kafkaVars
  <2>2. CASE Rotate
    BY <2>2 DEF Rotate, podVars, TypeOK
  <2> QED
    BY <1>6, <2>1, <2>2 DEF Services
<1>7. ASSUME ImportResources \/ Superset, UNCHANGED kafkaVars PROVE KafkaInv'
  BY <1>1, <1>7, ImportElsewhere DEF kafkaVars
<1> QED
  BY <1>2, <1>3, <1>4, <1>5, <1>6, <1>7 DEF Next

-----------------------------------------------------------------------------
(* The key and the catalog.                                                *)

Works(k) == garage.bucket /\ k \in garage.keys /\ k \in garage.allowed

\* There is one key at most, and it is allowed before it is handed on.
KeyInv ==
  /\ 0 \notin garage.keys
  /\ \A k, l \in garage.keys : k = l
  /\ at[G] \in {"key", "allow", "secret"} => garage.bucket
  /\ at[G] \in {"allow", "secret"} => key \in garage.keys
  /\ at[G] = "secret" => key \in garage.allowed
  /\ secret # 0 => Works(secret)
  /\ s3Key # 0 => Works(s3Key)
  /\ polaris.catalog # 0 => Works(polaris.catalog)

LEMMA InitKey == Init => KeyInv
BY DEF Init, InitOfJobs, KeyInv, G, Job

LEMMA NextKey == TypeOK /\ KeyInv /\ [Next]_vars => KeyInv'
<1> SUFFICES ASSUME TypeOK, KeyInv, [Next]_vars PROVE KeyInv'
  OBVIOUS
<1> USE DEF KeyInv, Works
<1>1. ASSUME UNCHANGED <<garage, key, secret, polaris>>, s3Key' \in {s3Key, secret},
             at'[G] \in {at[G], "none", "wait", "check", "login"}
      PROVE  KeyInv'
  BY <1>1
<1>2. ASSUME UNCHANGED vars PROVE KeyInv'
  BY <1>1, <1>2 DEF vars, podVars, garageVars, polarisVars
<1>3. ASSUME NEW j \in Job, StartPod(j) \/ KillPod(j) \/ ExitPod(j) \/ Sync(j) PROVE KeyInv'
  <2>1. s3Key' \in {s3Key, secret}
    BY <1>3 DEF StartPod, KillPod, ExitPod, Sync, polarisVars
  <2> QED
    BY <1>1, <1>3, <2>1, PodSteps DEF G, Job
<1>4. ASSUME GarageInit PROVE KeyInv'
  <2> USE DEF Advance, Goto, TypeOK, G, Job
  <2>1. CASE WaitForGarage
    BY <2>1 DEF WaitForGarage, Poll, PodFails, garageVars, polarisVars
  <2>0. CASE GetClusterStatus
    <3>1. at'[G] \in {"bucket", "update"} /\ UNCHANGED <<garage, key, secret, polaris, s3Key>>
      BY <2>0 DEF GetClusterStatus, polarisVars
    <3> QED
      BY <3>1
  <2>2. CASE UpdateClusterLayout \/ ApplyClusterLayout
    <3>1. /\ at'[G] \in {"apply", "healthy"} /\ UNCHANGED <<key, secret, polaris, s3Key>>
          /\ garage'.keys = garage.keys /\ garage'.allowed = garage.allowed
          /\ garage'.bucket = garage.bucket
      BY ZenonT(30), <2>2 DEF UpdateClusterLayout, ApplyClusterLayout, polarisVars
    <3> QED
      BY <3>1
  <2>3. CASE WaitForHealthy \/ GarageRefuses
    BY <2>3 DEF WaitForHealthy, GarageRefuses, Poll, PodFails, garageVars, polarisVars
  <2>4. CASE EnsureBucket
    BY <2>4 DEF EnsureBucket, polarisVars
  <2>5. CASE EnsureKey
    <3>1. key' # 0 /\ garage.keys \subseteq {key'}
      <4>1. CASE garage.keys = {}
        BY <2>5, <4>1, FS_EmptySet DEF EnsureKey
      <4>2. CASE garage.keys # {}
        BY <2>5, <4>2 DEF EnsureKey
      <4> QED
        BY <4>1, <4>2
    <3> QED
      BY <2>5, <3>1 DEF EnsureKey, polarisVars
  <2>6. CASE AllowBucketKey
    BY <2>6 DEF AllowBucketKey, polarisVars
  <2>7. CASE UpsertSecret
    BY <2>7 DEF UpsertSecret, polarisVars
  <2> QED
    BY <1>4, <2>0, <2>1, <2>2, <2>3, <2>4, <2>5, <2>6, <2>7 DEF GarageInit
<1>5. ASSUME PolarisInit PROVE KeyInv'
  <2>1. at'[G] = at[G] /\ UNCHANGED <<garage, key, secret, s3Key>>
    BY <1>5, ElsewhereG DEF PolarisInit, WaitForPolaris, EnsureCatalog, CreateRole, RoleExists,
       GrantManageContent, AssignRole, EnsureNamespace, garageVars, polarisVars
  <2>2. polaris'.catalog \in {polaris.catalog, s3Key}
    BY <1>5 DEF PolarisInit, WaitForPolaris, EnsureCatalog, CreateRole, RoleExists,
       GrantManageContent, AssignRole, EnsureNamespace, polarisVars, TypeOK
  <2> QED
    BY <2>1, <2>2
<1>6. ASSUME KafkaCaInit PROVE KeyInv'
  <2>1. UNCHANGED <<garage, key, secret, polaris, s3Key>>
    BY <1>6 DEF KafkaCaInit, CheckSecrets, DeleteCert, DeleteKey, CreateCert, MarkCert,
       CreateKey, MarkKey, garageVars, polarisVars
  <2> QED
    BY <1>1, <1>6, <2>1, ElsewhereG
<1>7. ASSUME Services PROVE KeyInv'
  <2>1. at' = at /\ UNCHANGED <<key, secret, s3Key>>
    BY <1>7 DEF Services, GarageUp, GarageHealthy, PolarisUp, Rotate, podVars, garageVars,
       polarisVars
  <2>2. /\ garage'.keys = garage.keys /\ garage'.allowed = garage.allowed
        /\ garage'.bucket = garage.bucket /\ polaris'.catalog = polaris.catalog
    BY <1>7 DEF Services, GarageUp, GarageHealthy, PolarisUp, Rotate, garageVars, polarisVars,
       TypeOK
  <2> QED
    BY <2>1, <2>2
<1>8. ASSUME ImportResources \/ Superset, UNCHANGED <<garageVars, polarisVars>> PROVE KeyInv'
  BY <1>1, <1>8, ImportElsewhere DEF garageVars, polarisVars
<1> QED
  BY <1>2, <1>3, <1>4, <1>5, <1>6, <1>7, <1>8 DEF Next

-----------------------------------------------------------------------------
(* What a complete job leaves.                                             *)

Done(r) == r \in polaris.roles /\ r \in polaris.granted /\ r \in polaris.assigned

\* garage-init past the layout and past the Secret.
GarageDone ==
  /\ at[G] \in {"healthy", "bucket", "key", "allow", "secret", "exit"} => garage.roles
  /\ at[G] = "exit" \/ job[G] = "complete" => secret # 0
  /\ job[G] = "complete" => garage.roles

\* polaris-init: the roles before the one its loop is at, then all, then the namespace.
PolarisDone ==
  /\ at[P] # "none" => s3Key # 0
  /\ at[P] \in {"role", "grant", "assign", "namespace", "exit"} => polaris.catalog # 0
  /\ at[P] \in {"role", "grant", "assign"} => \A r \in 1..(role - 1) : Done(r)
  /\ at[P] \in {"grant", "assign"} => role \in polaris.roles
  /\ at[P] = "assign" => role \in polaris.granted
  /\ at[P] \in {"wait", "catalog"} => role = 1
  /\ at[P] \in {"namespace", "exit"} \/ job[P] = "complete" => \A r \in 1..Roles : Done(r)
  /\ at[P] = "exit" \/ job[P] = "complete" => polaris.namespace /\ polaris.catalog # 0

LEMMA InitDone == Init => GarageDone /\ PolarisDone
BY DEF Init, InitOfJobs, GarageDone, PolarisDone, G, P, Job

LEMMA NextGarageDone == TypeOK /\ KeyInv /\ GarageDone /\ [Next]_vars => GarageDone'
<1> SUFFICES ASSUME TypeOK, KeyInv, GarageDone, [Next]_vars PROVE GarageDone'
  OBVIOUS
<1> USE DEF GarageDone
<1>1. ASSUME UNCHANGED secret, garage'.roles = garage.roles,
             at'[G] \in {at[G], "none", "wait", "check", "login"},
             job'[G] = "complete" => job[G] = "complete" \/ at[G] = "exit"
      PROVE  GarageDone'
  BY <1>1
<1>2. ASSUME UNCHANGED vars PROVE GarageDone'
  BY <1>1, <1>2 DEF vars, jobVars, podVars, garageVars
<1>3. ASSUME NEW j \in Job, StartPod(j) \/ KillPod(j) \/ ExitPod(j) \/ Sync(j) PROVE GarageDone'
  BY <1>1, <1>3, PodSteps DEF G, Job
<1>4. ASSUME GarageInit PROVE GarageDone'
  <2> USE DEF Advance, Goto, TypeOK, G, Job, jobVars
  <2>1. CASE WaitForGarage \/ WaitForHealthy \/ GarageRefuses
    BY <2>1 DEF WaitForGarage, WaitForHealthy, GarageRefuses, Poll, PodFails, garageVars
  <2>2. CASE GetClusterStatus
    BY <2>2 DEF GetClusterStatus
  <2>3. CASE UpdateClusterLayout
    <3>1. at'[G] = "apply" /\ garage'.roles = garage.roles /\ UNCHANGED <<job, secret>>
      BY <2>3 DEF UpdateClusterLayout
    <3> QED
      BY <3>1
  <2>4. CASE ApplyClusterLayout
    <3>1. at'[G] = "healthy" /\ garage'.roles = TRUE /\ UNCHANGED <<job, secret>>
      BY <2>4 DEF ApplyClusterLayout
    <3> QED
      BY <3>1
  <2>5. CASE EnsureBucket \/ EnsureKey \/ AllowBucketKey
    <3>1. /\ at[G] \in {"bucket", "key", "allow"} /\ at'[G] \in {"key", "allow", "secret"}
          /\ garage'.roles = garage.roles /\ UNCHANGED <<job, secret>>
      BY <2>5 DEF EnsureBucket, EnsureKey, AllowBucketKey
    <3> QED
      BY <3>1
  <2>6. CASE UpsertSecret
    BY <2>6 DEF UpsertSecret, KeyInv
  <2> QED
    BY <1>4, <2>1, <2>2, <2>3, <2>4, <2>5, <2>6 DEF GarageInit
<1>5. ASSUME PolarisInit \/ KafkaCaInit PROVE GarageDone'
  <2>1. UNCHANGED <<garage, secret>>
    BY <1>5 DEF PolarisInit, WaitForPolaris, EnsureCatalog, CreateRole, RoleExists,
       GrantManageContent, AssignRole, EnsureNamespace, KafkaCaInit, CheckSecrets, DeleteCert,
       DeleteKey, CreateCert, MarkCert, CreateKey, MarkKey, garageVars
  <2> QED
    BY <1>1, <1>5, <2>1, ElsewhereG
<1>6. ASSUME Services PROVE GarageDone'
  <2>1. UNCHANGED <<at, job, secret>> /\ garage'.roles = garage.roles
    BY <1>6 DEF Services, GarageUp, GarageHealthy, PolarisUp, Rotate, jobVars, podVars,
       garageVars, TypeOK
  <2> QED
    BY <1>1, <2>1
<1>7. ASSUME ImportResources \/ Superset, UNCHANGED garageVars PROVE GarageDone'
  BY <1>1, <1>7, ImportElsewhere DEF garageVars
<1> QED
  BY <1>2, <1>3, <1>4, <1>5, <1>6, <1>7 DEF Next

LEMMA NextPolarisDone == TypeOK /\ PolarisDone /\ [Next]_vars => PolarisDone'
<1> SUFFICES ASSUME TypeOK, PolarisDone, [Next]_vars PROVE PolarisDone'
  OBVIOUS
<1> USE DEF PolarisDone, Done
<1> DEFINE Same == /\ polaris'.catalog = polaris.catalog
                   /\ polaris'.namespace = polaris.namespace
                   /\ polaris'.roles = polaris.roles
                   /\ polaris'.granted = polaris.granted
                   /\ polaris'.assigned = polaris.assigned
<1>1. ASSUME UNCHANGED <<s3Key, role>>, Same, at'[P] \in {at[P], "none"},
             job'[P] = "complete" => job[P] = "complete" \/ at[P] = "exit"
      PROVE  PolarisDone'
  BY <1>1
<1>2. ASSUME UNCHANGED vars PROVE PolarisDone'
  BY <1>1, <1>2 DEF vars, jobVars, podVars, polarisVars
<1>3. ASSUME StartPod(P) PROVE PolarisDone'
  <2>1. at'[P] = "wait" /\ s3Key' # 0 /\ role' = 1 /\ job'[P] = "running"
    BY <1>3 DEF StartPod, Goto, TypeOK, P, Job
  <2> QED
    BY <2>1
<1>4. ASSUME NEW j \in Job, StartPod(j) \/ KillPod(j) \/ ExitPod(j) \/ Sync(j),
             ~(j = P /\ StartPod(P))
      PROVE  PolarisDone'
  <2>1. UNCHANGED <<s3Key, role, polaris>>
    BY <1>4 DEF StartPod, KillPod, ExitPod, Sync, polarisVars, P
  <2>2. at'[P] \in {at[P], "none"}
    BY <1>4 DEF StartPod, KillPod, ExitPod, Sync, PodFails, Goto, podVars, TypeOK, P, Job
  <2>3. job'[P] = "complete" => job[P] = "complete" \/ at[P] = "exit"
    BY <1>4, PodSteps DEF P, Job
  <2> QED
    BY <1>1, <2>1, <2>2, <2>3
<1>5. ASSUME PolarisInit PROVE PolarisDone'
  <2> USE DEF Advance, Goto, P, Job, jobVars
  <2>atP. at \in [Job -> Lines] /\ job \in [Job -> {"absent", "pending", "running", "complete", "failed"}]
    BY TypeParts DEF PodTypes
  <2>nat. role \in Nat /\ Roles \in Nat /\ role <= Roles /\ role >= 1
    BY InitJobsAssumption DEF TypeOK
  <2>1. CASE WaitForPolaris
    <3>1. UNCHANGED <<s3Key, role, polaris>>
      BY <2>1 DEF WaitForPolaris, polarisVars
    <3>2. at[P] = "wait" /\ at'[P] \in {"wait", "catalog", "none"}
      BY <2>1, <2>atP DEF WaitForPolaris, Poll, PodFails
    <3>3. job'[P] = "complete" => job[P] = "complete"
      BY <2>1, <2>atP DEF WaitForPolaris, Poll, PodFails
    <3> QED
      BY <3>1, <3>2, <3>3
  <2>2. CASE EnsureCatalog
    <3>1. /\ polaris'.catalog = s3Key
          /\ polaris'.namespace = polaris.namespace
          /\ polaris'.roles = polaris.roles
          /\ polaris'.granted = polaris.granted
          /\ polaris'.assigned = polaris.assigned
      BY <2>2 DEF EnsureCatalog, TypeOK
    <3>2. at[P] = "catalog" /\ at'[P] = "role" /\ UNCHANGED <<s3Key, role, job>>
      BY <2>2, <2>atP DEF EnsureCatalog
    <3> QED
      BY <3>1, <3>2
  <2>3. CASE CreateRole
    <3>1. /\ polaris'.catalog = polaris.catalog
          /\ polaris'.namespace = polaris.namespace
          /\ polaris'.roles = polaris.roles \cup {role}
          /\ polaris'.granted = polaris.granted
          /\ polaris'.assigned = polaris.assigned
      BY <2>3 DEF CreateRole, TypeOK
    <3>2. at[P] = "role" /\ at'[P] = "grant" /\ UNCHANGED <<s3Key, role, job>>
      BY <2>3, <2>atP DEF CreateRole
    <3> QED
      BY <3>1, <3>2
  <2>4. CASE RoleExists
    <3>1. /\ role \in polaris.roles /\ UNCHANGED <<s3Key, role, polaris, job>>
          /\ at[P] = "role" /\ at'[P] = "grant"
      BY <2>4, <2>atP DEF RoleExists, polarisVars
    <3> QED
      BY <3>1
  <2>5. CASE GrantManageContent
    <3>1. /\ polaris'.catalog = polaris.catalog
          /\ polaris'.namespace = polaris.namespace
          /\ polaris'.roles = polaris.roles
          /\ polaris'.granted = polaris.granted \cup {role}
          /\ polaris'.assigned = polaris.assigned
      BY <2>5 DEF GrantManageContent, TypeOK
    <3>2. at[P] = "grant" /\ at'[P] = "assign" /\ UNCHANGED <<s3Key, role, job>>
      BY <2>5, <2>atP DEF GrantManageContent
    <3> QED
      BY <3>1, <3>2
  <2>6. CASE AssignRole
    <3>1. /\ polaris'.catalog = polaris.catalog
          /\ polaris'.namespace = polaris.namespace
          /\ polaris'.roles = polaris.roles
          /\ polaris'.granted = polaris.granted
          /\ polaris'.assigned = polaris.assigned \cup {role}
      BY <2>6 DEF AssignRole, TypeOK
    <3>2. at[P] = "assign" /\ UNCHANGED <<s3Key, job>>
      BY <2>6, <2>atP DEF AssignRole
    <3>3. \A r \in 1..role : Done(r)'
      BY <2>nat, <3>1, <3>2
    <3>4. CASE role < Roles
      <4>1. at'[P] = "role" /\ role' = role + 1
        BY <2>6, <2>atP, <3>4 DEF AssignRole
      <4>2. role' - 1 = role
        BY <2>nat, <4>1
      <4> QED
        BY <3>1, <3>2, <3>3, <4>1, <4>2
    <3>5. CASE ~(role < Roles)
      <4>1. at'[P] = "namespace" /\ role = Roles
        BY <2>6, <2>atP, <2>nat, <3>5 DEF AssignRole
      <4> QED
        BY <3>1, <3>2, <3>3, <4>1
    <3> QED
      BY <3>4, <3>5
  <2>7. CASE EnsureNamespace
    <3>1. /\ polaris'.catalog = polaris.catalog
          /\ polaris'.namespace = TRUE
          /\ polaris'.roles = polaris.roles
          /\ polaris'.granted = polaris.granted
          /\ polaris'.assigned = polaris.assigned
      BY <2>7 DEF EnsureNamespace, TypeOK
    <3>2. at[P] = "namespace" /\ at'[P] = "exit" /\ UNCHANGED <<s3Key, role, job>>
      BY <2>7, <2>atP DEF EnsureNamespace
    <3> QED
      BY <3>1, <3>2
  <2> QED
    BY <1>5, <2>1, <2>2, <2>3, <2>4, <2>5, <2>6, <2>7 DEF PolarisInit
<1>6. ASSUME GarageInit \/ KafkaCaInit PROVE PolarisDone'
  <2>1. UNCHANGED <<s3Key, role, polaris>>
    BY <1>6 DEF GarageInit, WaitForGarage, GetClusterStatus, UpdateClusterLayout,
       ApplyClusterLayout, WaitForHealthy, GarageRefuses, EnsureBucket, EnsureKey,
       AllowBucketKey, UpsertSecret, KafkaCaInit, CheckSecrets, DeleteCert, DeleteKey,
       CreateCert, MarkCert, CreateKey, MarkKey, polarisVars
  <2> QED
    BY <1>1, <1>6, <2>1, ElsewhereP
<1>7. ASSUME Services PROVE PolarisDone'
  <2>1. UNCHANGED <<at, job, s3Key, role>> /\ Same
    BY <1>7 DEF Services, GarageUp, GarageHealthy, PolarisUp, Rotate, jobVars, podVars,
       polarisVars, TypeOK
  <2> QED
    BY <1>1, <2>1
<1>8. ASSUME ImportResources \/ Superset, UNCHANGED polarisVars PROVE PolarisDone'
  BY <1>1, <1>8, ImportElsewhere DEF polarisVars
<1> QED
  BY <1>2, <1>3, <1>4, <1>5, <1>6, <1>7, <1>8 DEF Next

-----------------------------------------------------------------------------
(* The theorems.                                                           *)

JobsInv == TypeOK /\ KafkaInv /\ KeyInv /\ GarageDone /\ PolarisDone

LEMMA Invariance == Spec => []JobsInv
<1>1. Init => JobsInv
  BY InitTypes, InitKafka, InitKey, InitDone DEF JobsInv
<1>2. JobsInv /\ [Next]_vars => JobsInv'
  BY NextTypes, NextKafka, NextKey, NextGarageDone, NextPolarisDone DEF JobsInv
<1> QED
  BY <1>1, <1>2, PTL DEF Spec

\* Every variable stays what it is meant to be; the loop over the roles stays inside them.
THEOREM JobTypes == Spec => []TypeOK
BY Invariance, PTL DEF JobsInv

\* A key in the Secret or in the catalog opens the bucket, wherever pods were killed
\* (garage-init.py 213-248, polaris-init.py 103-155).
THEOREM PublishedKey == Spec => []PublishedKeyWorks
<1>1. JobsInv => PublishedKeyWorks
  BY DEF JobsInv, KeyInv, Works, PublishedKeyWorks
<1> QED
  BY <1>1, Invariance, PTL

\* A job that is complete has left all it is for, for any number of roles
\* (garage-init.py 162-255, polaris-init.py 277-283).
THEOREM Ready == Spec => []CompleteMeansReady
<1>1. JobsInv => CompleteMeansReady
  BY DEF JobsInv, GarageDone, PolarisDone, Done, CompleteMeansReady
<1> QED
  BY <1>1, Invariance, PTL

\* Comparing the certificate alone is enough to skip, for any number of kills and of
\* certificates issued meanwhile (ca-init.yaml 32-68).
THEOREM Skip == Spec => []SkipIsSafe
BY Invariance, PTL DEF JobsInv, KafkaInv

\* Published credentials do not change (garage-init.py 213-225).
THEOREM Stable == Spec => CredentialsStable
<1>1. JobsInv /\ [Next]_vars => [secret # 0 => secret' = secret]_vars
  <2> SUFFICES ASSUME JobsInv, [Next]_vars, secret # 0 PROVE secret' = secret
    OBVIOUS
  <2>1. CASE UpsertSecret
    <3>1. at[G] = "secret" /\ secret' = key
      BY <2>1 DEF UpsertSecret, Advance
    <3> QED
      BY <3>1 DEF JobsInv, KeyInv, Works
  <2>2. CASE ~UpsertSecret
    BY <2>2 DEF Next, vars, StartPod, KillPod, ExitPod, Sync, GarageInit, WaitForGarage,
       GetClusterStatus, UpdateClusterLayout, ApplyClusterLayout, WaitForHealthy,
       GarageRefuses, EnsureBucket, EnsureKey, AllowBucketKey, PolarisInit, WaitForPolaris,
       EnsureCatalog, CreateRole, RoleExists, GrantManageContent, AssignRole, EnsureNamespace,
       KafkaCaInit, CheckSecrets, DeleteCert, DeleteKey, CreateCert, MarkCert, CreateKey,
       MarkKey, Services, GarageUp, GarageHealthy, PolarisUp, Rotate, garageVars
  <2> QED
    BY <2>1, <2>2
<1> QED
  BY <1>1, Invariance, PTL DEF Spec, CredentialsStable

=============================================================================
