------------------------------ MODULE InitJobs ------------------------------
(***************************************************************************)
(* The init jobs of the charts, which write into other services what the   *)
(* rest of the warehouse needs:                                            *)
(*   garage-init    layout, bucket and S3 key, published in a Secret       *)
(*   polaris-init   catalog with that key, catalog roles, namespace        *)
(*   kafka-ca-init  the Secrets of Strimzi's clients CA                    *)
(* Kubernetes runs one pod of a job at a time and makes another when it    *)
(* fails, up to backoffLimit times; Argo CD makes the job again at a sync. *)
(* A script that looks something up and then creates it is one step: the   *)
(* job is the only writer, so a pod killed in between is one killed before.*)
(***************************************************************************)
EXTENDS SupersetImport

CONSTANTS
  Roles,          \* the number of CATALOG_ROLES
  MaxSource       \* certificates cert-manager issues; the first is number 2

ASSUME InitJobsAssumption ==
  /\ Roles \in Nat \ {0}
  /\ MaxSource \in Nat

VARIABLES
  garage,     \* Garage: reachable, layout, health, bucket, keys and the keys allowed on it
  layoutVersion, key,     \* garage-init.py: layout_version and access_key_id
  secret,     \* the key in garage-s3-credentials, 0 when there is no such Secret
  polaris,    \* Polaris: reachable, the key in the catalog (0: no catalog), roles, namespace
  s3Key, role,            \* polaris-init.py: S3_ACCESS_KEY and the role of the loop
  kafka,      \* the CAs in the certificate and key Secrets (0: none, 1: Strimzi's own),
              \*   and whether the generation annotations are there
  source      \* the CA in the mounted /ca

garageVars  == <<garage, layoutVersion, key, secret>>
polarisVars == <<polaris, s3Key, role>>
kafkaVars   == <<kafka, source>>
vars == <<jobVars, podVars, garageVars, polarisVars, kafkaVars, importVars>>

Init ==
  /\ InitOfJobs /\ InitOfImport
  /\ garage = [up |-> FALSE, version |-> 0, staged |-> FALSE, roles |-> FALSE,
               healthy |-> FALSE, bucket |-> FALSE, keys |-> {}, allowed |-> {}]
  /\ layoutVersion = 0 /\ key = 0 /\ secret = 0
  /\ polaris = [up |-> FALSE, catalog |-> 0, roles |-> {}, granted |-> {}, assigned |-> {},
                namespace |-> FALSE]
  /\ s3Key = 0 /\ role = 1
  /\ kafka \in {[cert |-> ca, key |-> ca, certMarked |-> ca = 1, keyMarked |-> ca = 1] :
                  ca \in 0..1}
  /\ kafka.cert = 1 => job["kafka-ca-init"] # "absent"
  /\ source = 2

-----------------------------------------------------------------------------
(* Jobs and pods.                                                          *)

\* polaris-init takes its S3 key from the Secret when its container is made, and the
\* container is not made without it.
StartPod(j) ==
  /\ job[j] = "pending"
  /\ j = "polaris-init" => secret # 0
  /\ job' = [job EXCEPT ![j] = "running"]
  /\ Goto(j, CASE j = "kafka-ca-init" -> "check"
                [] j = "superset-import" -> "login"
                [] OTHER -> "wait")
  /\ IF j = "polaris-init" THEN s3Key' = secret /\ role' = 1 ELSE UNCHANGED <<s3Key, role>>
  /\ IF j = "superset-import" THEN import' = Start ELSE UNCHANGED import
  /\ UNCHANGED <<failures, syncs, tries, kills, garageVars, polaris, kafkaVars, superset, edits>>

\* The pod is killed, or a request that may have been served is lost or not answered in time.
KillPod(j) ==
  /\ job[j] = "running"
  /\ kills < MaxKills
  /\ kills' = kills + 1
  /\ tries' = [tries EXCEPT ![j] = 0]
  /\ PodFails(j)
  /\ UNCHANGED <<garageVars, polarisVars, kafkaVars, importVars>>

ExitPod(j) ==
  /\ at[j] = "exit"
  /\ Goto(j, "none")
  /\ job' = [job EXCEPT ![j] = "complete"]
  /\ UNCHANGED <<failures, syncs, tries, kills, garageVars, polarisVars, kafkaVars, importVars>>

\* Argo CD deletes the job that ended and makes it again.
Sync(j) ==
  /\ job[j] \in {"complete", "failed"}
  /\ syncs < MaxSyncs
  /\ syncs' = syncs + 1
  /\ job' = [job EXCEPT ![j] = "pending"]
  /\ failures' = [failures EXCEPT ![j] = 0]
  /\ UNCHANGED <<podVars, garageVars, polarisVars, kafkaVars, importVars>>

-----------------------------------------------------------------------------
(* garage-init.py                                                          *)

G == "garage-init"

WaitForGarage ==
  /\ Poll(G, "wait", garage.up, "status")
  /\ UNCHANGED <<garageVars, polarisVars, kafkaVars>>

\* Reads the version of the layout and whether it has roles.
GetClusterStatus ==
  /\ Advance(G, "status", IF garage.roles THEN "bucket" ELSE "update")
  /\ layoutVersion' = garage.version
  /\ UNCHANGED <<garage, key, secret, polarisVars, kafkaVars>>

UpdateClusterLayout ==
  /\ Advance(G, "update", "apply")
  /\ garage' = [garage EXCEPT !.staged = TRUE]
  /\ UNCHANGED <<layoutVersion, key, secret, polarisVars, kafkaVars>>

\* Garage applies what is staged as the next version and no other.
ApplyClusterLayout ==
  /\ Advance(G, "apply", "healthy")
  /\ garage.staged /\ layoutVersion = garage.version
  /\ garage' = [garage EXCEPT !.staged = FALSE, !.roles = TRUE, !.version = @ + 1]
  /\ UNCHANGED <<layoutVersion, key, secret, polarisVars, kafkaVars>>

WaitForHealthy ==
  /\ Poll(G, "healthy", garage.healthy, "bucket")
  /\ UNCHANGED <<garageVars, polarisVars, kafkaVars>>

\* A pod that found the roles did not wait for health, and Garage may refuse its calls.
GarageRefuses ==
  /\ at[G] \in {"bucket", "key", "allow"}
  /\ ~garage.healthy
  /\ PodFails(G)
  /\ UNCHANGED <<tries, kills, garageVars, polarisVars, kafkaVars>>

EnsureBucket ==
  /\ garage.healthy
  /\ Advance(G, "bucket", "key")
  /\ garage' = [garage EXCEPT !.bucket = TRUE]
  /\ UNCHANGED <<layoutVersion, key, secret, polarisVars, kafkaVars>>

\* Mutants: the key is not looked up first; a key that exists is taken to be allowed.
MutantNewKey ==
  /\ garage.healthy
  /\ Advance(G, "key", "allow")
  /\ key' = Cardinality(garage.keys) + 1
  /\ garage' = [garage EXCEPT !.keys = @ \cup {key'}]
  /\ UNCHANGED <<layoutVersion, secret, polarisVars, kafkaVars>>

MutantKeyAllowed ==
  /\ garage.healthy
  /\ Advance(G, "key", IF garage.keys = {} THEN "allow" ELSE "secret")
  /\ key' \in IF garage.keys = {} THEN {1} ELSE garage.keys
  /\ garage' = [garage EXCEPT !.keys = @ \cup {key'}]
  /\ UNCHANGED <<layoutVersion, secret, polarisVars, kafkaVars>>

\* The key of that name, or a new one.
EnsureKey ==
  /\ garage.healthy
  /\ Advance(G, "key", "allow")
  /\ key' \in IF garage.keys = {} THEN {Cardinality(garage.keys) + 1} ELSE garage.keys
  /\ garage' = [garage EXCEPT !.keys = @ \cup {key'}]
  /\ UNCHANGED <<layoutVersion, secret, polarisVars, kafkaVars>>

AllowBucketKey ==
  /\ garage.healthy
  /\ Advance(G, "allow", "secret")
  /\ garage' = [garage EXCEPT !.allowed = @ \cup {key}]
  /\ UNCHANGED <<layoutVersion, key, secret, polarisVars, kafkaVars>>

UpsertSecret ==
  /\ Advance(G, "secret", "exit")
  /\ secret' = key
  /\ UNCHANGED <<garage, layoutVersion, key, polarisVars, kafkaVars>>

GarageInit ==
  /\ \/ WaitForGarage \/ GetClusterStatus \/ UpdateClusterLayout \/ ApplyClusterLayout
     \/ WaitForHealthy \/ GarageRefuses \/ EnsureBucket \/ EnsureKey \/ AllowBucketKey
     \/ UpsertSecret
  /\ UNCHANGED importVars

-----------------------------------------------------------------------------
(* polaris-init.py                                                         *)

P == "polaris-init"

WaitForPolaris ==
  /\ Poll(P, "wait", polaris.up, "catalog")
  /\ UNCHANGED <<garageVars, polarisVars, kafkaVars>>

\* A catalog that exists gets the properties again, the S3 key among them.
EnsureCatalog ==
  /\ Advance(P, "catalog", "role")
  /\ polaris' = [polaris EXCEPT !.catalog = s3Key]
  /\ UNCHANGED <<s3Key, role, garageVars, kafkaVars>>

\* Creating a role that exists is refused, so it is looked up first.
CreateRole ==
  /\ Advance(P, "role", "grant")
  /\ role \notin polaris.roles
  /\ polaris' = [polaris EXCEPT !.roles = @ \cup {role}]
  /\ UNCHANGED <<s3Key, role, garageVars, kafkaVars>>

\* Mutants: a role that exists is taken to be finished; it is created again and refused.
MutantRoleDone ==
  /\ Advance(P, "role", IF role < Roles THEN "role" ELSE "namespace")
  /\ role \in polaris.roles
  /\ role' = IF role < Roles THEN role + 1 ELSE role
  /\ UNCHANGED <<polaris, s3Key, garageVars, kafkaVars>>

MutantRoleRefused ==
  /\ at[P] = "role" /\ role \in polaris.roles
  /\ PodFails(P)
  /\ UNCHANGED <<tries, kills, garageVars, polarisVars, kafkaVars>>

RoleExists ==
  /\ Advance(P, "role", "grant")
  /\ role \in polaris.roles
  /\ UNCHANGED <<garageVars, polarisVars, kafkaVars>>

GrantManageContent ==
  /\ Advance(P, "grant", "assign")
  /\ polaris' = [polaris EXCEPT !.granted = @ \cup {role}]
  /\ UNCHANGED <<s3Key, role, garageVars, kafkaVars>>

\* Mutant: the loop goes one role too far.
MutantAssignRole ==
  /\ Advance(P, "assign", IF role <= Roles THEN "role" ELSE "namespace")
  /\ polaris' = [polaris EXCEPT !.assigned = @ \cup {role}]
  /\ role' = IF role <= Roles THEN role + 1 ELSE role
  /\ UNCHANGED <<s3Key, garageVars, kafkaVars>>

AssignRole ==
  /\ Advance(P, "assign", IF role < Roles THEN "role" ELSE "namespace")
  /\ polaris' = [polaris EXCEPT !.assigned = @ \cup {role}]
  /\ role' = IF role < Roles THEN role + 1 ELSE role
  /\ UNCHANGED <<s3Key, garageVars, kafkaVars>>

EnsureNamespace ==
  /\ Advance(P, "namespace", "exit")
  /\ polaris' = [polaris EXCEPT !.namespace = TRUE]
  /\ UNCHANGED <<s3Key, role, garageVars, kafkaVars>>

PolarisInit ==
  /\ \/ WaitForPolaris \/ EnsureCatalog \/ CreateRole \/ RoleExists \/ GrantManageContent
     \/ AssignRole \/ EnsureNamespace
  /\ UNCHANGED importVars

-----------------------------------------------------------------------------
(* ca-init.yaml                                                            *)

K == "kafka-ca-init"

\* Mutant: the annotation of the key is not looked at.
MutantUpToDate == kafka.certMarked /\ kafka.cert = source

\* Both Secrets carry their generation and the certificate is ours.
UpToDate == kafka.certMarked /\ kafka.keyMarked /\ kafka.cert = source

CheckSecrets ==
  /\ Advance(K, "check", IF UpToDate THEN "exit" ELSE "deleteCert")
  /\ UNCHANGED <<garageVars, polarisVars, kafkaVars>>

DeleteCert ==
  /\ Advance(K, "deleteCert", "deleteKey")
  /\ kafka' = [kafka EXCEPT !.cert = 0, !.certMarked = FALSE]
  /\ UNCHANGED <<source, garageVars, polarisVars>>

DeleteKey ==
  /\ Advance(K, "deleteKey", "createCert")
  /\ kafka' = [kafka EXCEPT !.key = 0, !.keyMarked = FALSE]
  /\ UNCHANGED <<source, garageVars, polarisVars>>

\* kubectl create refuses a Secret that exists, and set -e ends the script.
CreateCert ==
  /\ Advance(K, "createCert", "markCert")
  /\ kafka.cert = 0
  /\ kafka' = [kafka EXCEPT !.cert = source]
  /\ UNCHANGED <<source, garageVars, polarisVars>>

MarkCert ==
  /\ Advance(K, "markCert", "createKey")
  /\ kafka' = [kafka EXCEPT !.certMarked = TRUE]
  /\ UNCHANGED <<source, garageVars, polarisVars>>

CreateKey ==
  /\ Advance(K, "createKey", "markKey")
  /\ kafka.key = 0
  /\ kafka' = [kafka EXCEPT !.key = source]
  /\ UNCHANGED <<source, garageVars, polarisVars>>

MarkKey ==
  /\ Advance(K, "markKey", "exit")
  /\ kafka' = [kafka EXCEPT !.keyMarked = TRUE]
  /\ UNCHANGED <<source, garageVars, polarisVars>>

KafkaCaInit ==
  /\ \/ CheckSecrets \/ DeleteCert \/ DeleteKey \/ CreateCert \/ MarkCert \/ CreateKey \/ MarkKey
  /\ UNCHANGED importVars

-----------------------------------------------------------------------------
(* The services.                                                           *)

GarageUp ==
  /\ job[G] # "absent" /\ ~garage.up
  /\ garage' = [garage EXCEPT !.up = TRUE]
  /\ UNCHANGED <<jobVars, podVars, layoutVersion, key, secret, polarisVars, kafkaVars>>

GarageHealthy ==
  /\ garage.roles /\ ~garage.healthy
  /\ garage' = [garage EXCEPT !.healthy = TRUE]
  /\ UNCHANGED <<jobVars, podVars, layoutVersion, key, secret, polarisVars, kafkaVars>>

PolarisUp ==
  /\ job[P] # "absent" /\ ~polaris.up
  /\ polaris' = [polaris EXCEPT !.up = TRUE]
  /\ UNCHANGED <<jobVars, podVars, garageVars, s3Key, role, kafkaVars>>

\* cert-manager issues another CA, and the kubelet puts it in the mounted volume.
Rotate ==
  /\ job[K] # "absent" /\ source < MaxSource
  /\ source' = source + 1
  /\ UNCHANGED <<jobVars, podVars, garageVars, polarisVars, kafka>>

Services == (GarageUp \/ GarageHealthy \/ PolarisUp \/ Rotate) /\ UNCHANGED importVars

Next ==
  \/ \E j \in Job : StartPod(j) \/ KillPod(j) \/ ExitPod(j) \/ Sync(j)
  \/ GarageInit \/ PolarisInit \/ KafkaCaInit \/ Services
  \/ (ImportResources \/ Superset) /\ UNCHANGED <<garageVars, polarisVars, kafkaVars>>

Spec == Init /\ [][Next]_vars

\* Kubernetes makes the pods of a job and a script that can go on does.
Fairness ==
  /\ \A j \in Job : WF_vars(StartPod(j)) /\ WF_vars(ExitPod(j))
  /\ WF_vars(GarageInit) /\ WF_vars(PolarisInit) /\ WF_vars(KafkaCaInit)
  /\ WF_vars(ImportResources /\ UNCHANGED <<garageVars, polarisVars, kafkaVars>>)

FairSpec == Spec /\ Fairness

-----------------------------------------------------------------------------
(* Properties.                                                             *)

TypeOK ==
  /\ job \in [Job -> {"absent", "pending", "running", "complete", "failed"}]
  /\ at \in [Job -> {"none", "exit", "wait", "status", "update", "apply", "healthy", "bucket",
                     "key", "allow", "secret", "catalog", "role", "grant", "assign",
                     "namespace", "check", "deleteCert", "deleteKey", "createCert", "markCert",
                     "createKey", "markKey", "login", "ready", "dataset", "chart", "board",
                     "link"}]
  /\ failures \in [Job -> Nat]
  /\ tries \in [Job -> 0..(Polls - 1)]
  /\ kills \in 0..MaxKills /\ syncs \in 0..MaxSyncs
  /\ garage \in [up : BOOLEAN, version : Nat, staged : BOOLEAN, roles : BOOLEAN,
                 healthy : BOOLEAN, bucket : BOOLEAN, keys : SUBSET Nat, allowed : SUBSET Nat]
  /\ layoutVersion \in Nat /\ key \in Nat /\ secret \in Nat
  /\ polaris \in [up : BOOLEAN, catalog : Nat, roles : SUBSET (1..Roles),
                  granted : SUBSET (1..Roles), assigned : SUBSET (1..Roles),
                  namespace : BOOLEAN]
  /\ s3Key \in Nat /\ role \in 1..Roles
  /\ kafka \in [cert : Nat, key : Nat, certMarked : BOOLEAN, keyMarked : BOOLEAN]
  /\ source \in Nat

\* A key that is published, in the Secret or in the catalog, opens the bucket, wherever a pod
\* was killed: readers of the Secret start as soon as it is there (garage-init.py 213-248,
\* polaris-init.py 103-155).
PublishedKeyWorks ==
  \A k \in {secret, polaris.catalog} \ {0} :
    garage.bucket /\ k \in garage.keys /\ k \in garage.allowed

\* A job that is complete has left all it is for, whichever pods did which part of it
\* (garage-init.py 162-255, polaris-init.py 277-283).
CompleteMeansReady ==
  /\ job[G] = "complete" => garage.roles /\ secret # 0
  /\ job[P] = "complete" =>
       /\ polaris.catalog # 0 /\ polaris.namespace
       /\ 1..Roles \subseteq polaris.roles \cap polaris.granted \cap polaris.assigned

\* A pod may find the Secrets up to date only when the key belongs to the certificate, although
\* it compares the certificate alone: the order of the deletions, creations and annotations is
\* what makes that enough, for pods killed between any two of them and for certificates issued
\* meanwhile (ca-init.yaml 32-68).
SkipIsSafe == UpToDate => kafka.key = kafka.cert

\* Credentials once published stay the same: a pod that runs again finds the key of the pod
\* that was killed and makes no second one, so those who hold it keep access and the
\* catalog and the Secret agree (garage-init.py 213-225).
CredentialsStable == [][secret # 0 => secret' = secret]_vars

\* Once no more pods are killed, a job that may still start or run a pod completes, if the
\* services it needs are there: no place where a pod was killed stops the next.  A Garage
\* that is reachable gets its layout; one whose health lags may use up the pods.
Converges ==
  LET Calm(j) == kills = MaxKills /\ job[j] \in {"pending", "running"}
  IN  /\ (Calm(G) /\ garage.up) ~> garage.roles
      /\ (Calm(G) /\ garage.healthy) ~> (job[G] = "complete")
      /\ (Calm(P) /\ polaris.up /\ secret # 0) ~> (job[P] = "complete")
      /\ Calm(K) ~> (job[K] = "complete")

=============================================================================
