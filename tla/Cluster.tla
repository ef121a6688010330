------------------------------ MODULE Cluster ------------------------------
(***************************************************************************)
(* Admission of Cluster CRs of one name: creation, in one namespace only,  *)
(* and upgrades, which change the release label.  The mutating webhook     *)
(* defaults the release and the version of cluster-operator, and prepares  *)
(* the change of CNI to Cilium; the validating webhook checks the change.  *)
(* Both read CRs that others write: Releases, the AWSCluster with the      *)
(* status of the last upgrade, and the Flux Kustomization.                 *)
(*                                                                         *)
(* A release is a number, ten times its major version plus its minor       *)
(* version, and stands for the version of cluster-operator it names.  The  *)
(* labels and references no property is about are left out, as is a label  *)
(* giantswarm.io/cluster that is missing (the fetchers then fail).         *)
(* The API server and the operators are external.                          *)
(***************************************************************************)
EXTENDS Integers

CONSTANTS
  Client,         \* clients, each with at most one request in flight
  Namespace,      \* the namespaces clients use
  Org,            \* [Namespace -> the organization it belongs to]
  Release,        \* releases, as numbers
  TestReleases,   \* those that are pre-releases or builds
  FirstCilium,    \* 19.0.0-alpha1
  FirstCAPI,      \* 25.0.0-alpha1
  FirstOrgRelease,\* 16.0.0, the first one with clusters in organization namespaces
  Clash,          \* pairs of a Cilium pod network and a network that intersect
  InvalidCIDRs,   \* pod networks that cannot be parsed, or are smaller than /18
  DefaultCidr,    \* --default-cilium-pod-cidr
  DefaultPods,    \* the default pod network of the AWS CNI
  IPAM,           \* --ipam-network-cidr
  Empty,          \* an annotation that is set to the empty string
  None,           \* no object, label or annotation
  Soonest,        \* 16 minutes
  Latest,         \* 4380 hours
  MaxNow,         \* a bound on the clock
  UserClusters,   \* the Clusters clients write
  UserOps,        \* a subset of {"create", "update", "delete"}
  DryRuns,        \* the dryRun flags clients submit
  Restricted,     \* whether clients are admins or in a restricted group
  InitialStores,  \* the stored Clusters a behaviour may start with
  AWSClusters,    \* the AWSCluster of each namespace at the start
  Kustomization,  \* "missing", "running" or "suspended"
  Withdrawn,      \* the releases that may be deprecated
  Faults          \* the failures that may happen, a subset of FaultKinds

FaultKinds == {"skipMutator", "skipValidator"}

IsCilium(v) == v >= FirstCilium
IsCAPI(v) == v # None /\ v >= FirstCAPI
Major(v) == v \div 10

ASSUME ReleasesAssumption ==
  /\ Release \subseteq Nat /\ TestReleases \subseteq Release /\ Withdrawn \subseteq Release
  /\ FirstCilium \in Nat /\ FirstCAPI \in Nat /\ FirstOrgRelease \in Nat
  /\ None \notin Nat

IsCluster(obj) ==
  obj = [release |-> obj.release, operator |-> obj.operator, cidr |-> obj.cidr,
         mode |-> obj.mode, disableKubeProxy |-> obj.disableKubeProxy,
         flux |-> obj.flux, org |-> obj.org, target |-> obj.target,
         time |-> obj.time, deleting |-> obj.deleting]

\* What an AWSCluster may become: its networks never change.
AWSClusterObject ==
  LET stored == {store[ns] : store \in AWSClusters, ns \in Namespace} \ {None}
  IN  [release : Nat \cup {None}, transitioned : BOOLEAN,
       pods : {obj.pods : obj \in stored}, pool : {obj.pool : obj \in stored}]

ASSUME ObjectsAssumption ==
  /\ \A obj \in UserClusters : IsCluster(obj) /\ obj.release \in Nat \cup {None}
  /\ \A store \in InitialStores :
       /\ store = [ns \in Namespace |-> store[ns]]
       /\ \A ns \in Namespace :
            store[ns] # None => IsCluster(store[ns]) /\ store[ns].release \in Nat \cup {None}
  /\ AWSClusters \subseteq [Namespace -> AWSClusterObject \cup {None}]
  /\ None \notin AWSClusterObject

VARIABLES
  cluster,   \* [Namespace -> the stored Cluster or None]
  aws,       \* [Namespace -> the stored AWSCluster or None]
  releases,  \* [Release -> the state of its CR]
  req,       \* the request of each client
  now,       \* the clock of the controller
  lapses     \* history: what the webhooks cannot make up for

\* A call was skipped; a Cluster was created in one namespace between the
\* validation and the write of one of another namespace.
LapseKinds == {"skipMutator", "skipValidator", "overtaken"}

vars == <<cluster, aws, releases, req, now, lapses>>

IdleRequest == [pc |-> "idle", ns |-> None, op |-> "create", restricted |-> FALSE,
                dry |-> FALSE, obj |-> None, old |-> None, fresh |-> FALSE]

Init ==
  /\ cluster \in InitialStores
  /\ aws \in AWSClusters
  /\ releases = [v \in Release |-> "active"]
  /\ req = [c \in Client |-> IdleRequest]
  /\ now = 0
  /\ lapses = {}

-----------------------------------------------------------------------------
(* The mutator: each operator is the set of objects it may answer with,    *)
(* empty if it denies the request.                                         *)

Exists(v) == v \in Release /\ releases[v] # "missing"

\* FetchNewestReleaseVersion.
Defaultable == {v \in Release \ TestReleases : releases[v] = "active" /\ ~IsCAPI(v)}

MutateReleaseVersion(obj) ==
  IF obj.release # None THEN {obj}
  ELSE {[obj EXCEPT !.release = v] : v \in {w \in Defaultable : \A x \in Defaultable : x <= w}}

MutateOperatorVersion(obj) ==
  IF obj.operator # None THEN {obj}
  ELSE IF ~Exists(obj.release) THEN {}
  ELSE {[obj EXCEPT !.operator = obj.release]}

MutateCreate(obj) ==
  IF IsCAPI(obj.release) THEN {obj}
  ELSE UNION {MutateOperatorVersion(o) : o \in MutateReleaseVersion(obj)}

\* Mutant: the version of the operator stays behind.
MutateReleaseUpdateAlone(obj, old) ==
  IF obj.release = old.release \/ Exists(obj.release) THEN {obj} ELSE {}

MutateReleaseUpdate(obj, old) ==
  IF obj.release = old.release THEN {obj}
  ELSE IF ~Exists(obj.release) THEN {}
  ELSE {[obj EXCEPT !.operator = obj.release]}

ChangesCNI(obj, old) == IsCilium(obj.release) # IsCilium(old.release)

\* The default pod network is safe if nothing about the cluster is special.
SafeToDefault(obj, awscluster) ==
  /\ obj.mode # "eni"
  /\ awscluster.pool = None
  /\ awscluster.pods = DefaultPods

\* disableKubeProxy: the annotation is there; one that is there already keeps
\* its value.
\* Mutant: kube-proxy is kept only where the pod network is defaulted.
DefaultCiliumCidrOnly(obj, old, awscluster) ==
  IF ChangesCNI(obj, old) /\ obj.cidr = None /\ SafeToDefault(obj, awscluster)
    THEN [obj EXCEPT !.cidr = DefaultCidr, !.disableKubeProxy = TRUE] ELSE obj

DefaultCiliumCidrOnV18Upgrade(obj, old, awscluster) ==
  IF ~ChangesCNI(obj, old) THEN obj
  ELSE [obj EXCEPT !.disableKubeProxy = TRUE,
                   !.cidr = IF @ = None /\ SafeToDefault(obj, awscluster)
                              THEN DefaultCidr ELSE @]

\* DefaultCiliumCidrOnV18Upgrade uses the AWSCluster it has not found.
Panics(r) ==
  /\ ~r.dry /\ r.op = "update"
  /\ r.obj.release # None /\ ~IsCAPI(r.obj.release)
  /\ MutateReleaseUpdate(r.obj, r.old) # {}
  /\ ChangesCNI(r.obj, r.old) /\ r.obj.cidr = None
  /\ aws[r.ns] = None

\* An update without a release label cannot be parsed.
MutateUpdate(obj, old, awscluster) ==
  IF obj.release = None THEN {}
  ELSE IF IsCAPI(obj.release) THEN {obj}
  ELSE {DefaultCiliumCidrOnV18Upgrade(o, old, awscluster) :
          o \in MutateReleaseUpdate(obj, old)}

-----------------------------------------------------------------------------
(* The validator.                                                          *)

IpamModeValid(obj) == obj.mode \in {None, "eni", "kubernetes"}

\* Mutant: only the own namespace is listed.
ValidateCreateInNamespace(r) ==
  /\ cluster[r.ns] = None
  /\ r.obj.release # None
  /\ r.obj.release >= FirstOrgRelease => r.obj.org = Org[r.ns]
  /\ r.obj.org # None
  /\ IpamModeValid(r.obj)

\* ClusterExists lists the Clusters of all namespaces.
ValidateCreate(r) ==
  /\ \A ns \in Namespace : cluster[ns] = None
  /\ r.obj.release # None
  /\ r.obj.release >= FirstOrgRelease => r.obj.org = Org[r.ns]
  /\ r.obj.org # None
  /\ IpamModeValid(r.obj)

EnsureGitopsPaused(obj, old) ==
  ~IsCilium(old.release) /\ IsCilium(obj.release) /\ obj.flux => Kustomization # "running"

\* The network of the nodes: the block of a NetworkPool, or the default one.
NodeNetwork(awscluster) == IF awscluster.pool # None THEN awscluster.pool ELSE IPAM

\* Mutant: the network of the nodes is always taken for the default one.
CiliumClearOfIPAM(obj, old, awscluster) ==
  LET given == obj.cidr \notin {None, Empty} IN
  \/ obj.deleting
  \/ /\ ~IsCilium(old.release) /\ IsCilium(obj.release) => given \/ obj.mode = "eni"
     /\ given =>
          /\ obj.cidr \notin InvalidCIDRs
          /\ awscluster # None
          /\ <<obj.cidr, awscluster.pods>> \notin Clash
          /\ <<obj.cidr, IPAM>> \notin Clash

\* The pod network of Cilium: it must be there before the upgrade, unless the
\* ENI mode needs none, and must be clear of the networks of pods and nodes.
Cilium(obj, old, awscluster) ==
  LET given == obj.cidr \notin {None, Empty} IN
  \/ obj.deleting
  \/ /\ ~IsCilium(old.release) /\ IsCilium(obj.release) => given \/ obj.mode = "eni"
     /\ given =>
          /\ obj.cidr \notin InvalidCIDRs
          /\ awscluster # None
          /\ <<obj.cidr, awscluster.pods>> \notin Clash
          /\ <<obj.cidr, NodeNetwork(awscluster)>> \notin Clash

\* Mutant: a time that is already stored is checked again.
UpgradeTimeIsAhead(obj, old) ==
  obj.time # None => obj.time >= now + Soonest /\ obj.time <= now + Latest

UpgradeTimeIsValid(obj, old) ==
  obj.time # None /\ obj.time # old.time =>
    obj.time >= now + Soonest /\ obj.time <= now + Latest

\* Mutant: the present release is accepted as a target.
UpgradeReleaseIsNotBehind(obj) ==
  obj.target # None => Exists(obj.target) /\ obj.target >= obj.release

UpgradeReleaseIsValid(obj) ==
  obj.target # None => Exists(obj.target) /\ obj.target > obj.release

\* Only for admins and users in a restricted group.
ClusterStatusValid(obj, old, awscluster) ==
  obj.release # old.release => awscluster # None /\ awscluster.transitioned

\* Mutant: the labels must be there, but may change.
LabelsPresent(obj, old) ==
  /\ old.org # None => obj.org # None
  /\ old.operator # None => obj.operator # None

LabelsValid(obj, old) ==
  /\ old.org # None => obj.org = old.org
  /\ old.operator # None => obj.operator # None

\* Mutant: nothing keeps a cluster from going back.
ReleaseVersionNotSkipping(obj, old) ==
  obj.release # old.release =>
    /\ Major(obj.release) <= Major(old.release) + 1
    /\ Exists(obj.release)
    /\ releases[obj.release] # "deprecated"

ReleaseVersionValid(obj, old) ==
  obj.release # old.release =>
    /\ Major(obj.release) \in {Major(old.release), Major(old.release) + 1}
    /\ Exists(obj.release)
    /\ releases[obj.release] # "deprecated"

Mode(obj) == IF obj.mode = None THEN "kubernetes" ELSE obj.mode

\* Mutant: a mode that was not written down may be changed.
IpamModeUnchangedIfSet(obj, old) ==
  IsCilium(old.release) /\ old.mode # None => obj.mode # None /\ Mode(obj) = Mode(old)

IpamModeUnchanged(obj, old) ==
  IsCilium(old.release) =>
    /\ old.mode # None => obj.mode # None
    /\ Mode(obj) = Mode(old)

ValidateUpdate(r) ==
  LET obj == r.obj
      old == r.old
  IN  \/ IsCAPI(obj.release)
      \/ /\ obj.release # None
         /\ EnsureGitopsPaused(obj, old)
         /\ Cilium(obj, old, aws[r.ns])
         /\ UpgradeTimeIsValid(obj, old)
         /\ UpgradeReleaseIsValid(obj)
         /\ r.restricted => /\ ClusterStatusValid(obj, old, aws[r.ns])
                            /\ LabelsValid(obj, old)
                            /\ ReleaseVersionValid(obj, old)
         /\ IpamModeValid(obj)
         /\ IpamModeUnchanged(obj, old)

Admitted(r) ==
  r.dry \/ IF r.op = "create" THEN ValidateCreate(r) ELSE ValidateUpdate(r)

-----------------------------------------------------------------------------
(* The API server.                                                         *)

\* An update edits the stored object; one that does not set the version of
\* the operator leaves it alone, and none can change deletionTimestamp.
Edited(obj, old) ==
  IF old = None THEN obj
  ELSE [obj EXCEPT !.operator = IF @ = None THEN old.operator ELSE @,
                   !.deleting = old.deleting]

Submit(c) ==
  /\ req[c].pc = "idle"
  /\ \E op \in {"create", "update"} \cap UserOps, ns \in Namespace,
        restricted \in Restricted, dry \in DryRuns, obj \in UserClusters :
       LET old == IF op = "update" THEN cluster[ns] ELSE None IN
       /\ op = "update" => old # None
       /\ req' = [req EXCEPT ![c] =
            [pc |-> "mutating", ns |-> ns, op |-> op, restricted |-> restricted,
             dry |-> dry, obj |-> Edited(obj, old), old |-> old, fresh |-> TRUE]]
  /\ UNCHANGED <<cluster, aws, releases, now, lapses>>

Others == <<cluster, aws, releases, now, lapses>>

Patched(c, obj, lapsed) ==
  /\ req' = [req EXCEPT ![c].pc = "validating", ![c].obj = obj]
  /\ lapses' = lapses \cup lapsed
  /\ UNCHANGED <<cluster, aws, releases, now>>

Finish(c) == req' = [req EXCEPT ![c] = IdleRequest] /\ UNCHANGED Others

Mutate(c) ==
  LET r == req[c]
      results == IF r.dry THEN {r.obj}
                 ELSE IF r.op = "create" THEN MutateCreate(r.obj)
                 ELSE MutateUpdate(r.obj, r.old, aws[r.ns])
  IN  /\ r.pc = "mutating" /\ ~Panics(r)
      /\ \/ \E obj \in results : Patched(c, obj, {})
         \/ results = {} /\ Finish(c)

\* net/http recovers the goroutine and closes the connection, and the API
\* server skips the call.
Panic(c) ==
  /\ req[c].pc = "mutating" /\ Panics(req[c])
  /\ Patched(c, req[c].obj, {})

Validate(c) ==
  /\ req[c].pc = "validating"
  /\ \/ /\ Admitted(req[c])
        /\ req' = [req EXCEPT ![c].pc = "writing"]
        /\ UNCHANGED Others
     \/ ~Admitted(req[c]) /\ Finish(c)

\* failurePolicy Ignore: a call that fails or times out is skipped.
SkipMutator(c) ==
  /\ "skipMutator" \in Faults
  /\ req[c].pc = "mutating"
  /\ Patched(c, req[c].obj, {"skipMutator"})

SkipValidator(c) ==
  /\ "skipValidator" \in Faults
  /\ req[c].pc = "validating"
  /\ req' = [req EXCEPT ![c].pc = "writing"]
  /\ lapses' = lapses \cup {"skipValidator"}
  /\ UNCHANGED <<cluster, aws, releases, now>>

Writable(r) == IF r.op = "create" THEN cluster[r.ns] = None
               ELSE cluster[r.ns] # None /\ r.fresh

Stale(reqs, ns) ==
  [c \in Client |-> IF reqs[c].ns = ns /\ reqs[c].fresh
                      THEN [reqs[c] EXCEPT !.fresh = FALSE] ELSE reqs[c]]

\* A create in another namespace has been validated, but not written.
Overtakes(c) ==
  /\ req[c].op = "create"
  /\ \E d \in Client : /\ req[d].pc = "writing" /\ req[d].op = "create" /\ ~req[d].dry
                       /\ req[d].ns # req[c].ns

\* An update of a Cluster that is being deleted may remove its last finalizer.
Write(c) ==
  LET r == req[c] IN
  /\ r.pc = "writing" /\ Writable(r) /\ ~r.dry
  /\ \E obj \in {r.obj} \cup IF r.obj.deleting THEN {None} ELSE {} :
       cluster' = [cluster EXCEPT ![r.ns] = obj]
  /\ req' = Stale([req EXCEPT ![c] = IdleRequest], r.ns)
  /\ lapses' = IF Overtakes(c) THEN lapses \cup {"overtaken"} ELSE lapses
  /\ UNCHANGED <<aws, releases, now>>

Refuse(c) ==
  /\ req[c].pc = "writing" /\ (~Writable(req[c]) \/ req[c].dry)
  /\ Finish(c)

\* No webhook is called for a delete, which only marks the Cluster.
Delete(ns) ==
  /\ "delete" \in UserOps
  /\ cluster[ns] # None /\ ~cluster[ns].deleting
  /\ cluster' = [cluster EXCEPT ![ns].deleting = TRUE]
  /\ req' = Stale(req, ns)
  /\ UNCHANGED <<aws, releases, now, lapses>>

-----------------------------------------------------------------------------
(* Everybody else.                                                         *)

\* The operators notice a new release some time after it is written, and set
\* the condition of the AWSCluster, and set it again when they are done.
StartUpgrade(ns) ==
  /\ aws[ns] # None /\ aws[ns].transitioned /\ cluster[ns] # None
  /\ aws[ns].release # cluster[ns].release
  /\ aws' = [aws EXCEPT ![ns].transitioned = FALSE, ![ns].release = cluster[ns].release]
  /\ UNCHANGED <<cluster, releases, req, now, lapses>>

FinishUpgrade(ns) ==
  /\ aws[ns] # None /\ ~aws[ns].transitioned
  /\ aws' = [aws EXCEPT ![ns].transitioned = TRUE]
  /\ UNCHANGED <<cluster, releases, req, now, lapses>>

Deprecate(v) ==
  /\ releases[v] = "active"
  /\ releases' = [releases EXCEPT ![v] = "deprecated"]
  /\ UNCHANGED <<cluster, aws, req, now, lapses>>

Tick ==
  /\ now < MaxNow
  /\ now' = now + 1
  /\ UNCHANGED <<cluster, aws, releases, req, lapses>>

Next ==
  \/ \E c \in Client :
       \/ Submit(c) \/ Mutate(c) \/ Panic(c) \/ Validate(c) \/ Write(c) \/ Refuse(c)
       \/ SkipMutator(c) \/ SkipValidator(c)
  \/ \E ns \in Namespace : Delete(ns) \/ StartUpgrade(ns) \/ FinishUpgrade(ns)
  \/ \E v \in Withdrawn : Deprecate(v)
  \/ Tick

Spec == Init /\ [][Next]_vars

-----------------------------------------------------------------------------
(* Properties.                                                             *)

\* The Cluster name is taken in at most one namespace, until a validating call
\* is skipped or two creates have both been validated before either is written.
NameUnique ==
  lapses \cap {"skipValidator", "overtaken"} = {} =>
    \A ns, other \in Namespace :
      cluster[ns] # None /\ cluster[other] # None => ns = other

\* As long as no client writes the label itself, the version of the operator
\* is always that of the release: both change in one write, whatever clients
\* write at the same time and whether or not the validator answers, as long as
\* no mutating call is skipped.
OperatorMatchesRelease ==
  "skipMutator" \notin lapses =>
    \A ns \in Namespace :
      cluster[ns] # None /\ ~IsCAPI(cluster[ns].release) =>
        cluster[ns].operator = cluster[ns].release

\* A step by which a stored Cluster is replaced by another one.
Upgrades(ns) ==
  /\ cluster[ns] # None /\ cluster'[ns] # None
  /\ cluster[ns].release # cluster'[ns].release

StartsCilium(ns) ==
  Upgrades(ns) /\ ~IsCilium(cluster[ns].release) /\ IsCilium(cluster'[ns].release)

\* Restricted clients never take a cluster back to a lower major version, and
\* never skip one, however their requests interleave, as long as no validating
\* call is skipped.
MajorByMajor ==
  [][\A ns \in Namespace : "skipValidator" \notin lapses /\ Upgrades(ns) =>
       Major(cluster'[ns].release) \in
         {Major(cluster[ns].release), Major(cluster[ns].release) + 1}]_vars

\* A cluster that is not being deleted starts to use Cilium with a pod network,
\* given or defaulted, that shares no address with the pods of the AWS CNI nor
\* with the network of its own nodes (of its NetworkPool, if it has one), or
\* in ENI mode without one, as long as no validating call is skipped.
CiliumHasPodNetwork ==
  [][\A ns \in Namespace :
       "skipValidator" \notin lapses /\ StartsCilium(ns) /\ ~cluster'[ns].deleting =>
         \/ cluster'[ns].mode = "eni" /\ cluster'[ns].cidr \in {None, Empty}
         \/ /\ cluster'[ns].cidr \notin {None, Empty} \cup InvalidCIDRs
            /\ aws[ns] # None
            /\ <<cluster'[ns].cidr, aws[ns].pods>> \notin Clash
            /\ aws[ns].pool # None => <<cluster'[ns].cidr, aws[ns].pool>> \notin Clash
            /\ aws[ns].pool = None => <<cluster'[ns].cidr, IPAM>> \notin Clash]_vars

\* Nor does it start with Cilium in the place of kube-proxy: the annotation
\* that avoids the downtime is set in the same write, as long as no mutating
\* call is skipped.
KubeProxyKept ==
  [][\A ns \in Namespace : "skipMutator" \notin lapses /\ StartsCilium(ns) =>
         cluster'[ns].disableKubeProxy]_vars

\* Once a cluster has run Cilium, its IPAM mode is fixed for the rest of its
\* life, whatever releases it goes through, as long as no validating call is
\* skipped.
ModeFixed ==
  \A ns \in Namespace : \A mode \in {"eni", "kubernetes"} :
    [](cluster[ns] # None /\ IsCilium(cluster[ns].release) /\ Mode(cluster[ns]) = mode
       => [](cluster[ns] # None /\ IsCilium(cluster[ns].release)
               /\ "skipValidator" \notin lapses => Mode(cluster[ns]) = mode))

\* A scheduled upgrade is one to a release above the present one, as long as no
\* validating call is skipped.
ScheduleAhead ==
  "skipValidator" \notin lapses =>
    \A ns \in Namespace :
      cluster[ns] # None /\ cluster[ns].target # None =>
        cluster[ns].target > cluster[ns].release

\* A stored Cluster never makes the validator deny an update that leaves it as
\* it is, such as the removal of a finalizer, as long as no validating call is
\* skipped.
NoOpAdmitted ==
  "skipValidator" \notin lapses =>
    \A ns \in Namespace :
      cluster[ns] # None =>
        ValidateUpdate([ns |-> ns, restricted |-> TRUE,
                        obj |-> cluster[ns], old |-> cluster[ns]])

\* A Cluster in the namespace of its organization stays there: restricted
\* clients cannot give it to another organization, as long as no validating
\* call is skipped.
OrganizationKept ==
  [][\A ns \in Namespace :
       /\ "skipValidator" \notin lapses
       /\ cluster[ns] # None /\ cluster[ns].org = Org[ns]
       /\ cluster'[ns] # None /\ ~IsCAPI(cluster'[ns].release)
       => cluster'[ns].org = Org[ns]]_vars
=============================================================================
