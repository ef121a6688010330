----------------------------- MODULE Lifecycle -----------------------------
(***************************************************************************)
(* The life of the CRs of one tenant cluster after they are applied:       *)
(* clients change them, the organization or its credential secret goes     *)
(* away, and in the end they are deleted.  A deleted CR stays, marked,     *)
(* until the operator of its kind removes its finalizers, by an UPDATE     *)
(* that the webhooks of the kind admit or deny like any other one.         *)
(*                                                                         *)
(* Of each kind there is at most one request in flight: of two the API     *)
(* server would refuse the later one anyway (resourceVersion).  What       *)
(* interleaves are requests for different kinds, which read each other's   *)
(* CRs.                                                                    *)
(*                                                                         *)
(* Left out: labels copied at creation (Creation), replicas that change    *)
(* and the order of zones (ControlPlane), upgrades of the Cluster          *)
(* (Cluster), the instance types and the defaults of description, domain,  *)
(* region and pod network, which read no other CR.  Clients, operators and *)
(* the API server are external.                                            *)
(***************************************************************************)
EXTENDS Integers

CONSTANTS
  Zone,          \* the zones of the installation
  Release,       \* the releases, as numbers
  Newest,        \* the release a Cluster gets by default
  FirstHA,       \* 11.4.0
  FirstStable,   \* 15.0.0, with the stable annotation terminate-unhealthy
  Id,            \* labels of a control plane or of a node pool
  Plans,         \* what there is in a cluster, what clients do and what may fail
  None           \* no object, label, annotation, zone or secret

Cluster == "Cluster"
AWSCluster == "AWSCluster"
G8s == "G8sControlPlane"
AWS == "AWSControlPlane"
MD == "MachineDeployment"
AWSMD == "AWSMachineDeployment"
Kinds == {Cluster, AWSCluster, G8s, AWS, MD, AWSMD}
ControlPlane == {G8s, AWS}
Workers == {Cluster, MD, AWSMD}

FaultKinds == {"readError", "skipMutator", "skipValidator"}
EditKinds == {"label", "zones", "scaling", "upgrade", "unhealthy", "batch", "replace",
              "secret", "organization"}

\* What the mutator of AWSClusters fills in.
FilledIn == {"zone", "credential"}

\* What an AWSCluster holds; the annotations may have values that mean nothing.
Credentials == {"credential-default", "credential-own"}
BatchSizes == [unit : {"count", "percent"}, n : Nat]
Choices == {"true", "false", "other"}
AWSClusterObject ==
  [release : Nat \cup {None}, zone : Zone \cup {None}, credential : Credentials \cup {None},
   batch : BatchSizes \cup {None}, alpha : Choices \cup {None}, unhealthy : Choices \cup {None}]

ASSUME LifecycleAssumption ==
  /\ Release \subseteq Nat /\ Newest \in Release /\ FirstStable \in Nat
  /\ None \notin Nat \cup Zone \cup Kinds \cup Choices
  /\ None \notin AWSClusterObject
  /\ Zone # {}
  /\ \A p \in Plans :
       /\ DOMAIN p.manifest \subseteq Kinds
       /\ p.edits \subseteq EditKinds
       /\ p.faults \subseteq FaultKinds
       /\ AWSCluster \in DOMAIN p.manifest => p.manifest[AWSCluster] \in AWSClusterObject
       /\ AWS \in DOMAIN p.manifest => {"n", "zone"} \subseteq DOMAIN p.manifest[AWS]

VARIABLES
  plan,      \* manifest: [some kinds -> the object its client applies]; edits; faults
  store,     \* [Kinds -> the stored object or None]
  marked,    \* the kinds whose CR has been deleted, gone or not yet
  org,       \* whether the Organization is there
  secret,    \* the one credential secret of the organization, or None
  req,       \* [Kinds -> the request for the CR]
  choice,    \* history: what clients last chose for unhealthy nodes
  lapses     \* history: what the webhooks cannot make up for

manifest == plan.manifest

vars == <<plan, store, marked, org, secret, req, choice, lapses>>

\* A fetch failed; a call was skipped; a CR of a control plane was written
\* between the validation and the write of the other one; a client wrote an
\* AWSCluster without the fields that had been filled in.
LapseKinds == FaultKinds \cup {"overtaken", "leftOut"}

DefaultCredential == "credential-default"
DefaultMasterReplicas == 3

IdleRequest == [pc |-> "idle", op |-> "create", obj |-> None, wants |-> None]

Init ==
  /\ plan \in Plans
  /\ store = [kind \in Kinds |-> None]
  /\ marked = {}
  /\ org = TRUE
  /\ secret = "credential-own"
  /\ req = [kind \in Kinds |-> IdleRequest]
  /\ choice = None
  /\ lapses = {}

IsHAVersion(release) == release >= FirstHA

-----------------------------------------------------------------------------
(* The mutators: the objects one may answer with, none if it denies.       *)

\* Mutant: a secret that is set is looked up again.
MutateCredentialAgain(obj) ==
  [obj EXCEPT !.credential = IF secret = None THEN DefaultCredential ELSE secret]

\* fetchCredentialSecret: a failing List, no secret or several: the default.
MutateCredential(obj) ==
  IF obj.credential # None THEN obj
  ELSE [obj EXCEPT !.credential = IF secret = None THEN DefaultCredential ELSE secret]

\* The zone of the only master is drawn before releases with HA masters.
MutateMasterPreHA(obj) ==
  IF IsHAVersion(obj.release) \/ obj.zone # None THEN {obj}
  ELSE {[obj EXCEPT !.zone = z] : z \in Zone}

\* Mutant: the old annotation stays.
MutateAnnotationKeepsAlpha(obj) ==
  IF obj.release < FirstStable \/ obj.alpha = None THEN obj
  ELSE [obj EXCEPT !.unhealthy = IF obj.alpha = "false" THEN "false" ELSE "true"]

\* The alpha annotation replaces the stable one; any value but "false" is true.
MutateAnnotationNodeTerminateUnhealthy(obj) ==
  IF obj.release < FirstStable \/ obj.alpha = None THEN obj
  ELSE [obj EXCEPT !.alpha = None,
                   !.unhealthy = IF obj.alpha = "false" THEN "false" ELSE "true"]

\* An AWSCluster; its annotation moves only in an update.
MutateAWSCluster(op, obj) ==
  IF obj.release = None THEN {}
  ELSE MutateMasterPreHA(IF op = "create" THEN MutateCredential(obj)
                         ELSE MutateAnnotationNodeTerminateUnhealthy(MutateCredential(obj)))

\* Mutant: without an AWSCluster the zone is drawn.
MutatePreHATolerant(obj) ==
  IF obj.n # 0 THEN {obj}
  ELSE {[obj EXCEPT !.n = 1, !.zone = z] :
          z \in IF store[AWSCluster] = None THEN Zone ELSE {store[AWSCluster].zone}}

\* The zone of the master in the AWSCluster, which must be there even if the
\* zones are set.
MutatePreHA(obj) ==
  IF store[AWSCluster] = None THEN {}
  ELSE IF obj.n # 0 THEN {obj}
  ELSE {[obj EXCEPT !.n = 1, !.zone = store[AWSCluster].zone]}

\* Zones are defaulted if unset: as many as the G8sControlPlane has replicas.
MutateAWS(obj, g8s) ==
  IF obj.release = None THEN {}
  ELSE IF ~IsHAVersion(obj.release) THEN MutatePreHA(obj)
  ELSE IF obj.n # 0 THEN {obj}
  ELSE {[obj EXCEPT !.n = IF g8s = None THEN DefaultMasterReplicas ELSE g8s.n,
                    !.zone = z] : z \in Zone}

\* A Cluster takes the newest release when it is created, and must have one
\* later; if only the stored one has none, semver.MustParse panics, the call
\* is skipped, and the object stays as it came.
MutateCluster(op, obj) ==
  IF obj.release # None THEN {obj}
  ELSE IF op = "create" THEN {[obj EXCEPT !.release = Newest]} ELSE {}

\* A MachineDeployment takes its release from the Cluster when it is created,
\* and must have one later.
MutateMD(op, obj) ==
  IF obj.release # None THEN {obj}
  ELSE IF op = "create" /\ store[Cluster] # None /\ store[Cluster].release # None
    THEN {[obj EXCEPT !.release = store[Cluster].release]}
  ELSE {}

\* g8s: the G8sControlPlane as it was fetched.  The replicas of a
\* G8sControlPlane are set, and an AWSMachineDeployment needs no label here.
Mutated(kind, op, obj, g8s) ==
  CASE kind = Cluster -> MutateCluster(op, obj)
    [] kind = AWSCluster -> MutateAWSCluster(op, obj)
    [] kind = G8s -> IF obj.release = None THEN {} ELSE {obj}
    [] kind = AWS -> MutateAWS(obj, g8s)
    [] kind = MD -> MutateMD(op, obj)
    [] kind = AWSMD -> {obj}

-----------------------------------------------------------------------------
(* The validators.  other: the CR of the other kind of the pair as it was  *)
(* fetched, or None.                                                       *)

ValidCount(n) == n \in {1, 3}

\* MaxBatchSizeIsValid: a count above 0, or a ratio above 0 and up to 1 (in
\* percent here).
MaxBatchSizeIsValid(size) ==
  size = None \/ (size.n > 0 /\ (size.unit = "percent" => size.n <= 100))

OrganizationExists == org

ValidateAWSCluster(op, obj) ==
  /\ op = "create" => obj.release # None
  /\ OrganizationExists
  /\ MaxBatchSizeIsValid(obj.batch)
  /\ obj.unhealthy \in {None, "true", "false"}

\* Mutant: an update is not compared with the zones.
ValidateG8sCreateOnly(op, obj, aws) ==
  /\ op = "create" => obj.release # None /\ OrganizationExists
  /\ ValidCount(obj.n)
  /\ op = "create" /\ aws # None => obj.n = aws.n

\* The replicas are always compared, the labels never.
ValidateG8s(op, obj, aws) ==
  /\ op = "create" => obj.release # None /\ OrganizationExists
  /\ ValidCount(obj.n)
  /\ aws # None => obj.n = aws.n

\* The labels are always compared, the replicas at creation.
ValidateAWS(op, obj, g8s) ==
  /\ op = "create" => obj.release # None
  /\ ValidCount(obj.n) /\ obj.zone \in Zone
  /\ OrganizationExists
  /\ g8s # None => obj.id = g8s.id /\ (op = "create" => obj.n = g8s.n)

ClusterInUse == store[Cluster] # None /\ Cluster \notin marked

\* Mutants: the Cluster must be there, and the organization.
ValidateMDInUse(op) == ClusterInUse /\ OrganizationExists
ValidateMDOfOrganization(op) == (op = "create" => ClusterInUse) /\ OrganizationExists

\* A MachineDeployment is validated when it is created only.
ValidateMD(op) == op = "create" => ClusterInUse /\ OrganizationExists

\* The scaling limits and the label; the Cluster and the organization at
\* creation only.
ValidateAWSMD(op, obj, md) ==
  /\ op = "create" => ClusterInUse /\ OrganizationExists
  /\ md # None => obj.id = md.id
  /\ obj.min <= obj.max

\* The label of the operator goes with the release.
ValidateClusterCreate(obj) == obj.release # None /\ OrganizationExists

\* An update of a Cluster parses the release of the stored one, to keep the
\* IPAM mode.
ValidateClusterUpdate == store[Cluster].release # None

ValidateCluster(op, obj) ==
  IF op = "create" THEN ValidateClusterCreate(obj) ELSE ValidateClusterUpdate

Admitted(kind, op, obj, other) ==
  CASE kind = Cluster -> ValidateCluster(op, obj)
    [] kind = AWSCluster -> ValidateAWSCluster(op, obj)
    [] kind = G8s -> ValidateG8s(op, obj, other)
    [] kind = AWS -> ValidateAWS(op, obj, other)
    [] kind = MD -> ValidateMD(op)
    [] kind = AWSMD -> ValidateAWSMD(op, obj, other)

\* The kind whose CR the webhooks of a kind fetch to compare; a fetch that
\* fails is taken for a CR that is not there.
Counterpart(kind) ==
  CASE kind = G8s -> AWS
    [] kind = AWS -> G8s
    [] kind = AWSMD -> MD
    [] OTHER -> None

Fetch(source, other, lapsed) ==
  IF source = None THEN other = None /\ lapsed = {}
  ELSE \/ other = store[source] /\ lapsed = {}
       \/ "readError" \in plan.faults /\ other = None /\ lapsed = {"readError"}

Objects == {store[kind] : kind \in Kinds} \cup {None}

-----------------------------------------------------------------------------
(* Clients and operators.                                                  *)

Submit(kind, op, obj, wants) ==
  /\ req[kind].pc = "idle"
  /\ req' = [req EXCEPT ![kind] = [pc |-> "mutating", op |-> op, obj |-> obj, wants |-> wants]]
  /\ UNCHANGED <<plan, store, marked, org, secret, choice, lapses>>

\* A client applies a manifest; a deleted CR is not applied again (a bound).
Apply(kind) ==
  /\ store[kind] = None /\ kind \notin marked
  /\ Submit(kind, "create", manifest[kind],
            IF kind # AWSCluster THEN None
            ELSE IF manifest[kind].alpha # None THEN manifest[kind].alpha
            ELSE manifest[kind].unhealthy)

Stored(kind) == store[kind] # None

\* Clients change the CRs that are not deleted.
EditLabel ==
  /\ "label" \in plan.edits
  /\ \E kind \in ControlPlane \cup {MD, AWSMD}, id \in Id :
       /\ Stored(kind) /\ kind \notin marked /\ store[kind].id # id
       /\ Submit(kind, "update", [store[kind] EXCEPT !.id = id], None)

EditZones ==
  /\ "zones" \in plan.edits
  /\ \E n \in {1, 3} :
       /\ Stored(AWS) /\ AWS \notin marked /\ store[AWS].n # n
       /\ Submit(AWS, "update", [store[AWS] EXCEPT !.n = n], None)

EditScaling ==
  /\ "scaling" \in plan.edits
  /\ \E max \in {0, 2} :
       /\ Stored(AWSMD) /\ AWSMD \notin marked /\ store[AWSMD].max # max
       /\ Submit(AWSMD, "update", [store[AWSMD] EXCEPT !.max = max], None)

\* The operators upgrade an AWS CR when the Cluster is upgraded.
Upgrade ==
  /\ "upgrade" \in plan.edits
  /\ \E kind \in {AWSCluster, AWS}, release \in Release :
       /\ Stored(kind) /\ kind \notin marked
       /\ store[kind].release # None /\ store[kind].release < release
       /\ Submit(kind, "update", [store[kind] EXCEPT !.release = release], None)

\* A client sets the annotation its release has.
EditUnhealthy ==
  /\ "unhealthy" \in plan.edits
  /\ \E v \in {"true", "false"} :
       /\ Stored(AWSCluster) /\ AWSCluster \notin marked
       /\ \/ Submit(AWSCluster, "update", [store[AWSCluster] EXCEPT !.alpha = v], v)
          \/ /\ store[AWSCluster].release >= FirstStable
             /\ Submit(AWSCluster, "update", [store[AWSCluster] EXCEPT !.unhealthy = v], v)

EditBatch ==
  /\ "batch" \in plan.edits
  /\ \E size \in {[unit |-> "count", n |-> 0], [unit |-> "percent", n |-> 50], None} :
       /\ Stored(AWSCluster) /\ AWSCluster \notin marked /\ store[AWSCluster].batch # size
       /\ Submit(AWSCluster, "update", [store[AWSCluster] EXCEPT !.batch = size], None)

\* A client writes the AWSCluster without the fields that were filled in.
Replace ==
  /\ "replace" \in plan.edits
  /\ Stored(AWSCluster) /\ AWSCluster \notin marked
  /\ Submit(AWSCluster, "replace",
            [store[AWSCluster] EXCEPT !.zone = manifest[AWSCluster].zone, !.credential = None],
            None)

\* A client gives a CR that has no release one, deleted or not.
Rescue(kind) ==
  /\ kind # AWSMD /\ Stored(kind) /\ store[kind].release = None
  /\ Submit(kind, "rescue", [store[kind] EXCEPT !.release = Newest], None)

\* The operator of a kind removes the finalizers.
Finalize(kind) ==
  kind \in marked /\ Stored(kind) /\ Submit(kind, "finalize", store[kind], None)

\* No webhook is called for a delete.
Delete(kind) ==
  /\ Stored(kind) /\ kind \notin marked
  /\ marked' = marked \cup {kind}
  /\ UNCHANGED <<plan, store, org, secret, req, choice, lapses>>

DeleteOrganization ==
  /\ "organization" \in plan.edits
  /\ org /\ org' = FALSE
  /\ UNCHANGED <<plan, store, marked, secret, req, choice, lapses>>

ChangeSecret ==
  /\ "secret" \in plan.edits
  /\ secret' \in {None, "credential-own"} \ {secret}
  /\ UNCHANGED <<plan, store, marked, org, req, choice, lapses>>

-----------------------------------------------------------------------------
(* The API server.                                                         *)

\* The request goes on at pc with obj.
Proceed(kind, pc, obj, lapsed) ==
  /\ req' = [req EXCEPT ![kind].pc = pc, ![kind].obj = obj]
  /\ lapses' = lapses \cup lapsed
  /\ UNCHANGED <<plan, store, marked, org, secret, choice>>

Deny(kind, lapsed) ==
  /\ req' = [req EXCEPT ![kind] = IdleRequest]
  /\ lapses' = lapses \cup lapsed
  /\ UNCHANGED <<plan, store, marked, org, secret, choice>>

Mutate(kind) ==
  /\ req[kind].pc = "mutating"
  /\ \E other \in Objects, lapsed \in SUBSET {"readError"} :
       /\ Fetch(IF kind = AWS THEN G8s ELSE None, other, lapsed)
       /\ LET results == Mutated(kind, req[kind].op, req[kind].obj, other)
          IN  \/ \E obj \in results : Proceed(kind, "validating", obj, lapsed)
              \/ results = {} /\ Deny(kind, lapsed)

Validate(kind) ==
  /\ req[kind].pc = "validating"
  /\ \E other \in Objects, lapsed \in SUBSET {"readError"} :
       /\ Fetch(Counterpart(kind), other, lapsed)
       /\ IF Admitted(kind, req[kind].op, req[kind].obj, other)
            THEN Proceed(kind, "writing", req[kind].obj, lapsed)
            ELSE Deny(kind, lapsed)

\* failurePolicy Ignore: a call that fails is skipped.
SkipMutator(kind) ==
  /\ "skipMutator" \in plan.faults /\ req[kind].pc = "mutating"
  /\ Proceed(kind, "validating", req[kind].obj, {"skipMutator"})
SkipValidator(kind) ==
  /\ "skipValidator" \in plan.faults /\ req[kind].pc = "validating"
  /\ Proceed(kind, "writing", req[kind].obj, {"skipValidator"})

\* The other CR of a control plane has been validated, but not written.
Overtakes(kind) ==
  kind \in ControlPlane /\ req[Counterpart(kind)].pc = "writing"

\* An update from before the deletion holds an old copy and is refused.
Write(kind) ==
  /\ req[kind].pc = "writing"
  /\ req' = [req EXCEPT ![kind] = IdleRequest]
  /\ IF req[kind].op \in {"update", "replace"} /\ kind \in marked
       THEN UNCHANGED <<store, choice, lapses>>
       ELSE /\ store' = [store EXCEPT ![kind] =
                           IF req[kind].op = "finalize" THEN None ELSE req[kind].obj]
            /\ choice' = IF req[kind].wants = None THEN choice ELSE req[kind].wants
            /\ lapses' = lapses \cup (IF Overtakes(kind) THEN {"overtaken"} ELSE {})
                                \cup (IF req[kind].op = "replace" THEN {"leftOut"} ELSE {})
  /\ UNCHANGED <<plan, marked, org, secret>>

Serve(kind) == Finalize(kind) \/ Mutate(kind) \/ Validate(kind) \/ Write(kind)

Edit ==
  \/ EditLabel \/ EditZones \/ EditScaling
  \/ Upgrade \/ EditUnhealthy \/ EditBatch \/ Replace

Next ==
  \/ \E kind \in DOMAIN manifest :
       \/ Apply(kind) \/ Rescue(kind) \/ Delete(kind)
       \/ Serve(kind) \/ SkipMutator(kind) \/ SkipValidator(kind)
  \/ Edit \/ DeleteOrganization \/ ChangeSecret

Spec == Init /\ [][Next]_vars

\* Operators try again, the webhooks and the API server answer, and somebody
\* gets to add a release where there is none.
FairSpec ==
  Spec /\ \A kind \in Kinds : WF_vars(Serve(kind)) /\ SF_vars(Rescue(kind))

-----------------------------------------------------------------------------
(* Properties.                                                             *)

\* The two CRs of a control plane never disagree in both their label and their
\* number of masters, unless a fetch failed, a validating call was skipped or
\* one CR was written between the validation and the write of the other one.
\* Each disagreement alone is one that the code lets happen (an update of the
\* G8sControlPlane is not compared with the label, one of the AWSControlPlane
\* not with the replicas).  With both, each webhook would deny the removal of
\* the finalizers of its CR because of the other one, and neither could go away
\* until a client aligns the label of the AWSControlPlane or the replicas of
\* the G8sControlPlane.
NeverBothApart ==
  Stored(G8s) /\ Stored(AWS)
    /\ lapses \cap {"readError", "skipValidator", "overtaken"} = {} =>
      store[G8s].id = store[AWS].id \/ store[G8s].n = store[AWS].n

\* Before HA masters, an AWSControlPlane whose zones were left to the webhook
\* has the zone that was drawn for the master of the AWSCluster, even if
\* mutating calls are skipped and the zone is drawn later, and through
\* upgrades.
MasterZonesAgree ==
  Stored(AWS) /\ Stored(AWSCluster)
    /\ manifest[AWS].n = 0 /\ ~IsHAVersion(manifest[AWS].release)
    /\ lapses \cap {"skipValidator", "leftOut"} = {} =>
      store[AWS].zone = store[AWSCluster].zone

\* What a client last chose for unhealthy nodes, with the old annotation or the
\* new one, is what the annotation says in releases that read the new one.
ChoiceKept ==
  Stored(AWSCluster) /\ store[AWSCluster].release >= FirstStable
    /\ "skipMutator" \notin lapses =>
      store[AWSCluster].unhealthy = choice

\* The zone of the master and the credentials are filled in once: no later
\* update changes them, whatever has become of the secrets since, unless a
\* client leaves them out.
FilledInOnce ==
  [][Stored(AWSCluster) /\ store'[AWSCluster] # None =>
       \A field \in FilledIn :
         store[AWSCluster][field] \in {None, store'[AWSCluster][field]}
           \/ "leftOut" \in lapses']_vars

Gone(kinds) == \A kind \in kinds : store[kind] = None

\* Why the operators may fail to remove the finalizers: a lapse; the
\* Organization, which updates of the AWS CRs look for, has gone before them;
\* the AWSCluster has gone before an AWSControlPlane without HA masters.
Stuck ==
  \/ lapses # {} \/ ~org
  \/ Stored(AWS) /\ ~IsHAVersion(store[AWS].release) /\ ~Stored(AWSCluster)

\* When all CRs of a cluster have been deleted they all go away, in whichever
\* order the operators get to them: the webhooks do not deny the removal of
\* finalizers for good, for none of the two CRs of a pair because of the other
\* one, unless one of the reasons above holds.
DeletionEnds == marked = DOMAIN manifest ~> Gone(Kinds) \/ Stuck

\* The Cluster and its node pools go away even when the organization has gone
\* and whatever calls to the mutators were skipped: a MachineDeployment that
\* was stored without a release can be given one.
WorkersGo ==
  Workers \cap DOMAIN manifest \subseteq marked ~>
    Gone(Workers) \/ "skipValidator" \in lapses
=============================================================================
