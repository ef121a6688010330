------------------------------ MODULE Creation ------------------------------
(***************************************************************************)
(* The creation of the CRs of one tenant cluster, applied in any order by  *)
(* clients that try again when they are denied.  The mutators fill in the  *)
(* labels a manifest leaves out from the CRs that are there:               *)
(*                                                                         *)
(*    Release --> Cluster --> AWSCluster --> AWSControlPlane               *)
(*                   |             |                |                      *)
(*                   |             +--> AWSMachineDeployment               *)
(*                   +--> G8sControlPlane, MachineDeployment               *)
(*                                                                         *)
(* and deny a CR whose source is missing; the validators deny node pools   *)
(* of a Cluster that is missing or being deleted.  Each kind has one       *)
(* operator label: cluster-operator for the CRs of the Cluster API and the *)
(* G8sControlPlane, aws-operator for the AWS ones.  A release stands for   *)
(* the versions of both operators it names.                                *)
(*                                                                         *)
(* Left out: the organization label and namespace, instance types,         *)
(* annotations and the defaults that depend on no other CR; the number of  *)
(* masters and their zones are in ControlPlane, upgrades and CNI in        *)
(* Cluster.  Clients, the API server and the deletion are external.        *)
(***************************************************************************)
EXTENDS Integers

CONSTANTS
  Release,    \* the releases, as numbers
  Newest,     \* the release a Cluster gets by default
  FirstCAPI,  \* 25.0.0-alpha1
  Id,         \* labels of a node pool
  Plans,      \* what clients apply, and what happens meanwhile
  None        \* no object, or no label

Cluster == "Cluster"
AWSCluster == "AWSCluster"
G8s == "G8sControlPlane"
AWS == "AWSControlPlane"
MD == "MachineDeployment"
AWSMD == "AWSMachineDeployment"
Kinds == {Cluster, AWSCluster, G8s, AWS, MD, AWSMD}
NodePool == {MD, AWSMD}

\* The Cluster is upgraded or deleted, calls to mutators are skipped.
Happenings == {"upgrade", "delete", "skipMutator"}

ASSUME ReleasesAssumption == Release \subseteq Nat /\ Newest \in Release /\ None \notin Nat
\* The labels, whether the reference to the AWS CR and the zones are there, and
\* the label of a node pool.
Object == [release : Nat \cup {None}, operator : Nat \cup {None},
           infraRef : BOOLEAN, zones : BOOLEAN, id : Id]

\* A client that names the operator of a Cluster names that of its release.
ASSUME PlansAssumption ==
  /\ None \notin Object
  /\ \A p \in Plans :
       /\ DOMAIN p.manifest \subseteq Kinds /\ p.meanwhile \subseteq Happenings
       /\ \A kind \in DOMAIN p.manifest : p.manifest[kind] \in Object
       /\ Cluster \in DOMAIN p.manifest =>
            p.manifest[Cluster].operator \in {None, p.manifest[Cluster].release}

VARIABLES
  plan,      \* manifest: [some kinds -> the object its client applies]; meanwhile
  store,     \* [Kinds -> the stored object or None]
  deleting,  \* whether the Cluster has a deletionTimestamp
  req        \* [Kinds -> the request to create the CR]

manifest == plan.manifest

vars == <<plan, store, deleting, req>>

IdleRequest == [pc |-> "idle", obj |-> None, late |-> FALSE]

Init ==
  /\ plan \in Plans
  /\ store = [kind \in Kinds |-> None]
  /\ deleting = FALSE
  /\ req = [kind \in Kinds |-> IdleRequest]

IsCAPI(v) == v # None /\ v >= FirstCAPI

-----------------------------------------------------------------------------
(* The mutators: an object with its labels, or None if they deny it.       *)

\* The label of a CR, or the one of the CR it is taken from.
Label(own, source) == IF own # None THEN own ELSE source

\* MutateLabelFromCluster and MutateLabelFromAWSCluster: the CR must be there
\* and have the label.
LabelFrom(kind, own, field) ==
  IF own # None THEN own
  ELSE IF store[kind] = None THEN None ELSE store[kind][field]

\* A Cluster: the newest release, and the version of cluster-operator in it.
MutateCluster(obj) ==
  LET release == Label(obj.release, Newest) IN
  IF IsCAPI(obj.release) THEN obj
  ELSE [obj EXCEPT !.release = release, !.operator = Label(@, release)]

\* Mutant: the operator is that of the newest release.
MutateFromClusterAndRelease(obj) ==
  IF obj.release # None /\ obj.operator # None THEN obj
  ELSE LET release == LabelFrom(Cluster, obj.release, "release") IN
       IF store[Cluster] = None \/ release = None THEN None
       ELSE [obj EXCEPT !.release = release, !.operator = Label(@, Newest)]

\* A G8sControlPlane or a MachineDeployment takes both labels from one copy
\* of the Cluster, which it reads if either of them is missing.
MutateFromCluster(obj) ==
  IF obj.release # None /\ obj.operator # None THEN obj
  ELSE LET release == LabelFrom(Cluster, obj.release, "release")
           operator == LabelFrom(Cluster, obj.operator, "operator")
       IN  IF store[Cluster] = None \/ release = None \/ operator = None THEN None
           ELSE [obj EXCEPT !.release = release, !.operator = operator]

\* MutateInfraRef of the G8sControlPlane reads the release from the object as
\* it came, not from the patch, unless there is nothing to do.
MutateG8s(obj) ==
  IF ~obj.infraRef /\ obj.release = None THEN None ELSE MutateFromCluster(obj)

MutateMD(obj) == IF IsCAPI(obj.release) THEN obj ELSE MutateFromCluster(obj)

\* Mutant: the AWSCluster waits for the AWSControlPlane.
MutateReleaseVersionInTurn(kind, obj) ==
  LET release == LabelFrom(Cluster, obj.release, "release") IN
  IF release = None \/ (kind \in {AWSCluster, AWSMD} /\ ~obj.zones /\ store[AWS] = None)
    THEN None ELSE [obj EXCEPT !.release = release]

\* The AWS kinds take the release from the Cluster; the zones of an
\* AWSMachineDeployment come from the AWSControlPlane, which is read before
\* and, once stored, stays (an AWSControlPlane is not deleted here).
MutateReleaseVersion(kind, obj) ==
  LET release == LabelFrom(Cluster, obj.release, "release") IN
  IF release = None \/ (kind = AWSMD /\ ~obj.zones /\ store[AWS] = None) THEN None
  ELSE [obj EXCEPT !.release = release]

\* Mutant: the operator of an AWSCluster is that of the newest release.
MutateOperatorVersionNewest(kind, obj) ==
  LET operator == IF kind = AWSCluster THEN Label(obj.operator, Newest)
                  ELSE LabelFrom(AWSCluster, obj.operator, "operator")
  IN  IF operator = None THEN None ELSE [obj EXCEPT !.operator = operator]

\* Then an AWSCluster takes the version of aws-operator from its release, the
\* others take it from the AWSCluster.
MutateOperatorVersion(kind, obj) ==
  LET operator == IF kind = AWSCluster THEN Label(obj.operator, obj.release)
                  ELSE LabelFrom(AWSCluster, obj.operator, "operator")
  IN  IF operator = None THEN None ELSE [obj EXCEPT !.operator = operator]

\* What the first read of a mutator makes of the object.
FirstRead(kind, obj) ==
  CASE kind = Cluster -> MutateCluster(obj)
    [] kind = G8s -> MutateG8s(obj)
    [] kind = MD -> MutateMD(obj)
    [] OTHER -> MutateReleaseVersion(kind, obj)

ReadsTwice(kind) == kind \in {AWSCluster, AWS, AWSMD}

-----------------------------------------------------------------------------
(* The validators.                                                         *)

\* Mutant: nothing to compare without a release.
ValidateOrgNamespaceIfReleased(obj) == obj.release # None => obj.release \in Nat

\* ValidateOrgNamespace needs the release.
ValidateOrgNamespace(obj) == obj.release # None

\* Mutant: a Cluster that is being deleted will do.
ValidateClusterExists == store[Cluster] # None

\* The Cluster is there and is not being deleted.
ValidateCluster == store[Cluster] # None /\ ~deleting

\* Only the AWSMachineDeployment is compared with the other CR.
MachineDeploymentLabelMatch(obj) == store[MD] # None => store[MD].id = obj.id

ValidateCreate(kind, obj) ==
  CASE kind = MD -> IsCAPI(obj.release) \/ ValidateCluster
    [] kind = AWSMD -> ValidateCluster /\ MachineDeploymentLabelMatch(obj)
    [] OTHER -> ValidateOrgNamespace(obj)

-----------------------------------------------------------------------------
(* The clients and the API server.                                         *)

\* A client applies a manifest that is not stored.  late: the Cluster was
\* being deleted when it did (a history variable).
Apply(kind) ==
  /\ kind \in DOMAIN manifest /\ req[kind].pc = "idle" /\ store[kind] = None
  /\ req' = [req EXCEPT ![kind] = [pc |-> "mutating", obj |-> manifest[kind],
                                   late |-> deleting]]
  /\ UNCHANGED <<plan, store, deleting>>

\* The request goes on at pc, or is denied if there is no object.
Proceed(kind, pc, obj) ==
  /\ req' = IF obj = None THEN [req EXCEPT ![kind] = IdleRequest]
            ELSE [req EXCEPT ![kind].pc = pc, ![kind].obj = obj]
  /\ UNCHANGED <<plan, store, deleting>>

Mutate(kind) ==
  \/ /\ req[kind].pc = "mutating"
     /\ Proceed(kind, IF ReadsTwice(kind) THEN "labelled" ELSE "validating",
                FirstRead(kind, req[kind].obj))
  \/ /\ req[kind].pc = "labelled"
     /\ Proceed(kind, "validating", MutateOperatorVersion(kind, req[kind].obj))

Validate(kind) ==
  /\ req[kind].pc = "validating"
  /\ Proceed(kind, "writing",
             IF ValidateCreate(kind, req[kind].obj) THEN req[kind].obj ELSE None)

Write(kind) ==
  /\ req[kind].pc = "writing"
  /\ store' = [store EXCEPT ![kind] = req[kind].obj]
  /\ req' = [req EXCEPT ![kind] = IdleRequest]
  /\ UNCHANGED <<plan, deleting>>

\* failurePolicy Ignore: a mutating call that fails is skipped.
SkipMutator(kind) ==
  /\ "skipMutator" \in plan.meanwhile
  /\ req[kind].pc \in {"mutating", "labelled"}
  /\ Proceed(kind, "validating", manifest[kind])

\* Both labels of the Cluster change in one write.
UpgradeCluster ==
  /\ "upgrade" \in plan.meanwhile
  /\ store[Cluster] # None /\ ~IsCAPI(store[Cluster].release)
  /\ \E v \in Release :
       /\ v > store[Cluster].release
       /\ store' = [store EXCEPT ![Cluster].release = v, ![Cluster].operator = v]
  /\ UNCHANGED <<plan, deleting, req>>

\* The operators keep the AWSCluster up to date, later.
UpgradeAWSCluster ==
  /\ "upgrade" \in plan.meanwhile
  /\ store[Cluster] # None /\ store[AWSCluster] # None
  /\ store[AWSCluster].release # store[Cluster].release
  /\ store' = [store EXCEPT ![AWSCluster].release = store[Cluster].release,
                            ![AWSCluster].operator = store[Cluster].release]
  /\ UNCHANGED <<plan, deleting, req>>

\* The Cluster is marked, and goes away when its finalizers are gone; it is
\* not created again (a bound of the model).
DeleteCluster ==
  /\ "delete" \in plan.meanwhile /\ store[Cluster] # None /\ ~deleting
  /\ deleting' = TRUE
  /\ UNCHANGED <<plan, store, req>>

Serve(kind) == Apply(kind) \/ Mutate(kind) \/ Validate(kind) \/ Write(kind)

Next ==
  \/ \E kind \in Kinds : Serve(kind) \/ SkipMutator(kind)
  \/ UpgradeCluster \/ UpgradeAWSCluster \/ DeleteCluster

Spec == Init /\ [][Next]_vars

\* Clients try again, and the webhooks and the API server answer.
FairSpec == Spec /\ \A kind \in Kinds : WF_vars(Serve(kind))

-----------------------------------------------------------------------------
(* Properties.                                                             *)

\* Whatever the order in which the CRs are applied, in the end they are all
\* there: no mutator waits for a CR that waits for its own, upgraded or not.
AllCreated ==
  plan.meanwhile \subseteq {"upgrade"} => <>(\A kind \in DOMAIN manifest : store[kind] # None)

\* The labels a manifest leaves out are those of the Cluster, through any
\* number of other CRs (when the Cluster is not upgraded meanwhile).
LabelsAgree ==
  \A kind \in Kinds :
    plan.meanwhile = {} /\ store[kind] # None /\ store[Cluster] # None =>
      /\ manifest[kind].release = None => store[kind].release = store[Cluster].release
      /\ manifest[kind].release = None /\ manifest[kind].operator = None =>
           store[kind].operator = store[Cluster].operator

\* A G8sControlPlane or a MachineDeployment without labels never mixes the
\* release of a Cluster with the operator of another one, however upgrades
\* of the Cluster interleave with its creation.
LabelsFromOneCopy ==
  \A kind \in {G8s, MD} :
    store[kind] # None /\ manifest[kind].release = None /\ manifest[kind].operator = None =>
      store[kind].operator = store[kind].release

\* Across an upgrade the labels a mutator has copied may be those of before,
\* and the release of an AWS CR and its operator, read at different times, may
\* differ; but a CR that leaves a label out never gets one that its Cluster
\* has not reached, however the reads interleave with the upgrades of the
\* Cluster and of the AWSCluster, so that no operator runs ahead of the
\* Cluster.  (Upgrades go to higher releases; see MajorByMajor of Cluster.)
NeverAheadOfCluster ==
  \A kind \in Kinds \ {Cluster} : store[kind] # None /\ store[Cluster] # None =>
    \A field \in {"release", "operator"} :
      manifest[kind][field] = None /\ store[kind][field] # None =>
        store[kind][field] <= store[Cluster].release

\* A node pool that is applied after the deletion of the Cluster is never
\* stored, even while the mutating webhook does not answer, unless it is a
\* MachineDeployment of a CAPI release, which is not compared with the Cluster.
NoLateNodePools ==
  [][\A kind \in NodePool :
       store[kind] = None /\ store'[kind] # None =>
         ~req[kind].late \/ (kind = MD /\ IsCAPI(store'[kind].release))]_vars

\* A CR of the cluster or of the control plane is never stored without its
\* release, even while the mutating webhook does not answer: the updates of
\* such a CR would all be denied.
ReleaseKnown ==
  \A kind \in Kinds \ NodePool : store[kind] # None => store[kind].release # None
=============================================================================
