--------------------------- MODULE CreationProofs ---------------------------
(***************************************************************************)
(* Theorems about Creation, for any releases, manifests and plans.         *)
(***************************************************************************)
EXTENDS Creation, TLAPS

Pcs == {"idle", "mutating", "labelled", "validating", "writing"}
Request == [pc : Pcs, obj : Object \cup {None}, late : BOOLEAN]

Bare(kind) == manifest[kind].release = None /\ manifest[kind].operator = None

\* An object of a request or of the store: a Cluster names no other operator
\* than that of its release, and copied labels are from one copy.
Fine(kind, obj) ==
  /\ obj \in Object
  /\ kind = Cluster => obj.operator \in {None, obj.release}
  /\ kind \in {G8s, MD} /\ Bare(kind) => obj.operator = obj.release

Released(kind, obj) == kind \notin NodePool => obj.release # None

\* A request that has been validated is for a CR with a release, and for a node
\* pool only if the Cluster was not being deleted when it came.
RequestFine(kind, r) ==
  /\ r \in Request
  /\ r.late => deleting
  /\ r.pc # "idle" => kind \in DOMAIN manifest /\ Fine(kind, r.obj)
  /\ r.pc = "labelled" => ReadsTwice(kind)
  /\ r.pc = "writing" =>
       /\ Released(kind, r.obj)
       /\ kind \in NodePool /\ r.late => kind = MD /\ IsCAPI(r.obj.release)

Inv ==
  /\ plan \in Plans
  /\ deleting \in BOOLEAN
  /\ store \in [Kinds -> Object \cup {None}]
  /\ req \in [Kinds -> Request]
  /\ \A kind \in Kinds :
       /\ store[kind] # None => Fine(kind, store[kind]) /\ Released(kind, store[kind])
       /\ RequestFine(kind, req[kind])

USE DEF Cluster, AWSCluster, G8s, AWS, MD, AWSMD

LEMMA Starts == Init => Inv
<1> SUFFICES ASSUME Init PROVE Inv
  OBVIOUS
<1>1. IdleRequest \in Request /\ \A kind \in Kinds : RequestFine(kind, IdleRequest)
  BY DEF IdleRequest, RequestFine, Request, Pcs
<1>2. QED
  BY <1>1 DEF Init, Inv

\* What a client applies is fine.
LEMMA Manifests ==
  ASSUME plan \in Plans, NEW kind \in DOMAIN manifest
  PROVE  Fine(kind, manifest[kind])
<1>1. manifest[kind] \in Object
  BY PlansAssumption DEF manifest
<1>2. kind = Cluster => manifest[kind].operator \in {None, manifest[kind].release}
  BY PlansAssumption DEF manifest
<1>3. QED
  BY <1>1, <1>2 DEF Fine, Bare

-----------------------------------------------------------------------------
(* The mutators keep objects fine.                                         *)

LEMMA LabelLemma ==
  ASSUME Inv, NEW kind \in Kinds, NEW own \in Nat \cup {None}
  PROVE  /\ LabelFrom(kind, own, "release") \in Nat \cup {None}
         /\ LabelFrom(kind, own, "operator") \in Nat \cup {None}
BY DEF Inv, Fine, Object, LabelFrom

LEMMA MutateClusterLemma ==
  ASSUME Inv, NEW obj, Fine(Cluster, obj)
  PROVE  Fine(Cluster, MutateCluster(obj))
BY ReleasesAssumption DEF Fine, Object, MutateCluster, Label

LEMMA MutateFromClusterLemma ==
  ASSUME Inv, NEW kind \in {G8s, MD}, NEW obj, Fine(kind, obj), MutateFromCluster(obj) # None
  PROVE  Fine(kind, MutateFromCluster(obj))
<1> DEFINE release == LabelFrom(Cluster, obj.release, "release")
           operator == LabelFrom(Cluster, obj.operator, "operator")
<1>1. obj \in Object
  BY DEF Fine
<1>2. CASE obj.release # None /\ obj.operator # None
  BY <1>2 DEF MutateFromCluster
<1>3. CASE ~(obj.release # None /\ obj.operator # None)
  <2>1. /\ store[Cluster] # None /\ release # None /\ operator # None
        /\ MutateFromCluster(obj) = [obj EXCEPT !.release = release, !.operator = operator]
    BY <1>3 DEF MutateFromCluster
  <2>2. release \in Nat /\ operator \in Nat
    BY <1>1, <2>1, LabelLemma DEF Object, Kinds
  <2>3. [obj EXCEPT !.release = release, !.operator = operator] \in Object
    BY <1>1, <2>2 DEF Object
  <2>4. Bare(kind) => operator = release
    <3>1. store[Cluster].operator \in {None, store[Cluster].release}
      BY <2>1 DEF Inv, Fine, Kinds
    <3>2. Bare(kind) => obj.release = None /\ obj.operator = None
      BY <1>3 DEF Fine
    <3>3. QED
      BY <2>1, <3>1, <3>2 DEF LabelFrom
  <2>5. QED
    BY <1>1, <2>1, <2>3, <2>4 DEF Fine, Object
<1>4. QED
  BY <1>2, <1>3

LEMMA MutateReleaseVersionLemma ==
  ASSUME Inv, NEW kind \in {AWSCluster, AWS, AWSMD}, NEW obj, Fine(kind, obj),
         MutateReleaseVersion(kind, obj) # None
  PROVE  Fine(kind, MutateReleaseVersion(kind, obj))
<1>1. obj \in Object
  BY DEF Fine
<1>2. LabelFrom(Cluster, obj.release, "release") \in Nat \cup {None}
  BY <1>1, LabelLemma DEF Object, Kinds
<1>3. MutateReleaseVersion(kind, obj) =
        [obj EXCEPT !.release = LabelFrom(Cluster, obj.release, "release")]
  BY DEF MutateReleaseVersion
<1>4. QED
  BY <1>1, <1>2, <1>3 DEF Fine, Object

LEMMA MutateOperatorVersionLemma ==
  ASSUME Inv, NEW kind \in {AWSCluster, AWS, AWSMD}, NEW obj, Fine(kind, obj),
         MutateOperatorVersion(kind, obj) # None
  PROVE  Fine(kind, MutateOperatorVersion(kind, obj))
<1> DEFINE operator == IF kind = AWSCluster THEN Label(obj.operator, obj.release)
                       ELSE LabelFrom(AWSCluster, obj.operator, "operator")
<1>1. obj \in Object
  BY DEF Fine
<1>2. operator \in Nat \cup {None}
  BY <1>1, LabelLemma DEF Object, Kinds, Label
<1>3. MutateOperatorVersion(kind, obj) = [obj EXCEPT !.operator = operator]
  BY DEF MutateOperatorVersion
<1>4. QED
  BY <1>1, <1>2, <1>3 DEF Fine, Object

LEMMA FirstReadLemma ==
  ASSUME Inv, NEW kind \in Kinds, NEW obj, Fine(kind, obj), FirstRead(kind, obj) # None
  PROVE  Fine(kind, FirstRead(kind, obj))
<1>1. CASE kind = Cluster
  BY <1>1, MutateClusterLemma DEF FirstRead
<1>2. CASE kind = G8s
  BY <1>2, MutateFromClusterLemma DEF FirstRead, MutateG8s
<1>3. CASE kind = MD
  BY <1>3, MutateFromClusterLemma DEF FirstRead, MutateMD
<1>4. CASE kind \in {AWSCluster, AWS, AWSMD}
  BY <1>4, MutateReleaseVersionLemma DEF FirstRead
<1>5. QED
  BY <1>1, <1>2, <1>3, <1>4 DEF Kinds

-----------------------------------------------------------------------------
(* Every step keeps the invariant.                                         *)

\* A request that goes on with a fine object, or is denied.
LEMMA ProceedLemma ==
  ASSUME Inv, NEW kind \in Kinds, NEW pc \in Pcs \ {"idle"}, NEW obj,
         req[kind].pc # "idle", Proceed(kind, pc, obj),
         obj # None => Fine(kind, obj),
         pc = "labelled" => ReadsTwice(kind),
         pc = "writing" /\ obj # None =>
           /\ Released(kind, obj)
           /\ kind \in NodePool /\ req[kind].late => kind = MD /\ IsCAPI(obj.release)
  PROVE  Inv'
<1>1. UNCHANGED <<plan, store, deleting>>
  BY DEF Proceed
<1>2. req' \in [Kinds -> Request] /\ RequestFine(kind, req'[kind])
  BY DEF Proceed, Inv, RequestFine, Request, Pcs, IdleRequest, Fine
<1>3. \A k \in Kinds \ {kind} : req'[k] = req[k]
  BY DEF Proceed, Inv
<1>4. \A k \in Kinds : RequestFine(k, req'[k])
  BY <1>2, <1>3 DEF Inv
<1>5. QED
  BY <1>1, <1>2, <1>4 DEF Inv, RequestFine, Fine, Released, Bare, manifest

LEMMA ApplyLemma == ASSUME Inv, NEW kind \in Kinds, Apply(kind) PROVE Inv'
<1>1. UNCHANGED <<plan, store, deleting>>
  BY DEF Apply
<1>2. req' = [req EXCEPT ![kind] = [pc |-> "mutating", obj |-> manifest[kind], late |-> deleting]]
  BY DEF Apply
<1>3. kind \in DOMAIN manifest /\ Fine(kind, manifest[kind])
  BY Manifests DEF Apply, Inv
<1>4. req' \in [Kinds -> Request] /\ RequestFine(kind, req'[kind])
  BY <1>2, <1>3 DEF Inv, RequestFine, Request, Pcs, Fine
<1>5. \A k \in Kinds \ {kind} : req'[k] = req[k]
  BY <1>2 DEF Inv
<1>6. \A k \in Kinds : RequestFine(k, req'[k])
  BY <1>4, <1>5 DEF Inv
<1>7. QED
  BY <1>1, <1>4, <1>6 DEF Inv, RequestFine, Fine, Released, Bare, manifest

LEMMA MutateLemma == ASSUME Inv, NEW kind \in Kinds, Mutate(kind) PROVE Inv'
<1>1. req[kind].pc # "idle" /\ Fine(kind, req[kind].obj)
  BY DEF Mutate, Inv, RequestFine
<1>2. CASE req[kind].pc = "mutating"
  BY <1>1, <1>2, FirstReadLemma, ProceedLemma DEF Mutate, Pcs
<1>3. CASE req[kind].pc = "labelled"
  <2>1. kind \in {AWSCluster, AWS, AWSMD}
    BY <1>3 DEF Inv, RequestFine, ReadsTwice
  <2>2. QED
    BY <1>1, <1>3, <2>1, MutateOperatorVersionLemma, ProceedLemma DEF Mutate, Pcs
<1>4. QED
  BY <1>2, <1>3 DEF Mutate

LEMMA SkipMutatorLemma == ASSUME Inv, NEW kind \in Kinds, SkipMutator(kind) PROVE Inv'
<1>1. /\ req[kind].pc # "idle"
      /\ Proceed(kind, "validating", manifest[kind])
      /\ Fine(kind, manifest[kind])
  BY Manifests DEF SkipMutator, Inv, RequestFine
<1>2. QED
  BY <1>1, ProceedLemma DEF Pcs

\* A late request for a node pool passes only if it is not compared with the
\* Cluster.
LEMMA ValidateLemma == ASSUME Inv, NEW kind \in Kinds, Validate(kind) PROVE Inv'
<1> DEFINE obj == req[kind].obj
           answer == IF ValidateCreate(kind, obj) THEN obj ELSE None
<1>1. /\ req[kind].pc # "idle" /\ Fine(kind, obj) /\ Proceed(kind, "writing", answer)
      /\ req[kind].late => deleting
  BY DEF Validate, Inv, RequestFine
<1>2. answer # None => answer = obj /\ ValidateCreate(kind, obj)
  OBVIOUS
<1>3. ValidateCreate(kind, obj) => Released(kind, obj)
  BY DEF ValidateCreate, ValidateOrgNamespace, Released, NodePool
<1>4. ValidateCreate(kind, obj) /\ kind \in NodePool /\ req[kind].late =>
        kind = MD /\ IsCAPI(obj.release)
  BY <1>1 DEF ValidateCreate, ValidateCluster, NodePool
<1>5. QED
  BY <1>1, <1>2, <1>3, <1>4, ProceedLemma DEF Pcs

LEMMA WriteLemma == ASSUME Inv, NEW kind \in Kinds, Write(kind) PROVE Inv'
<1>1. /\ store' = [store EXCEPT ![kind] = req[kind].obj]
      /\ req' = [req EXCEPT ![kind] = IdleRequest]
      /\ UNCHANGED <<plan, deleting>>
      /\ Fine(kind, req[kind].obj) /\ Released(kind, req[kind].obj)
  BY DEF Write, Inv, RequestFine
<1>2. store' \in [Kinds -> Object \cup {None}]
  BY <1>1 DEF Inv, Fine
<1>3. \A k \in Kinds : store'[k] # None => Fine(k, store'[k]) /\ Released(k, store'[k])
  BY <1>1 DEF Inv
<1>4. req' \in [Kinds -> Request]
  BY <1>1 DEF Inv, IdleRequest, Request, Pcs
<1>5. \A k \in Kinds : RequestFine(k, req'[k])
  BY <1>1, <1>4 DEF Inv, RequestFine, IdleRequest
<1>6. QED
  BY <1>1, <1>2, <1>3, <1>4, <1>5 DEF Inv, RequestFine, Fine, Released, Bare, manifest

\* Both labels of a stored CR are set to those of a release.
LEMMA UpgradeLemma ==
  ASSUME Inv, NEW kind \in {Cluster, AWSCluster}, NEW v \in Nat, store[kind] # None,
         store' = [store EXCEPT ![kind] = [@ EXCEPT !.release = v, !.operator = v]],
         UNCHANGED <<plan, deleting, req>>
  PROVE  Inv'
<1>1. kind \in Kinds /\ store[kind] \in Object
  BY DEF Inv, Kinds, Fine
<1>2. LET obj == [store[kind] EXCEPT !.release = v, !.operator = v]
      IN  Fine(kind, obj) /\ Released(kind, obj)
  BY <1>1, ReleasesAssumption DEF Fine, Released, Object
<1>3. /\ store' \in [Kinds -> Object \cup {None}]
      /\ \A k \in Kinds : store'[k] # None => Fine(k, store'[k]) /\ Released(k, store'[k])
  BY <1>1, <1>2 DEF Inv, Fine
<1>4. QED
  BY <1>3 DEF Inv, RequestFine, Fine, Released, Bare, manifest

LEMMA UpgradeClusterLemma == ASSUME Inv, UpgradeCluster PROVE Inv'
<1>1. PICK v \in Release :
        store' = [store EXCEPT ![Cluster].release = v, ![Cluster].operator = v]
  BY DEF UpgradeCluster
<1>2. store' = [store EXCEPT ![Cluster] = [@ EXCEPT !.release = v, !.operator = v]]
  BY <1>1 DEF Inv, Kinds
<1>3. QED
  BY <1>2, UpgradeLemma, ReleasesAssumption DEF UpgradeCluster

LEMMA UpgradeAWSClusterLemma == ASSUME Inv, UpgradeAWSCluster PROVE Inv'
<1> DEFINE v == store[Cluster].release
<1>1. v \in Nat
  BY DEF UpgradeAWSCluster, Inv, Fine, Released, Object, Kinds, NodePool
<1>2. store' = [store EXCEPT ![AWSCluster] = [@ EXCEPT !.release = v, !.operator = v]]
  BY DEF UpgradeAWSCluster, Inv, Kinds
<1>3. QED
  BY <1>1, <1>2, UpgradeLemma DEF UpgradeAWSCluster

LEMMA DeleteClusterLemma == ASSUME Inv, DeleteCluster PROVE Inv'
BY DEF DeleteCluster, Inv, RequestFine, Fine, Released, Bare, manifest

LEMMA Steps == Inv /\ [Next]_vars => Inv'
<1> SUFFICES ASSUME Inv, [Next]_vars PROVE Inv'
  OBVIOUS
<1>1. ASSUME NEW kind \in Kinds, Serve(kind) \/ SkipMutator(kind)
      PROVE  Inv'
  BY <1>1, ApplyLemma, MutateLemma, ValidateLemma, WriteLemma, SkipMutatorLemma DEF Serve
<1>2. CASE UpgradeCluster
  BY <1>2, UpgradeClusterLemma
<1>3. CASE UpgradeAWSCluster
  BY <1>3, UpgradeAWSClusterLemma
<1>4. CASE DeleteCluster
  BY <1>4, DeleteClusterLemma
<1>5. CASE UNCHANGED vars
  BY <1>5 DEF vars, Inv, RequestFine, Fine, Released, Bare, manifest
<1>6. QED
  BY <1>1, <1>2, <1>3, <1>4, <1>5 DEF Next

LEMMA Invariance == Spec => []Inv
BY Starts, Steps, PTL DEF Spec

-----------------------------------------------------------------------------
(* The labels of the Cluster reach every CR that leaves its own out.       *)

\* The release of the Cluster, which names the version of its operator too.
ClusterRelease(p) == Label(p.manifest[Cluster].release, Newest)

\* The Cluster is not of a CAPI release, whose labels the webhook leaves alone,
\* and an AWSCluster that comes with labels, which node pools and control
\* planes copy, comes with those of the Cluster.
LabelsOfTheCluster ==
  \A p \in Plans : p.meanwhile = {} /\ Cluster \in DOMAIN p.manifest =>
    /\ ~IsCAPI(p.manifest[Cluster].release)
    /\ AWSCluster \in DOMAIN p.manifest =>
         /\ p.manifest[AWSCluster].release \in {None, ClusterRelease(p)}
         /\ p.manifest[AWSCluster].operator \in {None, ClusterRelease(p)}

Quiet == plan.meanwhile = {} /\ Cluster \in DOMAIN manifest

\* An object with the labels it goes without from the Cluster.
Settled(kind, obj) ==
  /\ kind \in {Cluster, AWSCluster} \/ manifest[kind].release = None =>
       obj.release = ClusterRelease(plan)
  /\ kind \in {Cluster, AWSCluster} \/ Bare(kind) => obj.operator = ClusterRelease(plan)

\* One that still goes without its operator.
HalfSettled(kind, obj) ==
  /\ kind = AWSCluster \/ manifest[kind].release = None => obj.release = ClusterRelease(plan)
  /\ obj.operator = manifest[kind].operator

RequestSettled(kind, r) ==
  /\ r.pc = "mutating" => r.obj = manifest[kind]
  /\ r.pc = "labelled" => HalfSettled(kind, r.obj)
  /\ r.pc \in {"validating", "writing"} => Settled(kind, r.obj)

InPlan == \A kind \in Kinds : store[kind] # None => kind \in DOMAIN manifest

LabelInv ==
  Quiet => \A kind \in Kinds :
             /\ store[kind] # None => Settled(kind, store[kind])
             /\ RequestSettled(kind, req[kind])

LEMMA FirstReadSettles ==
  ASSUME LabelsOfTheCluster, Inv, LabelInv, Quiet, NEW kind \in DOMAIN manifest, kind \in Kinds,
         FirstRead(kind, manifest[kind]) # None
  PROVE  LET obj == FirstRead(kind, manifest[kind])
         IN  IF ReadsTwice(kind) THEN HalfSettled(kind, obj) ELSE Settled(kind, obj)
<1> DEFINE m == manifest[kind]
           R == ClusterRelease(plan)
<1>1. plan \in Plans /\ m \in Object /\ Fine(kind, m)
  BY Manifests DEF Inv, Fine
<1>2. store[Cluster] # None => store[Cluster].release = R /\ store[Cluster].operator = R
  BY DEF LabelInv, Settled, Kinds
<1>3. CASE kind = Cluster
  <2>1. ~IsCAPI(m.release) /\ m.operator \in {None, m.release} /\ R = Label(m.release, Newest)
    BY <1>1, <1>3 DEF LabelsOfTheCluster, Quiet, manifest, Fine, ClusterRelease
  <2>2. FirstRead(kind, m) = [m EXCEPT !.release = R, !.operator = Label(m.operator, R)]
    BY <1>3, <2>1 DEF FirstRead, MutateCluster
  <2>3. Label(m.operator, R) = R
    BY <2>1 DEF Label
  <2>4. QED
    BY <1>1, <1>3, <2>2, <2>3 DEF Object, Settled, ReadsTwice
<1>4. CASE kind \in {G8s, MD}
  <2>1. CASE m.release # None
    BY <1>4, <2>1, Zenon DEF Settled, Bare, ReadsTwice
  <2>2. CASE m.release = None
    <3>1. FirstRead(kind, m) = MutateFromCluster(m)
      BY <1>4, <2>2 DEF FirstRead, MutateG8s, MutateMD, IsCAPI
    <3>2. /\ store[Cluster] # None
          /\ MutateFromCluster(m) =
               [m EXCEPT !.release = LabelFrom(Cluster, None, "release"),
                         !.operator = LabelFrom(Cluster, m.operator, "operator")]
      BY <2>2, <3>1 DEF MutateFromCluster
    <3>3. /\ LabelFrom(Cluster, None, "release") = R
          /\ m.operator = None => LabelFrom(Cluster, m.operator, "operator") = R
      BY <1>2, <3>2 DEF LabelFrom
    <3>4. QED
      BY <1>1, <1>4, <3>1, <3>2, <3>3 DEF Object, Settled, Bare, ReadsTwice
  <2>3. QED
    BY <2>1, <2>2
<1>5. CASE kind \in {AWSCluster, AWS, AWSMD}
  <2>1. FirstRead(kind, m) = [m EXCEPT !.release = LabelFrom(Cluster, m.release, "release")]
    BY <1>5 DEF FirstRead, MutateReleaseVersion
  <2>2. m.release = None => LabelFrom(Cluster, m.release, "release") = R
    BY <1>2, <1>5 DEF LabelFrom, FirstRead, MutateReleaseVersion
  <2>3. kind = AWSCluster => LabelFrom(Cluster, m.release, "release") = R
    BY <1>1, <2>2 DEF LabelsOfTheCluster, Quiet, manifest, LabelFrom
  <2>4. QED
    BY <1>1, <1>5, <2>1, <2>2, <2>3 DEF Object, HalfSettled, ReadsTwice
<1>6. QED
  BY <1>3, <1>4, <1>5 DEF Kinds

LEMMA SecondReadSettles ==
  ASSUME LabelsOfTheCluster, Inv, LabelInv, Quiet, NEW kind \in {AWSCluster, AWS, AWSMD},
         kind \in DOMAIN manifest, NEW obj \in Object, HalfSettled(kind, obj),
         MutateOperatorVersion(kind, obj) # None
  PROVE  Settled(kind, MutateOperatorVersion(kind, obj))
<1> DEFINE R == ClusterRelease(plan)
           operator == IF kind = AWSCluster THEN Label(obj.operator, obj.release)
                       ELSE LabelFrom(AWSCluster, obj.operator, "operator")
<1>1. operator # None /\ MutateOperatorVersion(kind, obj) = [obj EXCEPT !.operator = operator]
  BY DEF MutateOperatorVersion
<1>2. store[AWSCluster] # None => store[AWSCluster].operator = R
  BY DEF LabelInv, Settled, Kinds
<1>3. kind = AWSCluster => operator = R
  BY DEF LabelsOfTheCluster, Inv, Quiet, manifest, HalfSettled, Label
<1>4. kind # AWSCluster /\ Bare(kind) => operator = R
  BY <1>1, <1>2 DEF HalfSettled, Bare, LabelFrom
<1> HIDE DEF operator
<1>5. QED
  BY <1>1, <1>3, <1>4 DEF Object, Settled, HalfSettled, Bare

LEMMA LabelSteps ==
  ASSUME LabelsOfTheCluster, Inv, InPlan, LabelInv, [Next]_vars
  PROVE  InPlan' /\ LabelInv'
<1>1. ASSUME NEW kind \in Kinds, NEW r, UNCHANGED <<plan, store>>,
             req' = [req EXCEPT ![kind] = r], Quiet => RequestSettled(kind, r)
      PROVE  InPlan' /\ LabelInv'
  <2>1. \A k \in Kinds : req'[k] = IF k = kind THEN r ELSE req[k]
    BY <1>1 DEF Inv
  <2>2. QED
    BY <1>1, <2>1 DEF InPlan, LabelInv, Quiet, manifest, RequestSettled, Settled, HalfSettled,
                      Bare
<1>2. ASSUME NEW kind \in Kinds, NEW pc, NEW obj, Proceed(kind, pc, obj),
             Quiet /\ obj # None => RequestSettled(kind, [req[kind] EXCEPT !.pc = pc, !.obj = obj])
      PROVE  InPlan' /\ LabelInv'
  <2>1. UNCHANGED <<plan, store>>
    BY <1>2 DEF Proceed
  <2>2. CASE obj = None
    <3>1. req' = [req EXCEPT ![kind] = IdleRequest] /\ RequestSettled(kind, IdleRequest)
      BY <1>2, <2>2 DEF Proceed, IdleRequest, RequestSettled
    <3>2. QED
      BY <1>1, <2>1, <3>1
  <2>3. CASE obj # None
    <3>1. req' = [req EXCEPT ![kind] = [req[kind] EXCEPT !.pc = pc, !.obj = obj]]
      BY <1>2, <2>3 DEF Proceed, Inv
    <3>2. QED
      BY <1>1, <1>2, <2>1, <2>3, <3>1
  <2>4. QED
    BY <2>2, <2>3
<1>3. ASSUME NEW kind \in Kinds, Apply(kind) PROVE InPlan' /\ LabelInv'
  BY <1>1, <1>3 DEF Apply, RequestSettled
<1>4. ASSUME NEW kind \in Kinds, req[kind].pc = "mutating", Mutate(kind)
      PROVE  InPlan' /\ LabelInv'
  <2> DEFINE obj == FirstRead(kind, req[kind].obj)
             pc == IF ReadsTwice(kind) THEN "labelled" ELSE "validating"
  <2>1. Proceed(kind, pc, obj) /\ kind \in DOMAIN manifest
    BY <1>4 DEF Mutate, Inv, RequestFine
  <2>2. Quiet => req[kind].obj = manifest[kind]
    BY <1>4 DEF LabelInv, RequestSettled
  <2>3. Quiet /\ obj # None =>
          IF ReadsTwice(kind) THEN HalfSettled(kind, obj) ELSE Settled(kind, obj)
    BY <2>1, <2>2, FirstReadSettles
  <2> HIDE DEF obj
  <2>4. Quiet /\ obj # None => RequestSettled(kind, [req[kind] EXCEPT !.pc = pc, !.obj = obj])
    BY <2>3 DEF RequestSettled, Inv, Request
  <2>5. QED
    BY <1>2, <2>1, <2>4
<1>5. ASSUME NEW kind \in Kinds, req[kind].pc = "labelled", Mutate(kind)
      PROVE  InPlan' /\ LabelInv'
  <2> DEFINE obj == MutateOperatorVersion(kind, req[kind].obj)
  <2>1. /\ Proceed(kind, "validating", obj) /\ kind \in DOMAIN manifest
        /\ kind \in {AWSCluster, AWS, AWSMD} /\ req[kind].obj \in Object
    BY <1>5 DEF Mutate, Inv, RequestFine, ReadsTwice, Fine
  <2>2. Quiet /\ obj # None => Settled(kind, obj)
    BY <1>5, <2>1, SecondReadSettles DEF LabelInv, RequestSettled
  <2> HIDE DEF obj
  <2>3. Quiet /\ obj # None =>
          RequestSettled(kind, [req[kind] EXCEPT !.pc = "validating", !.obj = obj])
    BY <2>2 DEF RequestSettled, Inv, Request
  <2>4. QED
    BY <1>2, <2>1, <2>3
<1>6. ASSUME NEW kind \in Kinds, Validate(kind) PROVE InPlan' /\ LabelInv'
  <2> DEFINE obj == IF ValidateCreate(kind, req[kind].obj) THEN req[kind].obj ELSE None
  <2>1. Proceed(kind, "writing", obj)
    BY <1>6 DEF Validate
  <2>2. Quiet /\ obj # None => Settled(kind, obj)
    BY <1>6 DEF Validate, LabelInv, RequestSettled
  <2> HIDE DEF obj
  <2>3. Quiet /\ obj # None =>
          RequestSettled(kind, [req[kind] EXCEPT !.pc = "writing", !.obj = obj])
    BY <2>2 DEF RequestSettled, Inv, Request
  <2>4. QED
    BY <1>2, <2>1, <2>3
<1>7. ASSUME NEW kind \in Kinds, Write(kind) PROVE InPlan' /\ LabelInv'
  <2>1. /\ req[kind].pc = "writing" /\ kind \in DOMAIN manifest
        /\ \A k \in Kinds : /\ store'[k] = IF k = kind THEN req[kind].obj ELSE store[k]
                            /\ req'[k] = IF k = kind THEN IdleRequest ELSE req[k]
        /\ plan' = plan
    BY <1>7 DEF Write, Inv, RequestFine
  <2>2. Quiet => Settled(kind, req[kind].obj)
    BY <2>1 DEF LabelInv, RequestSettled
  <2>3. RequestSettled(kind, IdleRequest)
    BY DEF RequestSettled, IdleRequest
  <2>4. InPlan'
    BY <2>1 DEF InPlan, manifest
  <2>5. LabelInv'
    BY <2>1, <2>2, <2>3 DEF LabelInv, Quiet, manifest, RequestSettled, Settled, HalfSettled, Bare
  <2>6. QED
    BY <2>4, <2>5
<1>8. ASSUME NEW kind \in Kinds, SkipMutator(kind) PROVE InPlan' /\ LabelInv'
  <2>1. ~Quiet /\ UNCHANGED <<plan, store>>
    BY <1>8 DEF SkipMutator, Proceed, Quiet
  <2>2. QED
    BY <2>1 DEF InPlan, LabelInv, Quiet, manifest
<1>9. CASE UpgradeCluster \/ UpgradeAWSCluster
  <2>1. ~Quiet /\ UNCHANGED plan /\ \A k \in Kinds : store'[k] # None => store[k] # None
    BY <1>9 DEF UpgradeCluster, UpgradeAWSCluster, Quiet, Inv
  <2>2. QED
    BY <2>1 DEF InPlan, LabelInv, Quiet, manifest
<1>10. CASE DeleteCluster \/ UNCHANGED vars
  BY <1>10 DEF DeleteCluster, vars, InPlan, LabelInv, Quiet, manifest, RequestSettled, Settled,
               HalfSettled, Bare
<1>11. ASSUME NEW kind \in Kinds, Mutate(kind) PROVE InPlan' /\ LabelInv'
  BY <1>4, <1>5, <1>11 DEF Mutate
<1>12. QED
  BY <1>3, <1>6, <1>7, <1>8, <1>9, <1>10, <1>11 DEF Next, Serve

-----------------------------------------------------------------------------
(* No label runs ahead of the Cluster.                                     *)

\* An AWSCluster that comes with labels does not come with ones above those of
\* the Cluster: the other AWS CRs copy them.
AWSClusterNotAhead ==
  \A p \in Plans : {Cluster, AWSCluster} \subseteq DOMAIN p.manifest =>
    \A field \in {"release", "operator"} :
      p.manifest[AWSCluster][field] \in {None} \cup 0 .. ClusterRelease(p)

\* The release of the Cluster, or the one it is going to have.
Bound == IF store[Cluster] # None THEN store[Cluster].release ELSE ClusterRelease(plan)
UpTo(v) == v \in {None} \cup 0 .. Bound

\* Labels that an object goes without are not above the bound; an AWSCluster
\* has no others.
NotAhead(kind, obj) ==
  /\ kind = AWSCluster \/ manifest[kind].release = None => UpTo(obj.release)
  /\ kind = AWSCluster \/ manifest[kind].operator = None => UpTo(obj.operator)

\* A Cluster is created once, with the release of its manifest or the default.
RequestAhead(kind, r) ==
  r.pc # "idle" =>
    IF kind # Cluster THEN NotAhead(kind, r.obj)
    ELSE /\ store[Cluster] = None
         /\ r.obj.release \in {None, ClusterRelease(plan)}
         /\ r.pc = "mutating" => r.obj.release = manifest[Cluster].release

NoneAhead ==
  /\ Bound \in Nat /\ ClusterRelease(plan) <= Bound
  /\ \A kind \in Kinds :
       /\ RequestAhead(kind, req[kind])
       /\ kind # Cluster /\ store[kind] # None => NotAhead(kind, store[kind])

AheadInv == Cluster \in DOMAIN manifest => NoneAhead

\* A higher bound bounds all the more.
LEMMA BoundGrows ==
  ASSUME Bound \in Nat, Bound' \in Nat, Bound <= Bound', plan' = plan,
         NEW kind, NEW obj, NotAhead(kind, obj)
  PROVE  NotAhead(kind, obj)'
BY DEF NotAhead, UpTo, manifest

\* What a mutator copies is not above the bound.
LEMMA CopiesUpTo ==
  ASSUME Inv, AheadInv, Cluster \in DOMAIN manifest
  PROVE  /\ \A own \in Nat \cup {None} : own = None =>
              /\ UpTo(LabelFrom(Cluster, own, "release"))
              /\ UpTo(LabelFrom(Cluster, own, "operator"))
              /\ UpTo(LabelFrom(AWSCluster, own, "operator"))
         /\ UpTo(None)
<1>1. Bound \in Nat
  BY DEF AheadInv, NoneAhead
<1>2. store[Cluster] # None =>
        store[Cluster].release = Bound /\ store[Cluster].operator \in {None, Bound}
  BY DEF Inv, Fine, Bound, Kinds
<1>3. store[AWSCluster] # None => UpTo(store[AWSCluster].operator)
  BY DEF AheadInv, NoneAhead, NotAhead, Kinds
<1>4. QED
  BY <1>1, <1>2, <1>3 DEF LabelFrom, UpTo

LEMMA FirstReadNotAhead ==
  ASSUME Inv, AheadInv, Cluster \in DOMAIN manifest, NEW kind \in Kinds \ {Cluster},
         NEW obj \in Object, NotAhead(kind, obj), FirstRead(kind, obj) # None
  PROVE  NotAhead(kind, FirstRead(kind, obj))
<1> DEFINE release == LabelFrom(Cluster, obj.release, "release")
           operator == LabelFrom(Cluster, obj.operator, "operator")
<1>1. obj.release \in Nat \cup {None} /\ obj.operator \in Nat \cup {None}
  BY DEF Object
<1>2. /\ UpTo(obj.release) => UpTo(release)
      /\ UpTo(obj.operator) => UpTo(operator)
  BY <1>1, CopiesUpTo DEF LabelFrom
<1>3. \/ FirstRead(kind, obj) = obj
      \/ FirstRead(kind, obj) = [obj EXCEPT !.release = release]
      \/ FirstRead(kind, obj) = [obj EXCEPT !.release = release, !.operator = operator]
  BY DEF FirstRead, MutateG8s, MutateMD, MutateFromCluster, MutateReleaseVersion, Kinds
<1>4. /\ FirstRead(kind, obj).release \in {obj.release, release}
      /\ FirstRead(kind, obj).operator \in {obj.operator, operator}
  BY <1>3, Zenon DEF Object
<1>5. QED
  BY <1>2, <1>4 DEF NotAhead

LEMMA SecondReadNotAhead ==
  ASSUME Inv, AheadInv, Cluster \in DOMAIN manifest, NEW kind \in {AWSCluster, AWS, AWSMD},
         NEW obj \in Object, NotAhead(kind, obj), MutateOperatorVersion(kind, obj) # None
  PROVE  NotAhead(kind, MutateOperatorVersion(kind, obj))
<1> DEFINE operator == IF kind = AWSCluster THEN Label(obj.operator, obj.release)
                       ELSE LabelFrom(AWSCluster, obj.operator, "operator")
<1>1. MutateOperatorVersion(kind, obj) = [obj EXCEPT !.operator = operator]
  BY DEF MutateOperatorVersion
<1>2. obj.release \in Nat \cup {None} /\ obj.operator \in Nat \cup {None}
  BY DEF Object
<1>3. kind = AWSCluster => UpTo(operator)
  BY <1>2 DEF NotAhead, Label
<1>4. kind # AWSCluster /\ UpTo(obj.operator) => UpTo(operator)
  BY <1>2, CopiesUpTo DEF LabelFrom
<1> HIDE DEF operator
<1>5. /\ [obj EXCEPT !.operator = operator].release = obj.release
      /\ [obj EXCEPT !.operator = operator].operator = operator
  BY DEF Object
<1>6. QED
  BY <1>1, <1>3, <1>4, <1>5 DEF NotAhead

\* The release of the Cluster is settled by its manifest.
LEMMA ClusterReleaseLemma ==
  ASSUME Inv, Cluster \in DOMAIN manifest
  PROVE  /\ ClusterRelease(plan) \in Nat
         /\ manifest[Cluster].release \in {None, ClusterRelease(plan)}
         /\ \A obj \in Object : obj.release = manifest[Cluster].release =>
              MutateCluster(obj).release \in {None, ClusterRelease(plan)}
<1>1. manifest[Cluster].release \in Nat \cup {None}
  BY Manifests DEF Inv, Fine, Object
<1>2. /\ ClusterRelease(plan) \in Nat
      /\ ClusterRelease(plan) = Label(manifest[Cluster].release, Newest)
      /\ manifest[Cluster].release \in {None, ClusterRelease(plan)}
  BY <1>1, ReleasesAssumption DEF ClusterRelease, Label, manifest
<1>3. \A obj \in Object : MutateCluster(obj).release \in {obj.release, Label(obj.release, Newest)}
  BY DEF MutateCluster, Object
<1>4. QED
  BY <1>2, <1>3

LEMMA AheadSteps ==
  ASSUME AWSClusterNotAhead, Inv, AheadInv, [Next]_vars
  PROVE  AheadInv'
<1> SUFFICES ASSUME Cluster \in DOMAIN manifest' PROVE NoneAhead'
  BY DEF AheadInv
<1>0. /\ plan' = plan /\ Cluster \in DOMAIN manifest /\ Inv'
      /\ Bound \in Nat /\ ClusterRelease(plan) <= Bound
      /\ \A kind \in Kinds :
           /\ RequestAhead(kind, req[kind])
           /\ kind # Cluster /\ store[kind] # None => NotAhead(kind, store[kind])
  <2>1. plan' = plan
    BY DEF Next, Serve, Apply, Mutate, Validate, Proceed, Write, SkipMutator, UpgradeCluster,
           UpgradeAWSCluster, DeleteCluster, vars
  <2>2. QED
    BY <2>1, Steps DEF AheadInv, NoneAhead, manifest
<1>1. ASSUME NEW kind \in Kinds, NEW r, store' = store, req' = [req EXCEPT ![kind] = r],
             RequestAhead(kind, r)
      PROVE  NoneAhead'
  <2>1. \A k \in Kinds : req'[k] = IF k = kind THEN r ELSE req[k]
    BY <1>1 DEF Inv
  <2>2. \A k \in Kinds : RequestAhead(k, req'[k])
    BY <1>0, <1>1, <2>1
  <2>3. QED
    BY <1>0, <1>1, <2>2 DEF NoneAhead, RequestAhead, NotAhead, UpTo, Bound, manifest
<1>2. ASSUME NEW kind \in Kinds, NEW pc, NEW obj, Proceed(kind, pc, obj),
             obj # None => RequestAhead(kind, [req[kind] EXCEPT !.pc = pc, !.obj = obj])
      PROVE  NoneAhead'
  <2>1. CASE obj = None
    <3>1. /\ store' = store /\ req' = [req EXCEPT ![kind] = IdleRequest]
          /\ RequestAhead(kind, IdleRequest)
      BY <1>2, <2>1 DEF Proceed, IdleRequest, RequestAhead
    <3>2. QED
      BY <1>1, <3>1
  <2>2. CASE obj # None
    <3>1. store' = store /\ req' = [req EXCEPT ![kind] = [req[kind] EXCEPT !.pc = pc, !.obj = obj]]
      BY <1>2, <2>2 DEF Proceed, Inv
    <3>2. QED
      BY <1>1, <1>2, <2>2, <3>1
  <2>3. QED
    BY <2>1, <2>2
<1>3. ASSUME NEW kind \in Kinds, kind \in DOMAIN manifest
      PROVE  kind # Cluster => NotAhead(kind, manifest[kind])
  <2>1. CASE kind = AWSCluster
    <3>1. \A field \in {"release", "operator"} :
            manifest[kind][field] \in {None} \cup 0 .. ClusterRelease(plan)
      BY <1>0, <1>3, <2>1 DEF AWSClusterNotAhead, Inv, manifest
    <3>2. ClusterRelease(plan) \in Nat /\ ClusterRelease(plan) <= Bound
      BY <1>0, ClusterReleaseLemma
    <3>3. QED
      BY <1>0, <3>1, <3>2 DEF NotAhead, UpTo
  <2>2. CASE kind # AWSCluster
    BY <2>2 DEF NotAhead, UpTo
  <2>3. QED
    BY <2>1, <2>2
<1>4. ASSUME NEW kind \in Kinds, Apply(kind) PROVE NoneAhead'
  <2>1. CASE kind = Cluster
    BY <1>0, <1>1, <1>4, <2>1, ClusterReleaseLemma DEF Apply, RequestAhead
  <2>2. CASE kind # Cluster
    BY <1>1, <1>3, <1>4, <2>2 DEF Apply, RequestAhead
  <2>3. QED
    BY <2>1, <2>2
<1>5. ASSUME NEW kind \in Kinds, req[kind].pc = "mutating", Mutate(kind) PROVE NoneAhead'
  <2> DEFINE obj == FirstRead(kind, req[kind].obj)
             pc == IF ReadsTwice(kind) THEN "labelled" ELSE "validating"
  <2>1. Proceed(kind, pc, obj) /\ req[kind].obj \in Object /\ req[kind] \in Request
    BY <1>5 DEF Mutate, Inv, RequestFine, Fine
  <2>2. CASE kind = Cluster
    <3>1. /\ store[Cluster] = None /\ obj.release \in {None, ClusterRelease(plan)}
          /\ pc # "mutating"
      BY <1>0, <1>5, <2>1, <2>2, ClusterReleaseLemma DEF RequestAhead, FirstRead
    <3> HIDE DEF obj, pc
    <3>2. RequestAhead(kind, [req[kind] EXCEPT !.pc = pc, !.obj = obj])
      BY <2>1, <2>2, <3>1 DEF RequestAhead, Request
    <3>3. QED
      BY <1>2, <2>1, <3>2
  <2>3. CASE kind # Cluster
    <3>1. obj # None => NotAhead(kind, obj)
      BY <1>0, <1>5, <2>1, <2>3, FirstReadNotAhead DEF RequestAhead
    <3> HIDE DEF obj, pc
    <3>2. obj # None => RequestAhead(kind, [req[kind] EXCEPT !.pc = pc, !.obj = obj])
      BY <2>1, <2>3, <3>1 DEF RequestAhead, Request
    <3>3. QED
      BY <1>2, <2>1, <3>2
  <2>4. QED
    BY <2>2, <2>3
<1>6. ASSUME NEW kind \in Kinds, req[kind].pc = "labelled", Mutate(kind) PROVE NoneAhead'
  <2> DEFINE obj == MutateOperatorVersion(kind, req[kind].obj)
  <2>1. /\ Proceed(kind, "validating", obj) /\ req[kind].obj \in Object /\ req[kind] \in Request
        /\ kind \in {AWSCluster, AWS, AWSMD}
    BY <1>6 DEF Mutate, Inv, RequestFine, Fine, ReadsTwice
  <2>2. obj # None => NotAhead(kind, obj)
    BY <1>0, <1>6, <2>1, SecondReadNotAhead DEF RequestAhead, Kinds
  <2> HIDE DEF obj
  <2>3. obj # None => RequestAhead(kind, [req[kind] EXCEPT !.pc = "validating", !.obj = obj])
    BY <2>1, <2>2 DEF RequestAhead, Request
  <2>4. QED
    BY <1>2, <2>1, <2>3
<1>7. ASSUME NEW kind \in Kinds, NEW pc \in {"validating", "writing"}, NEW obj,
             Proceed(kind, pc, obj), req[kind].pc # "idle",
             obj \in {None, req[kind].obj} \/ (kind \in DOMAIN manifest /\ obj = manifest[kind])
      PROVE  NoneAhead'
  <2>1. req[kind] \in Request
    BY DEF Inv
  <2>2. CASE kind = Cluster
    <3>1. obj # None => /\ store[Cluster] = None
                        /\ obj.release \in {None, ClusterRelease(plan)}
      BY <1>0, <1>7, <2>2, ClusterReleaseLemma DEF RequestAhead
    <3>2. obj # None => RequestAhead(kind, [req[kind] EXCEPT !.pc = pc, !.obj = obj])
      BY <1>7, <2>1, <2>2, <3>1 DEF RequestAhead, Request
    <3>3. QED
      BY <1>2, <1>7, <3>2
  <2>3. CASE kind # Cluster
    <3>1. obj # None => NotAhead(kind, obj)
      BY <1>0, <1>3, <1>7, <2>3 DEF RequestAhead
    <3>2. obj # None => RequestAhead(kind, [req[kind] EXCEPT !.pc = pc, !.obj = obj])
      BY <2>1, <2>3, <3>1 DEF RequestAhead, Request
    <3>3. QED
      BY <1>2, <1>7, <3>2
  <2>4. QED
    BY <2>2, <2>3
<1>8. ASSUME NEW kind \in Kinds, Validate(kind) \/ SkipMutator(kind) PROVE NoneAhead'
  BY <1>7, <1>8 DEF Validate, SkipMutator, Inv, RequestFine
\* A CR is written; the bound stays the same or grows.
<1>9. ASSUME NEW kind \in Kinds, NEW obj, store' = [store EXCEPT ![kind] = obj],
             \A k \in Kinds : req'[k].pc # "idle" =>
               req'[k] = req[k] /\ (k = Cluster => kind # Cluster),
             IF kind = Cluster THEN obj # None /\ obj.release \in Nat /\ Bound <= obj.release
                               ELSE NotAhead(kind, obj)
      PROVE  NoneAhead'
  <2>1. \A k \in Kinds : store'[k] = IF k = kind THEN obj ELSE store[k]
    BY <1>9 DEF Inv
  <2>2. /\ Bound' \in Nat /\ Bound <= Bound'
        /\ ClusterRelease(plan)' <= Bound'
    <3>1. CASE kind = Cluster
      <4>1. Bound' = obj.release
        BY <1>9, <2>1, <3>1 DEF Bound, Kinds
      <4>2. ClusterRelease(plan) \in Nat
        BY <1>0, ClusterReleaseLemma
      <4>3. QED
        BY <1>0, <1>9, <3>1, <4>1, <4>2
    <3>2. CASE kind # Cluster
      <4>1. Bound' = Bound
        BY <1>0, <2>1, <3>2 DEF Bound, Kinds
      <4>2. QED
        BY <1>0, <4>1
    <3>3. QED
      BY <3>1, <3>2
  <2>3. \A k \in Kinds : k # Cluster /\ store'[k] # None => NotAhead(k, store[k])'
    <3> SUFFICES ASSUME NEW k \in Kinds, k # Cluster, store'[k] # None
                 PROVE  NotAhead(k, store[k])'
      OBVIOUS
    <3>1. NotAhead(k, store'[k])
      BY <1>0, <1>9, <2>1
    <3>2. QED
      BY <1>0, <2>2, <3>1, BoundGrows
  <2>4. \A k \in Kinds : RequestAhead(k, req[k])'
    <3> SUFFICES ASSUME NEW k \in Kinds, req'[k].pc # "idle"
                 PROVE  RequestAhead(k, req[k])'
      BY DEF RequestAhead
    <3>1. /\ req'[k] = req[k] /\ RequestAhead(k, req[k])
          /\ k = Cluster => kind # Cluster
      BY <1>0, <1>9
    <3>2. CASE k # Cluster
      <4>1. NotAhead(k, req'[k].obj)
        BY <3>1, <3>2 DEF RequestAhead
      <4>2. NotAhead(k, req[k].obj)'
        BY <1>0, <2>2, <4>1, BoundGrows
      <4>3. QED
        BY <3>2, <4>2 DEF RequestAhead
    <3>3. CASE k = Cluster
      BY <1>0, <2>1, <3>1, <3>3 DEF RequestAhead, manifest, Kinds
    <3>4. QED
      BY <3>2, <3>3
  <2>5. QED
    BY <2>2, <2>3, <2>4 DEF NoneAhead
<1>10. ASSUME NEW kind \in Kinds, Write(kind) PROVE NoneAhead'
  <2> DEFINE obj == req[kind].obj
  <2>1. /\ store' = [store EXCEPT ![kind] = obj]
        /\ req[kind].pc # "idle" /\ obj \in Object /\ Released(kind, obj)
        /\ \A k \in Kinds : req'[k].pc # "idle" => k # kind /\ req'[k] = req[k]
    BY <1>10 DEF Write, Inv, RequestFine, Fine, IdleRequest
  <2>2. IF kind = Cluster THEN obj # None /\ obj.release \in Nat /\ Bound <= obj.release
                          ELSE NotAhead(kind, obj)
    <3>1. CASE kind = Cluster
      <4>1. Bound = ClusterRelease(plan) /\ obj.release \in {None, ClusterRelease(plan)}
        BY <1>0, <2>1, <3>1 DEF RequestAhead, Bound
      <4>2. obj # None /\ obj.release = Bound
        BY <2>1, <3>1, <4>1, PlansAssumption DEF Released, NodePool
      <4>3. QED
        BY <1>0, <3>1, <4>2
    <3>2. CASE kind # Cluster
      BY <1>0, <2>1, <3>2 DEF RequestAhead
    <3>3. QED
      BY <3>1, <3>2
  <2> HIDE DEF obj
  <2>3. QED
    BY <1>9, <2>1, <2>2
<1>11. CASE UpgradeCluster
  <2>1. PICK v \in Release :
          /\ v > store[Cluster].release
          /\ store' = [store EXCEPT ![Cluster].release = v, ![Cluster].operator = v]
    BY <1>11 DEF UpgradeCluster
  <2> DEFINE obj == [store[Cluster] EXCEPT !.release = v, !.operator = v]
  <2>2. /\ store[Cluster] # None /\ store[Cluster] \in Object /\ req' = req
        /\ store[Cluster].release = Bound /\ Cluster \in Kinds
    BY <1>11 DEF UpgradeCluster, Inv, Fine, Bound, Kinds
  <2>3. store' = [store EXCEPT ![Cluster] = obj]
    BY <2>1, <2>2 DEF Inv
  <2>4. obj \in Object /\ obj.release = v /\ v \in Nat /\ v > Bound
    BY <2>1, <2>2, ReleasesAssumption DEF Object
  <2>5. obj # None /\ obj.release \in Nat /\ Bound <= obj.release
    BY <1>0, <2>4, PlansAssumption
  <2>6. \A k \in Kinds : req'[k].pc # "idle" => req'[k] = req[k] /\ k # Cluster
    BY <1>0, <2>2 DEF RequestAhead
  <2> HIDE DEF obj
  <2>7. QED
    BY <1>9, <2>2, <2>3, <2>5, <2>6
<1>12. CASE UpgradeAWSCluster
  <2> DEFINE v == store[Cluster].release
             obj == [store[AWSCluster] EXCEPT !.release = v, !.operator = v]
  <2>1. /\ store[AWSCluster] \in Object /\ req' = req /\ v = Bound /\ AWSCluster \in Kinds
        /\ store' = [store EXCEPT ![AWSCluster].release = v, ![AWSCluster].operator = v]
    BY <1>12 DEF UpgradeAWSCluster, Inv, Fine, Bound, Kinds
  <2>2. store' = [store EXCEPT ![AWSCluster] = obj]
    BY <2>1 DEF Inv
  <2>3. obj.release = Bound /\ obj.operator = Bound
    BY <2>1 DEF Object
  <2>4. NotAhead(AWSCluster, obj)
    BY <1>0, <2>3 DEF NotAhead, UpTo
  <2> HIDE DEF obj
  <2>5. QED
    BY <1>9, <2>1, <2>2, <2>4
<1>13. CASE DeleteCluster \/ UNCHANGED vars
  BY <1>0, <1>13 DEF DeleteCluster, vars, NoneAhead, RequestAhead, NotAhead, UpTo, Bound, manifest
<1>14. ASSUME NEW kind \in Kinds, Mutate(kind) PROVE NoneAhead'
  BY <1>5, <1>6, <1>14 DEF Mutate
<1>15. ASSUME NEW kind \in Kinds, Serve(kind) \/ SkipMutator(kind) PROVE NoneAhead'
  BY <1>4, <1>8, <1>10, <1>14, <1>15 DEF Serve
<1>16. QED
  BY <1>11, <1>12, <1>13, <1>15 DEF Next

\* What is stored was applied.
LEMMA InPlanSteps == ASSUME Inv, InPlan, [Next]_vars PROVE InPlan'
<1>1. ASSUME NEW kind \in Kinds, Serve(kind) \/ SkipMutator(kind) PROVE InPlan'
  <2>1. /\ plan' = plan
        /\ \A k \in Kinds : store'[k] # None => store[k] # None \/ (k = kind /\ Write(kind))
    BY <1>1 DEF Serve, Apply, Mutate, Validate, Proceed, Write, SkipMutator, Inv
  <2>2. Write(kind) => kind \in DOMAIN manifest
    BY DEF Write, Inv, RequestFine
  <2>3. QED
    BY <2>1, <2>2 DEF InPlan, manifest
<1>2. CASE UpgradeCluster \/ UpgradeAWSCluster \/ DeleteCluster \/ UNCHANGED vars
  <2>1. /\ plan' = plan
        /\ \A k \in Kinds : store'[k] # None => store[k] # None
    BY <1>2 DEF UpgradeCluster, UpgradeAWSCluster, DeleteCluster, vars, Inv
  <2>2. QED
    BY <2>1 DEF InPlan, manifest
<1>3. QED
  BY <1>1, <1>2 DEF Next

-----------------------------------------------------------------------------
(* The theorems.                                                           *)

\* Whatever upgrades of the Cluster interleave with the creation of a
\* G8sControlPlane or MachineDeployment, its labels are from one copy of it.
THEOREM OneCopy == Spec => []LabelsFromOneCopy
<1>1. Inv => LabelsFromOneCopy
  BY DEF Inv, LabelsFromOneCopy, Fine, Bare, Kinds
<1>2. QED
  BY <1>1, Invariance, PTL

\* Through any number of other CRs, and in whichever order the CRs are applied,
\* the labels a manifest leaves out are those of the Cluster.
THEOREM LabelsAreCopied ==
  ASSUME LabelsOfTheCluster
  PROVE  Spec => []LabelsAgree
<1>1. Init => InPlan /\ LabelInv
  BY DEF Init, InPlan, LabelInv, RequestSettled, IdleRequest
<1>2. Inv /\ InPlan /\ LabelInv /\ [Next]_vars => InPlan' /\ LabelInv'
  BY LabelSteps
<1>3. Inv /\ InPlan /\ LabelInv => LabelsAgree
  BY DEF InPlan, LabelInv, LabelsAgree, Quiet, Settled, Bare, Kinds
<1>4. QED
  BY <1>1, <1>2, <1>3, Invariance, PTL DEF Spec

\* However the reads of the mutators interleave with the upgrades of the Cluster
\* and of the AWSCluster, and whichever calls to mutators are skipped, no CR
\* gets a label its Cluster has not reached.
THEOREM LabelsNeverAhead ==
  ASSUME AWSClusterNotAhead
  PROVE  Spec => []NeverAheadOfCluster
<1>1. Init => InPlan /\ AheadInv
  <2> SUFFICES ASSUME Init PROVE InPlan /\ AheadInv
    OBVIOUS
  <2>1. /\ \A kind \in Kinds : store[kind] = None /\ RequestAhead(kind, req[kind])
        /\ Bound = ClusterRelease(plan)
    BY DEF Init, IdleRequest, RequestAhead, Bound, Kinds
  <2>2. Cluster \in DOMAIN manifest => ClusterRelease(plan) \in Nat
    BY Starts, ClusterReleaseLemma
  <2>3. QED
    BY <2>1, <2>2 DEF InPlan, AheadInv, NoneAhead
<1>2. Inv /\ InPlan /\ AheadInv /\ [Next]_vars => InPlan' /\ AheadInv'
  BY InPlanSteps, AheadSteps
<1>3. Inv /\ InPlan /\ AheadInv => NeverAheadOfCluster
  <2> SUFFICES ASSUME Inv, InPlan, AheadInv, NEW kind \in Kinds \ {Cluster},
                      store[kind] # None, store[Cluster] # None,
                      NEW field \in {"release", "operator"},
                      manifest[kind][field] = None, store[kind][field] # None
               PROVE  store[kind][field] <= store[Cluster].release
    BY DEF NeverAheadOfCluster
  <2>1. /\ Bound \in Nat /\ NotAhead(kind, store[kind])
        /\ Bound = store[Cluster].release
    BY DEF InPlan, AheadInv, NoneAhead, Bound, Kinds
  <2>2. UpTo(store[kind][field])
    BY <2>1 DEF NotAhead
  <2>3. QED
    BY <2>1, <2>2 DEF UpTo
<1>4. QED
  BY <1>1, <1>2, <1>3, Invariance, PTL DEF Spec

\* No CR of the cluster or of the control plane is ever stored without its
\* release, whichever calls to mutators are skipped.
THEOREM AlwaysReleased == Spec => []ReleaseKnown
<1>1. Inv => ReleaseKnown
  BY DEF Inv, ReleaseKnown, Released
<1>2. QED
  BY <1>1, Invariance, PTL

\* No step stores a node pool that was applied after the deletion of its
\* Cluster.
THEOREM LateNodePoolsDenied == Spec => NoLateNodePools
<1> DEFINE Kept(kind) ==
      store[kind] = None /\ store'[kind] # None =>
        ~req[kind].late \/ (kind = MD /\ IsCAPI(store'[kind].release))
<1>1. Inv /\ [Next]_vars => [\A kind \in NodePool : Kept(kind)]_vars
  <2> SUFFICES ASSUME Inv, Next, NEW pool \in NodePool, store[pool] = None, store'[pool] # None
               PROVE  ~req[pool].late \/ (pool = MD /\ IsCAPI(store'[pool].release))
    OBVIOUS
  <2>1. pool \in Kinds /\ pool \notin {Cluster, AWSCluster}
    BY DEF NodePool, Kinds
  <2>2. Write(pool)
    <3>1. ASSUME NEW kind \in Kinds, Serve(kind) \/ SkipMutator(kind)
          PROVE  kind = pool /\ Write(pool)
      BY <3>1, <2>1 DEF Serve, SkipMutator, Apply, Mutate, Validate, Proceed, Write, Inv
    <3>2. ~UpgradeCluster /\ ~UpgradeAWSCluster /\ ~DeleteCluster
      BY <2>1 DEF UpgradeCluster, UpgradeAWSCluster, DeleteCluster, Inv
    <3>3. QED
      BY <3>1, <3>2 DEF Next
  <2>3. store'[pool] = req[pool].obj
    BY <2>1, <2>2 DEF Write, Inv
  <2>4. QED
    BY <2>1, <2>2, <2>3 DEF Write, Inv, RequestFine
<1>2. QED
  BY <1>1, Invariance, PTL DEF Spec, NoLateNodePools
=============================================================================
