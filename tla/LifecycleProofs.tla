-------------------------- MODULE LifecycleProofs --------------------------
(***************************************************************************)
(* Theorems about Lifecycle, for any plans: whatever CRs there are,        *)
(* clients do, and fails.                                                  *)
(***************************************************************************)
EXTENDS Lifecycle, TLAPS

USE DEF Cluster, AWSCluster, G8s, AWS, MD, AWSMD

IsRequest(r) == r = [pc |-> r.pc, op |-> r.op, obj |-> r.obj, wants |-> r.wants]

Shape ==
  /\ plan \in Plans
  /\ secret \in Credentials \cup {None}
  /\ store = [kind \in Kinds |-> store[kind]]
  /\ req = [kind \in Kinds |-> req[kind]]
  /\ \A kind \in Kinds : IsRequest(req[kind])

-----------------------------------------------------------------------------
(* What each step does.  Only the request and the CR of one kind change.   *)

OthersSame(kind) == \A k \in Kinds \ {kind} : req'[k] = req[k] /\ store'[k] = store[k]

\* The fields of an AWSCluster that are filled in stay if they are set; so does
\* the zone of an AWSControlPlane that has one.
Keeps(old, new) ==
  old \in AWSClusterObject =>
    /\ new \in AWSClusterObject
    /\ \A field \in FilledIn : old[field] \in {None, new[field]}
Placed(obj) == {"n", "zone"} \subseteq DOMAIN obj
KeepsZone(old, new) ==
  Placed(old) => Placed(new) /\ new.zone = old.zone /\ (old.n # 0 => new.n # 0)

\* A request comes: a manifest, an edit, or a replacement of the AWSCluster.
Manifest(kind, r) ==
  /\ r.op = "create" /\ store[kind] = None /\ kind \notin marked
  /\ kind \in DOMAIN manifest /\ r.obj = manifest[kind]
Edited(kind, r) ==
  /\ r.op # "replace" /\ store[kind] # None
  /\ r.op = "finalize" => kind \in marked
  /\ kind = AWSCluster => Keeps(store[kind], r.obj)
  /\ kind = AWS => KeepsZone(store[kind], r.obj)
Replaced(kind, r) ==
  /\ r.op = "replace" /\ store[kind] # None
  /\ kind \in DOMAIN manifest /\ store[kind] \in AWSClusterObject => r.obj \in AWSClusterObject
Came(kind) ==
  /\ kind \in {AWSCluster, AWS} => \/ Manifest(kind, req'[kind])
                                   \/ Edited(kind, req'[kind])
                                   \/ kind = AWSCluster /\ Replaced(kind, req'[kind])
  /\ OthersSame(kind)
  /\ UNCHANGED <<store, lapses>>
  /\ req[kind].pc = "idle" /\ req'[kind].pc = "mutating"

\* A webhook lets the request go on, or is skipped, or denies it.
WentOn(kind) ==
  /\ OthersSame(kind)
  /\ store' = store
  /\ req[kind].pc \in {"mutating", "validating"}
  /\ req'[kind].op = req[kind].op
  /\ \/ /\ req[kind].pc = "mutating" /\ req'[kind].pc = "validating"
        /\ \/ req'[kind].obj = req[kind].obj
           \/ \E g8s : req'[kind].obj \in Mutated(kind, req[kind].op, req[kind].obj, g8s)
     \/ /\ req[kind].pc = "validating" /\ req'[kind].pc = "writing"
        /\ req'[kind].obj = req[kind].obj
        /\ \/ "skipValidator" \in lapses'
           \/ \E other : /\ Admitted(kind, req[kind].op, req[kind].obj, other)
                         /\ \/ "readError" \in lapses'
                            \/ kind \in ControlPlane => other = store[Counterpart(kind)]
Denied(kind) ==
  OthersSame(kind) /\ store' = store /\ req'[kind].pc = "idle"

Written(kind) ==
  /\ OthersSame(kind)
  /\ req[kind].pc = "writing" /\ req'[kind].pc = "idle"
  /\ \/ store'[kind] = req[kind].obj
     \/ req[kind].op = "finalize" /\ store'[kind] = None
  /\ Overtakes(kind) => "overtaken" \in lapses'
  /\ req[kind].op = "replace" => "leftOut" \in lapses'

\* What only grows, or stays.
Grows == plan' = plan /\ lapses \subseteq lapses' /\ marked \subseteq marked'

Effect(kind) ==
  Came(kind) \/ WentOn(kind) \/ Denied(kind) \/ Written(kind)

LEMMA SubmitLemma ==
  ASSUME Shape, NEW kind \in Kinds, NEW op, NEW obj, NEW wants, Submit(kind, op, obj, wants),
         kind \in {AWSCluster, AWS} =>
           LET r == [op |-> op, obj |-> obj]
           IN  \/ Manifest(kind, r) \/ Edited(kind, r)
               \/ kind = AWSCluster /\ Replaced(kind, r)
  PROVE  Shape' /\ Grows /\ Effect(kind)
<1>1. /\ Shape' /\ OthersSame(kind) /\ UNCHANGED <<store, lapses>>
      /\ req[kind].pc = "idle" /\ req'[kind].pc = "mutating"
      /\ req'[kind].op = op /\ req'[kind].obj = obj
  BY DEF Submit, Shape, IsRequest, OthersSame
<1>2. Came(kind)
  BY <1>1 DEF Came, Manifest, Edited, Replaced
<1>3. Grows
  BY DEF Submit, Grows
<1>4. QED
  BY <1>1, <1>2, <1>3 DEF Effect

LEMMA ProceedLemma ==
  ASSUME Shape, NEW kind \in Kinds, NEW pc, NEW obj, NEW lapsed, Proceed(kind, pc, obj, lapsed)
  PROVE  /\ Shape' /\ Grows /\ lapses' = lapses \cup lapsed /\ OthersSame(kind) /\ store' = store
         /\ req'[kind].pc = pc /\ req'[kind].obj = obj /\ req'[kind].op = req[kind].op
<1>1. req' = [req EXCEPT ![kind] = [@ EXCEPT !.pc = pc, !.obj = obj]]
  BY DEF Proceed, Shape
<1>2. IsRequest(req[kind])
  BY DEF Shape
<1>3. /\ req'[kind] = [req[kind] EXCEPT !.pc = pc, !.obj = obj]
      /\ \A k \in Kinds \ {kind} : req'[k] = req[k]
      /\ req' = [k \in Kinds |-> req'[k]]
  BY <1>1 DEF Shape
<1>4. req'[kind] = [pc |-> pc, op |-> req[kind].op, obj |-> obj, wants |-> req[kind].wants]
  BY <1>2, <1>3 DEF IsRequest
<1>5. QED
  BY <1>3, <1>4 DEF Proceed, Shape, IsRequest, OthersSame, Grows

LEMMA DenyLemma ==
  ASSUME Shape, NEW kind \in Kinds, NEW lapsed, Deny(kind, lapsed)
  PROVE  Shape' /\ Grows /\ Denied(kind)
BY DEF Deny, Shape, IsRequest, Denied, OthersSame, IdleRequest, Grows

LEMMA FetchLemma ==
  ASSUME NEW source, NEW other, NEW lapsed, Fetch(source, other, lapsed), source # None
  PROVE  other = store[source] \/ "readError" \in lapsed
BY DEF Fetch

LEMMA MutateLemma ==
  ASSUME Shape, NEW kind \in Kinds, Mutate(kind)
  PROVE  Shape' /\ Grows /\ Effect(kind)
<1>1. PICK other, lapsed :
        LET results == Mutated(kind, req[kind].op, req[kind].obj, other)
        IN  (\E obj \in results : Proceed(kind, "validating", obj, lapsed)) \/ Deny(kind, lapsed)
  BY DEF Mutate
<1>2. CASE Deny(kind, lapsed)
  BY <1>2, DenyLemma DEF Effect
<1>3. ASSUME NEW obj \in Mutated(kind, req[kind].op, req[kind].obj, other),
             Proceed(kind, "validating", obj, lapsed)
      PROVE  Shape' /\ Grows /\ Effect(kind)
  <2>1. WentOn(kind)
    BY <1>3, ProceedLemma DEF WentOn, Mutate
  <2>2. QED
    BY <1>3, <2>1, ProceedLemma DEF Effect
<1>4. QED
  BY <1>1, <1>2, <1>3

LEMMA ValidateLemma ==
  ASSUME Shape, NEW kind \in Kinds, Validate(kind)
  PROVE  Shape' /\ Grows /\ Effect(kind)
<1>1. PICK other, lapsed :
        /\ Fetch(Counterpart(kind), other, lapsed)
        /\ IF Admitted(kind, req[kind].op, req[kind].obj, other)
             THEN Proceed(kind, "writing", req[kind].obj, lapsed) ELSE Deny(kind, lapsed)
  BY DEF Validate
<1>2. CASE Deny(kind, lapsed)
  BY <1>2, DenyLemma DEF Effect
<1>3. CASE /\ Admitted(kind, req[kind].op, req[kind].obj, other)
           /\ Proceed(kind, "writing", req[kind].obj, lapsed)
  <2>1. kind \in ControlPlane => Counterpart(kind) # None
    BY LifecycleAssumption DEF ControlPlane, Counterpart, Kinds
  <2>2. "readError" \in lapsed \/ (kind \in ControlPlane => other = store[Counterpart(kind)])
    BY <1>1, <2>1, FetchLemma
  <2>3. WentOn(kind)
    BY <1>3, <2>2, ProceedLemma DEF WentOn, Validate
  <2>4. QED
    BY <1>3, <2>3, ProceedLemma DEF Effect
<1>4. QED
  BY <1>1, <1>2, <1>3

LEMMA SkipLemma ==
  ASSUME Shape, NEW kind \in Kinds, SkipMutator(kind) \/ SkipValidator(kind)
  PROVE  Shape' /\ Grows /\ Effect(kind)
<1>1. CASE SkipMutator(kind)
  BY <1>1, ProceedLemma DEF SkipMutator, WentOn, Effect
<1>2. CASE SkipValidator(kind)
  BY <1>2, ProceedLemma DEF SkipValidator, WentOn, Effect
<1>3. QED
  BY <1>1, <1>2

LEMMA WriteLemma ==
  ASSUME Shape, NEW kind \in Kinds, Write(kind)
  PROVE  Shape' /\ Grows /\ (Denied(kind) \/ Written(kind))
<1>1. /\ req[kind].pc = "writing"
      /\ req' = [req EXCEPT ![kind] = IdleRequest]
      /\ UNCHANGED <<plan, secret, marked>>
  BY DEF Write
<1>2. /\ req' = [k \in Kinds |-> req'[k]]
      /\ \A k \in Kinds : IsRequest(req'[k])
      /\ \A k \in Kinds \ {kind} : req'[k] = req[k]
      /\ req'[kind].pc = "idle"
  BY <1>1 DEF Shape, IsRequest, IdleRequest
<1>3. CASE UNCHANGED <<store, lapses>>
  BY <1>1, <1>2, <1>3 DEF Shape, Denied, OthersSame, Grows
<1>4. CASE /\ store' = [store EXCEPT ![kind] =
                           IF req[kind].op = "finalize" THEN None ELSE req[kind].obj]
           /\ lapses' = lapses \cup (IF Overtakes(kind) THEN {"overtaken"} ELSE {})
                               \cup (IF req[kind].op = "replace" THEN {"leftOut"} ELSE {})
  <2>1. /\ store' = [k \in Kinds |-> store'[k]]
        /\ \A k \in Kinds \ {kind} : store'[k] = store[k]
        /\ \/ store'[kind] = req[kind].obj
           \/ req[kind].op = "finalize" /\ store'[kind] = None
    BY <1>4 DEF Shape
  <2>2. QED
    BY <1>1, <1>2, <1>4, <2>1 DEF Shape, Written, OthersSame, Grows
<1>5. QED
  BY <1>3, <1>4 DEF Write

-----------------------------------------------------------------------------
(* The clients.                                                            *)

\* What an EXCEPT of another field keeps.
LEMMA ExceptKeeps ==
  ASSUME NEW old
  PROVE  /\ Keeps(old, old)
         /\ \A v \in Nat : Keeps(old, [old EXCEPT !.release = v])
         /\ \A v \in Choices : Keeps(old, [old EXCEPT !.alpha = v])
         /\ \A v \in Choices : Keeps(old, [old EXCEPT !.unhealthy = v])
         /\ \A v \in BatchSizes \cup {None} : Keeps(old, [old EXCEPT !.batch = v])
BY DEF Keeps, FilledIn, AWSClusterObject

LEMMA ExceptKeepsZone ==
  ASSUME NEW old, NEW v
  PROVE  /\ KeepsZone(old, old)
         /\ KeepsZone(old, [old EXCEPT !.release = v])
         /\ KeepsZone(old, [old EXCEPT !.id = v])
         /\ v # 0 => KeepsZone(old, [old EXCEPT !.n = v])
BY DEF KeepsZone, Placed

LEMMA ClientLemma ==
  ASSUME Shape, NEW kind \in DOMAIN manifest,
         Apply(kind) \/ Rescue(kind) \/ Finalize(kind)
  PROVE  kind \in Kinds /\ Shape' /\ Grows /\ Effect(kind)
<1>1. kind \in Kinds
  BY LifecycleAssumption DEF Shape, manifest
<1>2. CASE Apply(kind)
  BY <1>1, <1>2, SubmitLemma DEF Apply, Manifest
<1>3. CASE Rescue(kind)
  BY <1>1, <1>3, SubmitLemma, ExceptKeeps, ExceptKeepsZone, LifecycleAssumption
     DEF Rescue, Edited, Stored
<1>4. CASE Finalize(kind)
  BY <1>1, <1>4, SubmitLemma, ExceptKeeps, ExceptKeepsZone DEF Finalize, Edited, Stored
<1>5. QED
  BY <1>1, <1>2, <1>3, <1>4

LEMMA EditLemma ==
  ASSUME Shape, Edit
  PROVE  Shape' /\ Grows /\ \E kind \in Kinds : Effect(kind)
<1> USE DEF Kinds
<1>1. CASE EditLabel
  BY <1>1, SubmitLemma, ExceptKeepsZone DEF EditLabel, ControlPlane, Edited, Stored
<1>2. CASE EditZones
  <2>1. PICK n \in {1, 3} :
          Stored(AWS) /\ Submit(AWS, "update", [store[AWS] EXCEPT !.n = n], None)
    BY <1>2 DEF EditZones
  <2>2. n # 0
    BY <2>1
  <2>3. KeepsZone(store[AWS], [store[AWS] EXCEPT !.n = n])
    BY <2>2, ExceptKeepsZone
  <2>4. QED
    BY <2>1, <2>3, SubmitLemma DEF Edited, Stored
<1>3. CASE EditScaling
  BY <1>3, SubmitLemma DEF EditScaling
<1>4. CASE Upgrade
  <2>1. PICK kind \in {AWSCluster, AWS}, release \in Release :
          /\ Stored(kind)
          /\ Submit(kind, "update", [store[kind] EXCEPT !.release = release], None)
    BY <1>4 DEF Upgrade
  <2>2. release \in Nat
    BY <2>1, LifecycleAssumption
  <2>3. /\ Keeps(store[kind], [store[kind] EXCEPT !.release = release])
        /\ KeepsZone(store[kind], [store[kind] EXCEPT !.release = release])
    BY <2>2, ExceptKeeps, ExceptKeepsZone
  <2>4. QED
    BY <2>1, <2>3, SubmitLemma DEF Edited, Stored
<1>5. CASE EditUnhealthy
  <2>1. PICK v \in {"true", "false"} :
          /\ Stored(AWSCluster)
          /\ \/ Submit(AWSCluster, "update", [store[AWSCluster] EXCEPT !.alpha = v], v)
             \/ Submit(AWSCluster, "update", [store[AWSCluster] EXCEPT !.unhealthy = v], v)
    BY <1>5 DEF EditUnhealthy
  <2>2. v \in Choices
    BY <2>1 DEF Choices
  <2>3. /\ Keeps(store[AWSCluster], [store[AWSCluster] EXCEPT !.alpha = v])
        /\ Keeps(store[AWSCluster], [store[AWSCluster] EXCEPT !.unhealthy = v])
    BY <2>2, ExceptKeeps
  <2>4. QED
    BY <2>1, <2>3, SubmitLemma DEF Edited, Stored
<1>6. CASE EditBatch
  <2>1. PICK size \in {[unit |-> "count", n |-> 0], [unit |-> "percent", n |-> 50], None} :
          /\ Stored(AWSCluster)
          /\ Submit(AWSCluster, "update", [store[AWSCluster] EXCEPT !.batch = size], None)
    BY <1>6 DEF EditBatch
  <2>2. size \in BatchSizes \cup {None}
    BY DEF BatchSizes
  <2>3. QED
    BY <2>1, <2>2, SubmitLemma, ExceptKeeps DEF Edited, Stored
<1>7. CASE Replace
  <2> DEFINE obj == [store[AWSCluster] EXCEPT !.zone = manifest[AWSCluster].zone,
                                              !.credential = None]
  <2>1. AWSCluster \in DOMAIN manifest /\ store[AWSCluster] \in AWSClusterObject =>
          obj \in AWSClusterObject
    BY LifecycleAssumption DEF Shape, manifest, AWSClusterObject
  <2>2. QED
    BY <1>7, <2>1, SubmitLemma DEF Replace, Replaced, Stored
<1>8. QED
  BY <1>1, <1>2, <1>3, <1>4, <1>5, <1>6, <1>7 DEF Edit

Quiet == UNCHANGED <<store, req, lapses>>

LEMMA Steps ==
  ASSUME Shape, [Next]_vars
  PROVE  /\ Shape' /\ Grows
         /\ Quiet \/ \E kind \in Kinds : Effect(kind)
<1>1. ASSUME NEW kind \in DOMAIN manifest,
             \/ Apply(kind) \/ Rescue(kind) \/ Serve(kind)
             \/ SkipMutator(kind) \/ SkipValidator(kind)
      PROVE  kind \in Kinds /\ Shape' /\ Grows /\ Effect(kind)
  <2>1. kind \in Kinds
    BY LifecycleAssumption DEF Shape, manifest
  <2>2. CASE Apply(kind) \/ Rescue(kind) \/ Finalize(kind)
    BY <2>2, ClientLemma
  <2>3. CASE Mutate(kind) \/ Validate(kind) \/ Write(kind)
    BY <2>1, <2>3, MutateLemma, ValidateLemma, WriteLemma DEF Effect
  <2>4. CASE SkipMutator(kind) \/ SkipValidator(kind)
    BY <2>1, <2>4, SkipLemma
  <2>5. QED
    BY <1>1, <2>2, <2>3, <2>4 DEF Serve
<1>2. CASE Edit
  BY <1>2, EditLemma
<1>3. ASSUME (\E kind \in DOMAIN manifest : Delete(kind)) \/ DeleteOrganization \/ ChangeSecret
      PROVE  Shape' /\ Grows /\ Quiet
  BY <1>3 DEF Delete, DeleteOrganization, ChangeSecret, Shape, IsRequest, Quiet, Grows,
              Credentials
<1>4. CASE UNCHANGED vars
  BY <1>4 DEF vars, Shape, IsRequest, Quiet, Grows
<1>5. QED
  BY <1>1, <1>2, <1>3, <1>4 DEF Next

LEMMA ShapeStarts == Init => Shape
BY DEF Init, Shape, IsRequest, IdleRequest, Credentials

-----------------------------------------------------------------------------
(* The two CRs of a control plane.                                         *)

Calm == lapses \cap {"readError", "skipValidator", "overtaken"} = {}

\* What has been validated still fits the other CR.
Pending ==
  /\ req[G8s].pc = "writing" /\ store[AWS] # None => req[G8s].obj.n = store[AWS].n
  /\ req[AWS].pc = "writing" /\ store[G8s] # None => req[AWS].obj.id = store[G8s].id

Near ==
  store[G8s] # None /\ store[AWS] # None =>
    store[G8s].id = store[AWS].id \/ store[G8s].n = store[AWS].n

PairInv == Calm => Near /\ Pending

LEMMA PairStep ==
  ASSUME Shape, PairInv, [Next]_vars
  PROVE  PairInv'
<1> SUFFICES ASSUME Calm' PROVE Near' /\ Pending'
  BY DEF PairInv
<1>1. Calm /\ Near /\ Pending
  BY Steps DEF Calm, PairInv, Grows
<1>2. CASE Quiet
  BY <1>1, <1>2 DEF Quiet, Near, Pending
<1>3. ASSUME NEW kind \in Kinds, Effect(kind)
      PROVE  Near' /\ Pending'
  <2>1. CASE kind \notin ControlPlane
    BY <1>1, <1>3, <2>1 DEF Effect, Came, WentOn, Denied, Written, OthersSame,
                            ControlPlane, Kinds, Near, Pending
  <2>2. CASE kind \in ControlPlane /\ (Came(kind) \/ Denied(kind))
    BY <1>1, <2>2 DEF Came, Denied, OthersSame, ControlPlane, Kinds, Near, Pending
  <2>3. CASE kind = G8s /\ WentOn(kind)
    <3>1. req'[G8s].pc = "writing" /\ store[AWS] # None => req'[G8s].obj.n = store[AWS].n
      BY <2>3 DEF WentOn, Calm, Admitted, ValidateG8s, ControlPlane, Counterpart
    <3>2. QED
      BY <1>1, <2>3, <3>1 DEF WentOn, OthersSame, Kinds, Near, Pending
  <2>4. CASE kind = AWS /\ WentOn(kind)
    <3>1. req'[AWS].pc = "writing" /\ store[G8s] # None => req'[AWS].obj.id = store[G8s].id
      BY <2>4 DEF WentOn, Calm, Admitted, ValidateAWS, ControlPlane, Counterpart
    <3>2. QED
      BY <1>1, <2>4, <3>1 DEF WentOn, OthersSame, Kinds, Near, Pending
  <2>5. CASE kind = G8s /\ Written(kind)
    <3>1. req'[AWS].pc # "writing" /\ req'[G8s].pc = "idle"
      BY <2>5 DEF Written, Calm, Overtakes, ControlPlane, Counterpart, OthersSame, Kinds
    <3>2. store'[AWS] = store[AWS] /\ store'[G8s] \in {None, req[G8s].obj} /\ req[G8s].pc = "writing"
      BY <2>5 DEF Written, OthersSame, Kinds
    <3>3. QED
      BY <1>1, <3>1, <3>2 DEF Near, Pending
  <2>6. CASE kind = AWS /\ Written(kind)
    <3>1. req'[G8s].pc # "writing" /\ req'[AWS].pc = "idle"
      BY <2>6 DEF Written, Calm, Overtakes, ControlPlane, Counterpart, OthersSame, Kinds
    <3>2. store'[G8s] = store[G8s] /\ store'[AWS] \in {None, req[AWS].obj} /\ req[AWS].pc = "writing"
      BY <2>6 DEF Written, OthersSame, Kinds
    <3>3. QED
      BY <1>1, <3>1, <3>2 DEF Near, Pending
  <2>7. QED
    BY <1>3, <2>1, <2>2, <2>3, <2>4, <2>5, <2>6 DEF Effect, ControlPlane
<1>4. QED
  BY <1>2, <1>3, Steps

\* Without a lapse, the two CRs of a control plane never disagree in both
\* their label and their number of masters: whatever clients write, an update
\* of one of them is admitted that repairs it or removes its finalizers.
THEOREM PairNeverBothApart == Spec => []NeverBothApart
<1>1. Init => Shape /\ PairInv
  BY ShapeStarts DEF Init, PairInv, Near, Pending, IdleRequest, Kinds
<1>2. Shape /\ PairInv /\ [Next]_vars => (Shape /\ PairInv)'
  BY Steps, PairStep
<1>3. Shape /\ PairInv => NeverBothApart
  BY DEF PairInv, Calm, Near, NeverBothApart, Stored
<1>4. QED
  BY <1>1, <1>2, <1>3, PTL DEF Spec

-----------------------------------------------------------------------------
(* What is filled in.                                                      *)

\* The stored AWSCluster is typed, and a request that does not replace it has
\* its fields.
FilledInv ==
  LET r == req[AWSCluster]
      stored == store[AWSCluster]
  IN  /\ stored # None => AWSCluster \in DOMAIN manifest /\ stored \in AWSClusterObject
      /\ r.pc # "idle" =>
           /\ AWSCluster \in DOMAIN manifest /\ r.obj \in AWSClusterObject
           /\ stored # None /\ r.op # "replace" =>
                \A field \in FilledIn : stored[field] \in {None, r.obj[field]}

LEMMA MutateKeeps ==
  ASSUME Shape, NEW op, NEW obj, NEW new \in MutateAWSCluster(op, obj)
  PROVE  Keeps(obj, new)
<1> DEFINE moved == IF op = "create" THEN MutateCredential(obj)
                    ELSE MutateAnnotationNodeTerminateUnhealthy(MutateCredential(obj))
<1>1. Keeps(obj, MutateCredential(obj))
  BY DEF MutateCredential, Keeps, FilledIn, AWSClusterObject, Shape, DefaultCredential,
         Credentials
<1>2. \A o : Keeps(o, MutateAnnotationNodeTerminateUnhealthy(o))
  <2>1. ASSUME NEW o
        PROVE  \A v \in Choices : Keeps(o, [o EXCEPT !.alpha = None, !.unhealthy = v])
    BY DEF Keeps, FilledIn, AWSClusterObject
  <2>2. "true" \in Choices /\ "false" \in Choices
    BY DEF Choices
  <2>3. QED
    BY <2>1, <2>2, ExceptKeeps DEF MutateAnnotationNodeTerminateUnhealthy
<1>3. Keeps(obj, moved)
  BY <1>1, <1>2 DEF Keeps
<1>4. new \in MutateMasterPreHA(moved)
  BY DEF MutateAWSCluster
<1>5. Keeps(moved, new)
  <2> HIDE DEF moved
  <2>1. CASE new = moved
    BY <2>1, ExceptKeeps
  <2>2. CASE moved.zone = None /\ \E z \in Zone : new = [moved EXCEPT !.zone = z]
    BY <2>2 DEF Keeps, FilledIn, AWSClusterObject
  <2>3. QED
    BY <1>4, <2>1, <2>2 DEF MutateMasterPreHA
<1>6. QED
  BY <1>3, <1>5 DEF Keeps

LEMMA FilledStep ==
  ASSUME Shape, FilledInv, [Next]_vars
  PROVE  FilledInv'
<1>1. CASE Quiet
  BY <1>1, Steps DEF Quiet, FilledInv, Grows, manifest
<1>2. ASSUME NEW kind \in Kinds \ {AWSCluster}, Effect(kind)
      PROVE  FilledInv'
  BY <1>2, Steps DEF Effect, Came, WentOn, Denied, Written, OthersSame, FilledInv, Kinds,
                     Grows, manifest
<1>3. CASE Came(AWSCluster)
  <2>1. CASE Manifest(AWSCluster, req'[AWSCluster])
    BY <1>3, <2>1, Steps, LifecycleAssumption
       DEF Came, Manifest, FilledInv, Shape, manifest, Grows
  <2>2. CASE Edited(AWSCluster, req'[AWSCluster])
    BY <1>3, <2>2, Steps DEF Came, Edited, FilledInv, Keeps, Grows, manifest
  <2>3. CASE Replaced(AWSCluster, req'[AWSCluster])
    BY <1>3, <2>3, Steps DEF Came, Replaced, FilledInv, Grows, manifest
  <2>4. QED
    BY <1>3, <2>1, <2>2, <2>3 DEF Came
<1>4. CASE WentOn(AWSCluster)
  <2>1. Keeps(req[AWSCluster].obj, req'[AWSCluster].obj)
    BY <1>4, MutateKeeps, ExceptKeeps DEF WentOn, Mutated
  <2>2. QED
    BY <1>4, <2>1, Steps DEF WentOn, FilledInv, Keeps, Grows, manifest
<1>5. CASE Denied(AWSCluster)
  BY <1>5, Steps DEF Denied, FilledInv, Grows, manifest
<1>6. CASE Written(AWSCluster)
  BY <1>6, Steps DEF Written, FilledInv, Grows, manifest
<1>7. QED
  BY <1>1, <1>2, <1>3, <1>4, <1>5, <1>6, Steps DEF Effect

\* No step changes the zone of the master or the credentials of a stored
\* AWSCluster once they are set, unless a client has left them out.
THEOREM FilledInStays == Spec => FilledInOnce
<1> DEFINE Kept ==
      Stored(AWSCluster) /\ store'[AWSCluster] # None =>
        \A field \in FilledIn :
          store[AWSCluster][field] \in {None, store'[AWSCluster][field]} \/ "leftOut" \in lapses'
<1>1. Init => Shape /\ FilledInv
  BY ShapeStarts DEF Init, FilledInv, IdleRequest, Kinds
<1>2. Shape /\ FilledInv /\ [Next]_vars => (Shape /\ FilledInv)'
  BY Steps, FilledStep
<1>3. Shape /\ FilledInv /\ [Next]_vars => [Kept]_vars
  <2> SUFFICES ASSUME Shape, FilledInv, Next PROVE Kept
    OBVIOUS
  <2>1. CASE store'[AWSCluster] = store[AWSCluster]
    BY <2>1
  <2>2. CASE Written(AWSCluster)
    BY <2>2 DEF Written, FilledInv, Stored
  <2>3. store'[AWSCluster] = store[AWSCluster] \/ Written(AWSCluster)
    BY Steps DEF Effect, Came, WentOn, Denied, Written, OthersSame, Quiet, Kinds
  <2>4. QED
    BY <2>1, <2>2, <2>3
<1>4. QED
  BY <1>1, <1>2, <1>3, PTL DEF Spec, FilledInOnce

-----------------------------------------------------------------------------
(* The zone of the master before HA masters.                               *)

LeftOpen == manifest[AWS].n = 0 /\ ~IsHAVersion(manifest[AWS].release)
Unlapsed == lapses \cap {"skipValidator", "leftOut"} = {}

\* The AWSCluster has gone for good, or has this zone.
AWSClusterGone ==
  store[AWSCluster] = None /\ AWSCluster \in marked /\ req[AWSCluster].pc = "idle"
HasZone(zone) ==
  AWSClusterGone \/ (store[AWSCluster] # None /\ store[AWSCluster].zone = zone)

\* The zone of an AWSControlPlane is chosen, and is that of the AWSCluster.
Chosen(obj) == Placed(obj) /\ obj.n # 0 /\ obj.zone \in Zone
Settled(obj) == Chosen(obj) /\ HasZone(obj.zone)

FinalizeInv ==
  req[AWSCluster].pc # "idle" /\ req[AWSCluster].op = "finalize" => AWSCluster \in marked

\* A request starts as the manifest, with nothing chosen, or as the settled CR;
\* whatever becomes of it, only what is settled gets past the validator.
Master(stored, r) ==
  /\ stored # None => Settled(stored)
  /\ r.pc = "mutating" =>
       \/ r.op = "create" /\ AWS \in DOMAIN manifest /\ r.obj = manifest[AWS]
       \/ Settled(r.obj)
  /\ r.pc = "validating" /\ r.obj.n # 0 /\ r.obj.zone \in Zone => Settled(r.obj)
  /\ r.pc = "writing" => Settled(r.obj)
MasterInv == LeftOpen /\ Unlapsed => Master(store[AWS], req[AWS])

LEMMA FinalizeStep ==
  ASSUME Shape, FinalizeInv, [Next]_vars
  PROVE  FinalizeInv'
BY Steps DEF FinalizeInv, Quiet, Grows, Effect, Came, Manifest, Edited, Replaced,
             WentOn, Denied, Written, OthersSame, Kinds

\* No step takes the AWSCluster to another zone.
LEMMA ZoneStays ==
  ASSUME Shape, FilledInv, FinalizeInv, [Next]_vars, Unlapsed',
         NEW zone \in Zone, HasZone(zone)
  PROVE  HasZone(zone)'
<1>1. zone # None
  BY LifecycleAssumption
<1>2. CASE Quiet \/ \E kind \in Kinds \ {AWSCluster} : Effect(kind)
  BY <1>2, Steps DEF Quiet, Grows, HasZone, AWSClusterGone, Effect, Came, WentOn, Denied,
                     Written, OthersSame, Kinds
<1>3. CASE Came(AWSCluster)
  BY <1>3 DEF Came, Manifest, Edited, Replaced, HasZone, AWSClusterGone
<1>4. CASE WentOn(AWSCluster)
  BY <1>4 DEF WentOn, HasZone, AWSClusterGone
<1>5. CASE Denied(AWSCluster)
  BY <1>5, Steps DEF Denied, Grows, HasZone, AWSClusterGone
<1>6. CASE Written(AWSCluster)
  <2>1. req[AWSCluster].pc = "writing" /\ req[AWSCluster].op # "replace"
    BY <1>6 DEF Written, Unlapsed
  <2>2. store[AWSCluster] # None /\ store[AWSCluster].zone = zone
    BY <2>1 DEF HasZone, AWSClusterGone
  <2>3. req[AWSCluster].obj # None /\ req[AWSCluster].obj.zone = zone
    BY <1>1, <2>1, <2>2, LifecycleAssumption DEF FilledInv, FilledIn
  <2>4. CASE store'[AWSCluster] = req[AWSCluster].obj
    BY <2>3, <2>4 DEF HasZone
  <2>5. CASE req[AWSCluster].op = "finalize" /\ store'[AWSCluster] = None
    BY <1>6, <2>1, <2>5, Steps DEF Written, FinalizeInv, Grows, HasZone, AWSClusterGone
  <2>6. QED
    BY <1>6, <2>4, <2>5 DEF Written
<1>7. QED
  BY <1>2, <1>3, <1>4, <1>5, <1>6, Steps DEF Effect

\* The mutator leaves a zone that is chosen, and chooses that of the AWSCluster.
LEMMA MutateAWSLemma ==
  ASSUME NEW obj, NEW g8s, NEW new \in MutateAWS(obj, g8s)
  PROVE  /\ obj.n # 0 => new = obj
         /\ obj.n = 0 /\ ~IsHAVersion(obj.release) /\ Placed(obj) =>
              Placed(new) /\ store[AWSCluster] # None /\ new.zone = store[AWSCluster].zone
BY DEF MutateAWS, MutatePreHA, Placed

\* What an action makes of the AWSControlPlane is settled, if seen from before.
LEMMA MasterEffect ==
  ASSUME Shape, LeftOpen, Unlapsed', Master(store[AWS], req[AWS]), Effect(AWS)
  PROVE  Master(store'[AWS], req'[AWS])
<1> USE DEF Master
<1>1. CASE Came(AWS)
  <2>1. CASE Manifest(AWS, req'[AWS])
    BY <1>1, <2>1 DEF Came, Manifest
  <2>2. CASE Edited(AWS, req'[AWS])
    BY <1>1, <2>2 DEF Came, Edited, KeepsZone, Settled, Chosen
  <2>3. QED
    BY <1>1, <2>1, <2>2 DEF Came
<1>2. CASE WentOn(AWS) /\ req[AWS].pc = "mutating"
  <2>1. /\ store' = store /\ req'[AWS].pc = "validating"
        /\ \/ req'[AWS].obj = req[AWS].obj
           \/ \E g8s : req'[AWS].obj \in MutateAWS(req[AWS].obj, g8s)
    BY <1>2 DEF WentOn, Mutated
  <2>2. CASE Settled(req[AWS].obj)
    BY <1>2, <2>1, <2>2, MutateAWSLemma DEF Settled, Chosen
  <2>3. CASE AWS \in DOMAIN manifest /\ req[AWS].obj = manifest[AWS]
    <3>1. Placed(manifest[AWS])
      BY <2>3, LifecycleAssumption DEF Shape, manifest, Placed
    <3>2. QED
      BY <1>2, <2>1, <2>3, <3>1, MutateAWSLemma DEF LeftOpen, Settled, Chosen, HasZone
  <2>4. QED
    BY <1>2, <2>2, <2>3
<1>3. CASE WentOn(AWS) /\ req[AWS].pc = "validating"
  <2>1. PICK other : Admitted(AWS, req[AWS].op, req[AWS].obj, other)
    BY <1>3 DEF WentOn, Unlapsed
  <2>2. req[AWS].obj.n # 0 /\ req[AWS].obj.zone \in Zone
    BY <2>1 DEF Admitted, ValidateAWS, ValidCount
  <2>3. QED
    BY <1>3, <2>2 DEF WentOn
<1>4. CASE Denied(AWS)
  BY <1>4 DEF Denied
<1>5. CASE Written(AWS)
  BY <1>5 DEF Written
<1>6. QED
  BY <1>1, <1>2, <1>3, <1>4, <1>5 DEF Effect, WentOn

LEMMA MasterStep ==
  ASSUME Shape, FilledInv, FinalizeInv, MasterInv, [Next]_vars
  PROVE  MasterInv'
<1> SUFFICES ASSUME LeftOpen', Unlapsed' PROVE Master(store[AWS], req[AWS])'
  BY DEF MasterInv
<1>1. manifest' = manifest /\ LeftOpen /\ Unlapsed
  BY Steps DEF Unlapsed, LeftOpen, Grows, manifest
<1>2. Master(store[AWS], req[AWS])
  BY <1>1 DEF MasterInv
<1>3. Master(store'[AWS], req'[AWS])
  <2>1. CASE Quiet \/ \E kind \in Kinds \ {AWS} : Effect(kind)
    BY <1>2, <2>1 DEF Quiet, Effect, Came, WentOn, Denied, Written, OthersSame, Kinds
  <2>2. CASE Effect(AWS)
    BY <1>1, <1>2, <2>2, MasterEffect
  <2>3. QED
    BY <2>1, <2>2, Steps
<1>4. \A obj : Settled(obj) => Settled(obj)'
  BY ZoneStays DEF Settled, Chosen
<1>5. QED
  BY <1>1, <1>3, <1>4 DEF Master

\* Before HA masters, an AWSControlPlane whose zones were left to the webhook has
\* the zone of the AWSCluster as long as both are there, in whichever order
\* they come and whatever mutating calls are skipped.
THEOREM MasterZonesStayTogether == Spec => []MasterZonesAgree
<1> DEFINE IInv == Shape /\ FilledInv /\ FinalizeInv /\ MasterInv
<1>1. Init => IInv
  BY ShapeStarts
     DEF Init, FilledInv, FinalizeInv, MasterInv, Master, IdleRequest, Kinds
<1>2. IInv /\ [Next]_vars => IInv'
  BY Steps, FilledStep, FinalizeStep, MasterStep
<1>3. IInv => MasterZonesAgree
  BY DEF MasterInv, Master, LeftOpen, Unlapsed, Settled, HasZone, AWSClusterGone,
         MasterZonesAgree, Stored
<1>4. QED
  <2> HIDE DEF IInv
  <2> QED
    BY <1>1, <1>2, <1>3, PTL DEF Spec

-----------------------------------------------------------------------------
(* What clients choose for unhealthy nodes.                                *)

\* A manifest has the old annotation only in releases that read it, with one of
\* the two values that mean something: only updates move it.
AlphaBeforeStable ==
  \A p \in Plans : AWSCluster \in DOMAIN p.manifest =>
    LET obj == p.manifest[AWSCluster]
    IN  obj.alpha # None =>
          obj.alpha \in {"true", "false"} /\ obj.release # None /\ obj.release < FirstStable

\* What an AWSCluster says: the old annotation replaces the new one.
Effective(obj) == IF obj.alpha # None THEN obj.alpha ELSE obj.unhealthy
Binary(obj) == obj.alpha \in {None, "true", "false"}

\* The annotation is the one its release reads.
Moved(obj) == obj.release # None /\ (obj.release < FirstStable \/ obj.alpha = None)

StoredChoice ==
  LET stored == store[AWSCluster] IN
  /\ stored = None /\ AWSCluster \notin marked => choice = None
  /\ stored # None => Binary(stored) /\ Moved(stored) /\ Effective(stored) = choice

RequestChoice(r) ==
  r.pc # "idle" /\ r.op # "finalize" =>
    /\ Binary(r.obj) /\ Effective(r.obj) = IF r.wants = None THEN choice ELSE r.wants
    /\ r.pc \in {"validating", "writing"} => Moved(r.obj)
    /\ r.op = "create" /\ r.obj.release # None => Moved(r.obj)

\* Only requests for the AWSCluster want something.
WantsInv == \A kind \in Kinds \ {AWSCluster} : req[kind].wants = None

ChoiceInv == "skipMutator" \notin lapses => StoredChoice /\ RequestChoice(req[AWSCluster])

LEMMA MutateChoice ==
  ASSUME NEW op, NEW obj \in AWSClusterObject, NEW new \in MutateAWSCluster(op, obj),
         Binary(obj), op = "create" /\ obj.release # None => Moved(obj), secret \in Credentials \cup {None}
  PROVE  Binary(new) /\ Moved(new) /\ Effective(new) = Effective(obj)
<1> DEFINE filled == MutateCredential(obj)
           moved == IF op = "create" THEN filled
                    ELSE MutateAnnotationNodeTerminateUnhealthy(filled)
<1>1. obj.release # None /\ new \in MutateMasterPreHA(moved)
  BY DEF MutateAWSCluster
<1>2. /\ filled \in AWSClusterObject /\ filled.alpha = obj.alpha
      /\ filled.unhealthy = obj.unhealthy /\ filled.release = obj.release
  BY DEF MutateCredential, AWSClusterObject, DefaultCredential, Credentials
<1>3. moved \in AWSClusterObject /\ Binary(moved) /\ Moved(moved) /\ Effective(moved) = Effective(obj)
  <2> HIDE DEF filled
  <2>1. CASE op = "create"
    BY <1>1, <1>2, <2>1 DEF Binary, Moved, Effective
  <2>2. CASE op # "create" /\ (filled.release < FirstStable \/ filled.alpha = None)
    BY <1>1, <1>2, <2>2 DEF MutateAnnotationNodeTerminateUnhealthy, Binary, Moved, Effective
  <2>3. CASE op # "create" /\ ~(filled.release < FirstStable \/ filled.alpha = None)
    <3> DEFINE v == IF filled.alpha = "false" THEN "false" ELSE "true"
    <3>1. moved = [filled EXCEPT !.alpha = None, !.unhealthy = v]
      BY <2>3 DEF MutateAnnotationNodeTerminateUnhealthy
    <3>2. v = filled.alpha /\ v \in Choices
      BY <1>2, <2>3 DEF Binary, Choices
    <3> HIDE DEF v, moved
    <3>3. QED
      BY <1>1, <1>2, <2>3, <3>1, <3>2 DEF AWSClusterObject, Binary, Moved, Effective
  <2>4. QED
    BY <2>1, <2>2, <2>3
<1> HIDE DEF moved
<1>4. new = moved \/ \E z \in Zone : new = [moved EXCEPT !.zone = z]
  BY <1>1 DEF MutateMasterPreHA
<1>5. new.alpha = moved.alpha /\ new.unhealthy = moved.unhealthy /\ new.release = moved.release
  BY <1>3, <1>4 DEF AWSClusterObject
<1>6. QED
  BY <1>3, <1>5 DEF Binary, Moved, Effective

\* A request comes.
LEMMA SubmitChoice ==
  ASSUME Shape, WantsInv, ChoiceInv, NEW kind \in Kinds, NEW op, NEW obj, NEW wants,
         Submit(kind, op, obj, wants),
         kind # AWSCluster => wants = None,
         kind = AWSCluster /\ "skipMutator" \notin lapses =>
           RequestChoice([pc |-> "mutating", op |-> op, obj |-> obj, wants |-> wants])
  PROVE  WantsInv' /\ ChoiceInv'
<1> DEFINE r == [pc |-> "mutating", op |-> op, obj |-> obj, wants |-> wants]
<1>1. /\ \A k \in Kinds : req'[k] = IF k = kind THEN r ELSE req[k]
      /\ UNCHANGED <<store, marked, choice, lapses>>
  BY DEF Submit, Shape
<1>2. r.wants = wants
  OBVIOUS
<1> HIDE DEF r
<1>3. WantsInv'
  BY <1>1, <1>2 DEF WantsInv
<1>4. "skipMutator" \notin lapses => RequestChoice(req'[AWSCluster])
  BY <1>1 DEF ChoiceInv, Kinds, r
<1>5. ChoiceInv'
  BY <1>1, <1>4 DEF ChoiceInv, StoredChoice, RequestChoice
<1>6. QED
  BY <1>3, <1>5

\* A webhook answers.
LEMMA ProceedChoice ==
  ASSUME Shape, WantsInv, ChoiceInv, NEW kind \in Kinds, NEW pc, NEW obj, NEW lapsed,
         Proceed(kind, pc, obj, lapsed),
         kind = AWSCluster /\ "skipMutator" \notin lapses \cup lapsed =>
           RequestChoice([req[kind] EXCEPT !.pc = pc, !.obj = obj])
  PROVE  WantsInv' /\ ChoiceInv'
<1> DEFINE r == [req[kind] EXCEPT !.pc = pc, !.obj = obj]
<1>1. /\ req' = [req EXCEPT ![kind] = r]
      /\ UNCHANGED <<store, marked, choice>> /\ lapses' = lapses \cup lapsed
  BY DEF Proceed, Shape
<1>2. IsRequest(req[kind]) /\ r.wants = req[kind].wants
  <2>1. IsRequest(req[kind])
    BY DEF Shape
  <2>2. QED
    BY <2>1, Zenon DEF IsRequest
<1> HIDE DEF r
<1>3. \A k \in Kinds : req'[k] = IF k = kind THEN r ELSE req[k]
  BY <1>1 DEF Shape
<1>4. WantsInv'
  BY <1>2, <1>3 DEF WantsInv
<1>5. "skipMutator" \notin lapses' => RequestChoice(req'[AWSCluster])
  BY <1>1, <1>3 DEF ChoiceInv, Kinds, r
<1>6. ChoiceInv'
  BY <1>1, <1>5 DEF ChoiceInv, StoredChoice, RequestChoice
<1>7. QED
  BY <1>4, <1>6

LEMMA DenyChoice ==
  ASSUME Shape, WantsInv, ChoiceInv, NEW kind \in Kinds, NEW lapsed, Deny(kind, lapsed)
  PROVE  WantsInv' /\ ChoiceInv'
<1>1. /\ \A k \in Kinds : req'[k] = IF k = kind THEN IdleRequest ELSE req[k]
      /\ UNCHANGED <<store, marked, choice>> /\ lapses' = lapses \cup lapsed
  BY DEF Deny, Shape
<1>2. QED
  BY <1>1 DEF WantsInv, ChoiceInv, StoredChoice, RequestChoice, IdleRequest, Kinds

LEMMA MutateStepChoice ==
  ASSUME Shape, FilledInv, WantsInv, ChoiceInv, NEW kind \in Kinds, Mutate(kind)
  PROVE  WantsInv' /\ ChoiceInv'
<1>1. PICK other, lapsed :
        LET results == Mutated(kind, req[kind].op, req[kind].obj, other)
        IN  (\E obj \in results : Proceed(kind, "validating", obj, lapsed)) \/ Deny(kind, lapsed)
  BY DEF Mutate
<1>2. req[kind].pc = "mutating" /\ IsRequest(req[kind])
  BY DEF Mutate, Shape
<1>3. ASSUME NEW obj \in Mutated(kind, req[kind].op, req[kind].obj, other),
             Proceed(kind, "validating", obj, lapsed)
      PROVE  WantsInv' /\ ChoiceInv'
  <2>1. SUFFICES ASSUME kind = AWSCluster, "skipMutator" \notin lapses
                 PROVE  RequestChoice([req[kind] EXCEPT !.pc = "validating", !.obj = obj])
    BY <1>3, ProceedChoice
  <2> DEFINE r == req[AWSCluster]
  <2>2. obj \in MutateAWSCluster(r.op, r.obj) /\ r.obj \in AWSClusterObject
    BY <1>2, <1>3, <2>1 DEF Mutated, FilledInv
  <2>3. CASE r.op = "finalize"
    BY <1>2, <2>1, <2>3, Zenon DEF RequestChoice, IsRequest
  <2>4. CASE r.op # "finalize"
    <3>1. RequestChoice(r)
      BY <2>1 DEF ChoiceInv
    <3>2. Binary(obj) /\ Moved(obj) /\ Effective(obj) = Effective(r.obj)
      BY <1>2, <2>1, <2>2, <2>4, <3>1, MutateChoice DEF RequestChoice, Shape
    <3>3. LET s == [r EXCEPT !.pc = "validating", !.obj = obj]
          IN  s.obj = obj /\ s.wants = r.wants
      BY <1>2, <2>1, Zenon DEF IsRequest
    <3>4. QED
      BY <1>2, <2>1, <2>4, <3>1, <3>2, <3>3 DEF RequestChoice
  <2>5. QED
    BY <2>3, <2>4
<1>4. QED
  BY <1>1, <1>3, DenyChoice

LEMMA ValidateStepChoice ==
  ASSUME Shape, WantsInv, ChoiceInv, NEW kind \in Kinds, Validate(kind) \/ SkipValidator(kind)
  PROVE  WantsInv' /\ ChoiceInv'
<1> DEFINE r == req[kind]
<1>1. r.pc = "validating" /\ IsRequest(r)
  BY DEF Validate, SkipValidator, Shape
<1>2. ASSUME NEW lapsed, Proceed(kind, "writing", r.obj, lapsed)
      PROVE  WantsInv' /\ ChoiceInv'
  <2>1. LET s == [r EXCEPT !.pc = "writing", !.obj = r.obj]
        IN  s.pc = "writing" /\ s.obj = r.obj /\ s.wants = r.wants /\ s.op = r.op
    BY <1>1, Zenon DEF IsRequest
  <2>2. RequestChoice(r) => RequestChoice([r EXCEPT !.pc = "writing", !.obj = r.obj])
    BY <1>1, <2>1 DEF RequestChoice
  <2>3. QED
    BY <1>2, <2>2, ProceedChoice DEF ChoiceInv
<1>3. QED
  BY <1>2, DenyChoice DEF Validate, SkipValidator

LEMMA SkipMutatorChoice ==
  ASSUME Shape, WantsInv, ChoiceInv, NEW kind \in Kinds, SkipMutator(kind)
  PROVE  WantsInv' /\ ChoiceInv'
BY ProceedChoice DEF SkipMutator

\* What is written is what was wanted.
LEMMA WriteChoice ==
  ASSUME Shape, FilledInv, FinalizeInv, WantsInv, ChoiceInv, NEW kind \in Kinds, Write(kind)
  PROVE  WantsInv' /\ ChoiceInv'
<1>1. /\ req[kind].pc = "writing"
      /\ \A k \in Kinds : req'[k] = IF k = kind THEN IdleRequest ELSE req[k]
      /\ marked' = marked
  BY DEF Write, Shape
<1>2. WantsInv'
  BY <1>1 DEF WantsInv, IdleRequest
<1>3. CASE UNCHANGED <<store, choice, lapses>>
  BY <1>1, <1>2, <1>3 DEF ChoiceInv, StoredChoice, RequestChoice, IdleRequest, Kinds
<1>4. CASE /\ \A k \in Kinds : store'[k] = IF k # kind THEN store[k]
                                   ELSE IF req[kind].op = "finalize" THEN None ELSE req[kind].obj
           /\ choice' = IF req[kind].wants = None THEN choice ELSE req[kind].wants
           /\ lapses \subseteq lapses'
  <2>1. CASE kind # AWSCluster
    BY <1>1, <1>2, <1>4, <2>1 DEF WantsInv, ChoiceInv, StoredChoice, RequestChoice, Kinds
  <2>2. CASE kind = AWSCluster /\ req[kind].op = "finalize"
    BY <1>1, <1>2, <1>4, <2>2
       DEF ChoiceInv, StoredChoice, RequestChoice, FinalizeInv, IdleRequest, Kinds
  <2>3. CASE kind = AWSCluster /\ req[kind].op # "finalize"
    <3>1. req[kind].obj # None
      BY <1>1, <2>3, LifecycleAssumption DEF FilledInv
    <3>2. QED
      BY <1>1, <1>2, <1>4, <2>3, <3>1
         DEF ChoiceInv, StoredChoice, RequestChoice, IdleRequest, Kinds
  <2>4. QED
    BY <2>1, <2>2, <2>3
<1>5. QED
  BY <1>3, <1>4 DEF Write, Shape

LEMMA ClientChoice ==
  ASSUME AlphaBeforeStable, Shape, FilledInv, WantsInv, ChoiceInv, NEW kind \in DOMAIN manifest,
         Apply(kind) \/ Rescue(kind) \/ Finalize(kind)
  PROVE  WantsInv' /\ ChoiceInv'
<1>1. kind \in Kinds /\ plan \in Plans
  BY LifecycleAssumption DEF Shape, manifest
<1>2. CASE Apply(kind)
  <2> DEFINE obj == manifest[kind]
             wants == IF kind # AWSCluster THEN None ELSE Effective(obj)
  <2>1. store[kind] = None /\ kind \notin marked /\ Submit(kind, "create", obj, wants)
    BY <1>2 DEF Apply, Effective
  <2>2. ASSUME kind = AWSCluster, "skipMutator" \notin lapses
        PROVE  RequestChoice([pc |-> "mutating", op |-> "create", obj |-> obj, wants |-> wants])
    <3>1. choice = None
      BY <2>1, <2>2 DEF ChoiceInv, StoredChoice
    <3>2. Binary(obj) /\ (obj.release # None => Moved(obj))
      BY <1>1, <2>2 DEF AlphaBeforeStable, manifest, Binary, Moved
    <3>3. QED
      BY <2>2, <3>1, <3>2 DEF RequestChoice
  <2>3. QED
    BY <1>1, <2>1, <2>2, SubmitChoice
<1>3. CASE Rescue(kind)
  <2>1. kind = AWSCluster => "skipMutator" \in lapses
    BY <1>3 DEF Rescue, Stored, ChoiceInv, StoredChoice, Moved
  <2>2. QED
    BY <1>1, <1>3, <2>1, SubmitChoice DEF Rescue
<1>4. CASE Finalize(kind)
  BY <1>1, <1>4, SubmitChoice DEF Finalize, RequestChoice
<1>5. QED
  BY <1>2, <1>3, <1>4

\* An edit of the AWSCluster that chooses nothing, or something.
LEMMA EditedChoice ==
  ASSUME Shape, FilledInv, WantsInv, ChoiceInv, store[AWSCluster] # None, NEW op, op # "create",
         NEW obj, NEW wants, Submit(AWSCluster, op, obj, wants),
         LET stored == store[AWSCluster]
         IN  \/ obj.alpha = stored.alpha /\ obj.unhealthy = stored.unhealthy /\ wants = None
             \/ obj.alpha = wants /\ wants \in {"true", "false"}
             \/ /\ obj.alpha = stored.alpha /\ obj.unhealthy = wants /\ wants \in {"true", "false"}
                /\ "skipMutator" \notin lapses => ~(stored.release < FirstStable)
  PROVE  WantsInv' /\ ChoiceInv'
<1>1. "true" # None /\ "false" # None
  BY LifecycleAssumption DEF Choices
<1>2. ASSUME "skipMutator" \notin lapses
      PROVE  RequestChoice([pc |-> "mutating", op |-> op, obj |-> obj, wants |-> wants])
  BY <1>1, <1>2 DEF ChoiceInv, StoredChoice, RequestChoice, Binary, Moved, Effective
<1>3. AWSCluster \in Kinds
  BY DEF Kinds
<1>4. QED
  BY <1>2, <1>3, SubmitChoice

LEMMA EditChoice ==
  ASSUME Shape, FilledInv, WantsInv, ChoiceInv, Edit
  PROVE  WantsInv' /\ ChoiceInv'
<1> DEFINE stored == store[AWSCluster]
<1>1. CASE EditLabel \/ EditZones \/ EditScaling
  BY <1>1, SubmitChoice DEF EditLabel, EditZones, EditScaling, ControlPlane, Kinds
<1>2. CASE Upgrade
  <2>1. PICK kind \in {AWSCluster, AWS}, release \in Release :
          /\ Stored(kind)
          /\ Submit(kind, "update", [store[kind] EXCEPT !.release = release], None)
    BY <1>2 DEF Upgrade
  <2>2. CASE kind = AWS
    BY <2>1, <2>2, SubmitChoice DEF Kinds
  <2>3. CASE kind = AWSCluster
    <3> DEFINE obj == [stored EXCEPT !.release = release]
    <3>1. obj.alpha = stored.alpha /\ obj.unhealthy = stored.unhealthy
      BY <2>1, <2>3 DEF FilledInv, Stored, AWSClusterObject
    <3>2. Submit(AWSCluster, "update", obj, None) /\ stored # None
      BY <2>1, <2>3 DEF Stored
    <3> HIDE DEF obj
    <3>3. QED
      BY <3>1, <3>2, EditedChoice
  <2>4. QED
    BY <2>1, <2>2, <2>3
<1>3. CASE EditUnhealthy
  <2>1. PICK v \in {"true", "false"} :
          /\ Stored(AWSCluster)
          /\ \/ Submit(AWSCluster, "update", [stored EXCEPT !.alpha = v], v)
             \/ /\ stored.release >= FirstStable
                /\ Submit(AWSCluster, "update", [stored EXCEPT !.unhealthy = v], v)
    BY <1>3 DEF EditUnhealthy
  <2>2. stored # None /\ stored \in AWSClusterObject
    BY <2>1 DEF FilledInv, Stored
  <2>3. CASE Submit(AWSCluster, "update", [stored EXCEPT !.alpha = v], v)
    <3> DEFINE obj == [stored EXCEPT !.alpha = v]
    <3>1. obj.alpha = v
      BY <2>2 DEF AWSClusterObject
    <3>2. Submit(AWSCluster, "update", obj, v)
      BY <2>3
    <3> HIDE DEF obj
    <3>3. QED
      BY <2>2, <3>1, <3>2, EditedChoice
  <2>4. CASE /\ stored.release >= FirstStable
             /\ Submit(AWSCluster, "update", [stored EXCEPT !.unhealthy = v], v)
    <3> DEFINE obj == [stored EXCEPT !.unhealthy = v]
    <3>1. obj.alpha = stored.alpha /\ obj.unhealthy = v
      BY <2>2 DEF AWSClusterObject
    <3>2. Submit(AWSCluster, "update", obj, v)
      BY <2>4
    <3>3. "skipMutator" \notin lapses => ~(stored.release < FirstStable)
      BY <2>2, <2>4, LifecycleAssumption DEF ChoiceInv, StoredChoice, Moved, AWSClusterObject
    <3> HIDE DEF obj
    <3>4. QED
      BY <2>2, <3>1, <3>2, <3>3, EditedChoice
  <2>5. QED
    BY <2>1, <2>3, <2>4
<1>4. CASE EditBatch
  <2>1. PICK size : Stored(AWSCluster) /\ Submit(AWSCluster, "update", [stored EXCEPT !.batch = size], None)
    BY <1>4 DEF EditBatch
  <2> DEFINE obj == [stored EXCEPT !.batch = size]
  <2>2. obj.alpha = stored.alpha /\ obj.unhealthy = stored.unhealthy
    BY <2>1 DEF FilledInv, Stored, AWSClusterObject
  <2>3. Submit(AWSCluster, "update", obj, None) /\ stored # None
    BY <2>1 DEF Stored
  <2> HIDE DEF obj
  <2>4. QED
    BY <2>2, <2>3, EditedChoice
<1>5. CASE Replace
  <2> DEFINE obj == [stored EXCEPT !.zone = manifest[AWSCluster].zone, !.credential = None]
  <2>1. Stored(AWSCluster) /\ Submit(AWSCluster, "replace", obj, None)
    BY <1>5 DEF Replace
  <2>2. obj.alpha = stored.alpha /\ obj.unhealthy = stored.unhealthy
    BY <2>1 DEF FilledInv, Stored, AWSClusterObject
  <2>3. stored # None
    BY <2>1 DEF Stored
  <2> HIDE DEF obj
  <2>4. QED
    BY <2>1, <2>2, <2>3, EditedChoice
<1>6. QED
  BY <1>1, <1>2, <1>3, <1>4, <1>5 DEF Edit

LEMMA ChoiceStep ==
  ASSUME AlphaBeforeStable, Shape, FilledInv, FinalizeInv, WantsInv, ChoiceInv, [Next]_vars
  PROVE  WantsInv' /\ ChoiceInv'
<1>1. ASSUME NEW kind \in DOMAIN manifest,
             \/ Apply(kind) \/ Rescue(kind) \/ Serve(kind)
             \/ SkipMutator(kind) \/ SkipValidator(kind)
      PROVE  WantsInv' /\ ChoiceInv'
  <2>1. kind \in Kinds
    BY LifecycleAssumption DEF Shape, manifest
  <2>2. QED
    BY <1>1, <2>1, ClientChoice, MutateStepChoice, ValidateStepChoice, SkipMutatorChoice,
       WriteChoice DEF Serve
<1>2. CASE Edit
  BY <1>2, EditChoice
<1>3. CASE (\E kind \in DOMAIN manifest : Delete(kind)) \/ DeleteOrganization \/ ChangeSecret
  <2>1. UNCHANGED <<store, req, choice, lapses>> /\ marked \subseteq marked'
    BY <1>3 DEF Delete, DeleteOrganization, ChangeSecret
  <2>2. QED
    BY <2>1 DEF WantsInv, ChoiceInv, StoredChoice, RequestChoice
<1>4. CASE UNCHANGED vars
  BY <1>4 DEF vars, WantsInv, ChoiceInv, StoredChoice, RequestChoice
<1>5. QED
  BY <1>1, <1>2, <1>3, <1>4 DEF Next

\* What a client last chose for unhealthy nodes, with the old annotation or the
\* new one, is what the annotation says in releases that read the new one,
\* through upgrades and edits that overlap the client's.
THEOREM ChoiceStays ==
  ASSUME AlphaBeforeStable
  PROVE  Spec => []ChoiceKept
<1> DEFINE I == Shape /\ FilledInv /\ FinalizeInv /\ WantsInv /\ ChoiceInv
<1>1. Init => I
  BY ShapeStarts
     DEF Init, FilledInv, FinalizeInv, WantsInv, ChoiceInv, StoredChoice, RequestChoice,
         IdleRequest, Kinds
<1>2. I /\ [Next]_vars => I'
  BY Steps, FilledStep, FinalizeStep, ChoiceStep
<1>3. I => ChoiceKept
  <2> SUFFICES ASSUME I, Stored(AWSCluster), store[AWSCluster].release >= FirstStable,
                      "skipMutator" \notin lapses
               PROVE  store[AWSCluster].unhealthy = choice
    BY DEF ChoiceKept
  <2>1. store[AWSCluster] \in AWSClusterObject
    BY DEF FilledInv, Stored
  <2>2. Moved(store[AWSCluster]) /\ Effective(store[AWSCluster]) = choice
    BY DEF ChoiceInv, StoredChoice, Stored
  <2>3. store[AWSCluster].alpha = None
    BY <2>1, <2>2, LifecycleAssumption DEF Moved, AWSClusterObject
  <2>4. QED
    BY <2>2, <2>3 DEF Effective
<1>4. QED
  BY <1>1, <1>2, <1>3, PTL DEF Spec
=============================================================================
