--------------------------- MODULE ClusterProofs ---------------------------
(***************************************************************************)
(* Theorems about Cluster, for any number of clients and namespaces.       *)
(***************************************************************************)
EXTENDS Cluster, TLAPS

-----------------------------------------------------------------------------
(* What each step does.                                                    *)

TypedCluster(obj) == IsCluster(obj) /\ obj.release \in Nat \cup {None}

IsRequest(r) ==
  r = [pc |-> r.pc, ns |-> r.ns, op |-> r.op, restricted |-> r.restricted,
       dry |-> r.dry, obj |-> r.obj, old |-> r.old, fresh |-> r.fresh]

RequestTyped(r) ==
  /\ IsRequest(r)
  /\ r.pc # "idle" =>
       /\ r.ns \in Namespace
       /\ r.op \in {"create", "update"} \cap UserOps
       /\ TypedCluster(r.obj)
       /\ r.op = "update" => TypedCluster(r.old)

Shape ==
  /\ cluster = [ns \in Namespace |-> cluster[ns]]
  /\ aws \in [Namespace -> AWSClusterObject \cup {None}]
  /\ releases = [v \in Release |-> releases[v]]
  /\ req = [c \in Client |-> req[c]]
  /\ \A ns \in Namespace : cluster[ns] # None => TypedCluster(cluster[ns])
  /\ \A c \in Client : RequestTyped(req[c])

\* A request that is still the one it was, but for its progress.
SameRequest(s, r) ==
  /\ s.ns = r.ns /\ s.op = r.op /\ s.restricted = r.restricted /\ s.dry = r.dry
  /\ s.old = r.old

OthersSame(c) == \A d \in Client \ {c} : req'[d] = req[d]

\* A request comes.
Came(c) ==
  /\ req[c].pc = "idle" /\ req'[c].pc = "mutating"
  /\ req'[c].restricted \in Restricted
  /\ req'[c].old = IF req'[c].op = "update" THEN cluster[req'[c].ns] ELSE None
  /\ req'[c].op = "update" => req'[c].old # None
  /\ \E obj \in UserClusters : req'[c].obj = Edited(obj, req'[c].old)
  /\ OthersSame(c)
  /\ UNCHANGED <<cluster, lapses>>

\* What the mutator may answer.
Mutated(r) == IF r.op = "create" THEN MutateCreate(r.obj)
              ELSE MutateUpdate(r.obj, r.old, aws[r.ns])

\* A webhook lets the request go on, or is skipped.
WentOn(c) ==
  /\ SameRequest(req'[c], req[c]) /\ req'[c].fresh = req[c].fresh
  /\ \/ /\ req[c].pc = "mutating" /\ req'[c].pc = "validating"
        /\ \/ /\ req'[c].obj = req[c].obj
              /\ "skipMutator" \in lapses' \/ Panics(req[c]) \/ req[c].dry
           \/ req'[c].obj \in Mutated(req[c])
     \/ /\ req[c].pc = "validating" /\ req'[c].pc = "writing"
        /\ req'[c].obj = req[c].obj
        /\ "skipValidator" \in lapses' \/ Admitted(req[c])
  /\ OthersSame(c)
  /\ UNCHANGED cluster

Ended(c) ==
  req'[c].pc = "idle" /\ OthersSame(c) /\ UNCHANGED cluster

\* Copies of the Cluster of a namespace are not the stored one any more.
MadeStale(d, ns) ==
  /\ SameRequest(req'[d], req[d])
  /\ req'[d].pc = req[d].pc /\ req'[d].obj = req[d].obj
  /\ req'[d].fresh => req[d].fresh /\ req[d].ns # ns

Written(c) ==
  LET r == req[c] IN
  /\ r.pc = "writing" /\ Writable(r) /\ ~r.dry
  /\ cluster'[r.ns] = r.obj \/ cluster'[r.ns] = None
  /\ \A ns \in Namespace \ {r.ns} : cluster'[ns] = cluster[ns]
  /\ req'[c].pc = "idle"
  /\ \A d \in Client \ {c} : MadeStale(d, r.ns)
  /\ Overtakes(c) => "overtaken" \in lapses'

Marked(ns) ==
  /\ cluster[ns] # None
  /\ cluster'[ns] = [cluster[ns] EXCEPT !.deleting = TRUE]
  /\ \A other \in Namespace \ {ns} : cluster'[other] = cluster[other]
  /\ \A d \in Client : MadeStale(d, ns)

Same == UNCHANGED <<cluster, req>>

\* What no step changes, and what only grows.
Lasting ==
  /\ lapses \subseteq lapses'
  /\ \A ns \in Namespace : \/ aws[ns] = None /\ aws'[ns] = None
                           \/ /\ aws[ns] # None /\ aws'[ns] # None
                              /\ aws'[ns].pods = aws[ns].pods
                              /\ aws'[ns].pool = aws[ns].pool
  /\ \A v : Exists(v)' <=> Exists(v)

Effect ==
  \/ \E c \in Client : Came(c) \/ WentOn(c) \/ Ended(c) \/ Written(c)
  \/ \E ns \in Namespace : Marked(ns)
  \/ Same

-----------------------------------------------------------------------------
(* The mutator changes releases, versions of the operator and annotations  *)
(* of objects, but never makes anything else of them.                      *)

LEMMA CiliumLemma ==
  ASSUME NEW obj, TypedCluster(obj), NEW old, NEW awscluster, NEW new,
         new = DefaultCiliumCidrOnV18Upgrade(obj, old, awscluster)
  PROVE  /\ TypedCluster(new)
         /\ new.release = obj.release /\ new.operator = obj.operator
         /\ ChangesCNI(obj, old) => new.disableKubeProxy
BY Zenon DEF DefaultCiliumCidrOnV18Upgrade, TypedCluster, IsCluster

LEMMA ReleaseLemma ==
  ASSUME NEW obj, TypedCluster(obj), NEW new \in MutateReleaseVersion(obj)
  PROVE  /\ TypedCluster(new) /\ new.operator = obj.operator
         /\ obj.release # None => new = obj
<1>1. CASE new = obj
  BY <1>1
<1>2. ASSUME obj.release = None,
             NEW v \in Defaultable, new = [obj EXCEPT !.release = v]
      PROVE  TypedCluster(new) /\ new.operator = obj.operator
  <2>1. v \in Nat \cup {None}
    BY ReleasesAssumption DEF Defaultable
  <2>2. QED
    BY <1>2, <2>1, Zenon DEF TypedCluster, IsCluster
<1>3. QED
  BY <1>1, <1>2 DEF MutateReleaseVersion

LEMMA OperatorLemma ==
  ASSUME NEW obj, TypedCluster(obj), NEW new \in MutateOperatorVersion(obj)
  PROVE  /\ TypedCluster(new) /\ new.release = obj.release
         /\ obj.operator = None => new.operator = new.release
<1>1. CASE obj.operator # None /\ new = obj
  BY <1>1
<1>2. CASE obj.operator = None /\ new = [obj EXCEPT !.operator = obj.release]
  BY <1>2, Zenon DEF TypedCluster, IsCluster
<1>3. QED
  BY <1>1, <1>2 DEF MutateOperatorVersion

LEMMA ReleaseUpdateLemma ==
  ASSUME NEW obj, TypedCluster(obj), NEW old, NEW new \in MutateReleaseUpdate(obj, old)
  PROVE  /\ TypedCluster(new) /\ new.release = obj.release
         /\ IF obj.release = old.release THEN new = obj ELSE new.operator = new.release
<1>1. CASE obj.release = old.release /\ new = obj
  BY <1>1
<1>2. CASE obj.release # old.release /\ new = [obj EXCEPT !.operator = obj.release]
  BY <1>2, Zenon DEF TypedCluster, IsCluster
<1>3. QED
  BY <1>1, <1>2 DEF MutateReleaseUpdate

LEMMA MutateCreateLemma ==
  ASSUME NEW obj, TypedCluster(obj), NEW new \in MutateCreate(obj)
  PROVE  /\ TypedCluster(new)
         /\ obj.operator = None => IsCAPI(new.release) \/ new.operator = new.release
<1>1. CASE IsCAPI(obj.release) /\ new = obj
  BY <1>1
<1>2. CASE new \in UNION {MutateOperatorVersion(o) : o \in MutateReleaseVersion(obj)}
  <2>1. PICK o \in MutateReleaseVersion(obj) : new \in MutateOperatorVersion(o)
    BY <1>2
  <2>2. QED
    BY <2>1, ReleaseLemma, OperatorLemma
<1>3. QED
  BY <1>1, <1>2 DEF MutateCreate

LEMMA MutateUpdateLemma ==
  ASSUME NEW obj, TypedCluster(obj), NEW old, NEW awscluster,
         NEW new \in MutateUpdate(obj, old, awscluster)
  PROVE  /\ TypedCluster(new) /\ new.release = obj.release
         /\ \/ IsCAPI(new.release)
            \/ /\ new.operator \in {obj.operator, new.release}
               /\ obj.release # old.release => new.operator = new.release
               /\ ChangesCNI(new, old) => new.disableKubeProxy
<1>1. CASE IsCAPI(obj.release) /\ new = obj
  BY <1>1
<1>2. CASE new \in {DefaultCiliumCidrOnV18Upgrade(o, old, awscluster) :
                      o \in MutateReleaseUpdate(obj, old)}
  <2>1. PICK o \in MutateReleaseUpdate(obj, old) :
               new = DefaultCiliumCidrOnV18Upgrade(o, old, awscluster)
    BY <1>2
  <2>2. /\ TypedCluster(o) /\ o.release = obj.release
        /\ IF obj.release = old.release THEN o = obj ELSE o.operator = o.release
    BY ReleaseUpdateLemma
  <2>3. /\ TypedCluster(new) /\ new.release = o.release /\ new.operator = o.operator
        /\ ChangesCNI(o, old) => new.disableKubeProxy
    BY <2>1, <2>2, CiliumLemma
  <2>4. ChangesCNI(o, old) <=> ChangesCNI(new, old)
    BY <2>3 DEF ChangesCNI
  <2>5. QED
    BY <2>2, <2>3, <2>4
<1>3. QED
  BY <1>1, <1>2 DEF MutateUpdate

LEMMA EditedLemma ==
  ASSUME NEW obj \in UserClusters, NEW old, TypedCluster(old) \/ old = None
  PROVE  /\ TypedCluster(Edited(obj, old))
         /\ Edited(obj, old).release = obj.release
         /\ old = None => Edited(obj, old) = obj
         /\ old # None /\ obj.operator = None => Edited(obj, old).operator = old.operator
<1>1. CASE old = None
  BY <1>1, ObjectsAssumption DEF Edited, TypedCluster
<1>2. CASE old # None
  <2>1. PICK operator, deleting :
          /\ Edited(obj, old) = [obj EXCEPT !.operator = operator, !.deleting = deleting]
          /\ obj.operator = None => operator = old.operator
    BY <1>2, Zenon DEF Edited
  <2>2. TypedCluster(obj)
    BY ObjectsAssumption DEF TypedCluster
  <2>3. QED
    BY <1>2, <2>1, <2>2, Zenon DEF TypedCluster, IsCluster
<1>3. QED
  BY <1>1, <1>2

-----------------------------------------------------------------------------
(* Each action has one of the effects, and keeps the shape of the state.   *)

Moved(c, pc, obj) == req' = [req EXCEPT ![c].pc = pc, ![c].obj = obj]

LEMMA MovedLemma ==
  ASSUME Shape, NEW c \in Client, NEW pc, NEW obj, TypedCluster(obj), req[c].pc # "idle",
         Moved(c, pc, obj)
  PROVE  /\ req' = [d \in Client |-> req'[d]]
         /\ RequestTyped(req'[c])
         /\ SameRequest(req'[c], req[c]) /\ req'[c].fresh = req[c].fresh
         /\ req'[c].pc = pc /\ req'[c].obj = obj
         /\ OthersSame(c)
<1>1. req' = [req EXCEPT ![c] = [req[c] EXCEPT !.pc = pc, !.obj = obj]]
  BY DEF Moved, Shape
<1>2. /\ req'[c] = [req[c] EXCEPT !.pc = pc, !.obj = obj]
      /\ OthersSame(c)
      /\ req' = [d \in Client |-> req'[d]]
  BY <1>1 DEF Shape, OthersSame
<1>3. RequestTyped(req[c])
  BY DEF Shape
<1>4. /\ IsRequest(req'[c])
      /\ SameRequest(req'[c], req[c]) /\ req'[c].fresh = req[c].fresh
      /\ req'[c].pc = pc /\ req'[c].obj = obj
  BY <1>2, <1>3, Zenon DEF RequestTyped, IsRequest, SameRequest
<1>5. QED
  BY <1>2, <1>3, <1>4 DEF RequestTyped, SameRequest

LEMMA EndedLemma ==
  ASSUME Shape, NEW c \in Client, req' = [req EXCEPT ![c] = IdleRequest]
  PROVE  /\ req' = [d \in Client |-> req'[d]]
         /\ req'[c].pc = "idle" /\ RequestTyped(req'[c])
         /\ OthersSame(c)
<1>1. req'[c] = IdleRequest /\ OthersSame(c) /\ req' = [d \in Client |-> req'[d]]
  BY DEF Shape, OthersSame
<1>2. IdleRequest.pc = "idle" /\ IsRequest(IdleRequest)
  BY Zenon DEF IdleRequest, IsRequest
<1>3. QED
  BY <1>1, <1>2 DEF RequestTyped

LEMMA StaleLemma ==
  ASSUME NEW reqs, NEW d \in Client, RequestTyped(reqs[d]), NEW ns
  PROVE  LET s == Stale(reqs, ns)[d]
             r == reqs[d]
         IN  /\ RequestTyped(s) /\ SameRequest(s, r) /\ s.pc = r.pc /\ s.obj = r.obj
             /\ s.fresh => r.fresh /\ r.ns # ns
<1> DEFINE s == Stale(reqs, ns)[d]
           r == reqs[d]
<1>1. s = IF r.ns = ns /\ r.fresh THEN [r EXCEPT !.fresh = FALSE] ELSE r
  BY Zenon DEF Stale
<1>2. CASE r.ns = ns /\ r.fresh
  <2>1. s = [r EXCEPT !.fresh = FALSE]
    BY <1>1, <1>2
  <2>2. IsRequest(s) /\ SameRequest(s, r) /\ s.pc = r.pc /\ s.obj = r.obj /\ ~s.fresh
    BY <2>1, Zenon DEF RequestTyped, IsRequest, SameRequest
  <2>3. QED
    BY <2>2 DEF RequestTyped, SameRequest
<1>3. CASE ~(r.ns = ns /\ r.fresh)
  BY <1>1, <1>3, Zenon DEF SameRequest
<1>4. QED
  BY <1>2, <1>3

LEMMA StillLasting ==
  ASSUME UNCHANGED <<aws, releases>>, lapses \subseteq lapses'
  PROVE  Lasting
BY DEF Lasting, Exists

LEMMA SubmitLemma ==
  ASSUME Shape, NEW c \in Client, Submit(c)
  PROVE  Shape' /\ Lasting /\ Came(c)
<1>1. PICK op \in {"create", "update"} \cap UserOps, ns \in Namespace,
           restricted \in Restricted, dry \in DryRuns, obj \in UserClusters :
         LET old == IF op = "update" THEN cluster[ns] ELSE None IN
         /\ op = "update" => old # None
         /\ req' = [req EXCEPT ![c] =
              [pc |-> "mutating", ns |-> ns, op |-> op, restricted |-> restricted,
               dry |-> dry, obj |-> Edited(obj, old), old |-> old, fresh |-> TRUE]]
  BY DEF Submit
<1> DEFINE old == IF op = "update" THEN cluster[ns] ELSE None
           edited == Edited(obj, old)
           new == [pc |-> "mutating", ns |-> ns, op |-> op, restricted |-> restricted,
                   dry |-> dry, obj |-> edited, old |-> old, fresh |-> TRUE]
<1>2. old = None \/ TypedCluster(old)
  BY DEF Shape
<1>3. TypedCluster(edited)
  BY <1>2, EditedLemma
<1>4. req' = [req EXCEPT ![c] = new] /\ (op = "update" => old # None)
  BY <1>1
<1> HIDE DEF edited
<1>5. /\ IsRequest(new) /\ new.pc = "mutating" /\ new.ns = ns /\ new.op = op
      /\ new.restricted = restricted /\ new.obj = edited /\ new.old = old
  BY Zenon DEF IsRequest
<1> HIDE DEF new
<1>6. req'[c] = new /\ OthersSame(c) /\ req' = [d \in Client |-> req'[d]]
  BY <1>4 DEF Shape, OthersSame
<1>7. RequestTyped(new)
  BY <1>2, <1>3, <1>4, <1>5 DEF RequestTyped
<1>8. UNCHANGED <<cluster, aws, releases, lapses>>
  BY DEF Submit
<1>9. Shape'
  <2>1. \A d \in Client : RequestTyped(req'[d])
    BY <1>6, <1>7 DEF Shape, OthersSame
  <2>2. QED
    BY <1>6, <1>8, <2>1 DEF Shape, RequestTyped
<1>10. Came(c)
  <2>1. req[c].pc = "idle"
    BY DEF Submit
  <2>2. old = IF req'[c].op = "update" THEN cluster[req'[c].ns] ELSE None
    BY <1>5, <1>6
  <2>3. QED
    BY <1>4, <1>5, <1>6, <1>8, <2>1, <2>2 DEF Came, edited
<1>11. QED
  BY <1>8, <1>9, <1>10, StillLasting

\* A step that changes the request of one client only.
LEMMA ShapeLemma ==
  ASSUME Shape, NEW c \in Client, RequestTyped(req'[c]), OthersSame(c),
         req' = [d \in Client |-> req'[d]], UNCHANGED <<cluster, aws, releases>>
  PROVE  Shape'
<1>1. \A d \in Client : RequestTyped(req'[d])
  BY DEF Shape, OthersSame
<1>2. QED
  BY <1>1 DEF Shape, RequestTyped

LEMMA FinishLemma ==
  ASSUME Shape, NEW c \in Client, Finish(c)
  PROVE  Shape' /\ Lasting /\ Ended(c)
<1>1. UNCHANGED <<cluster, aws, releases, lapses>>
  BY DEF Finish, Others
<1>2. req' = [req EXCEPT ![c] = IdleRequest]
  BY DEF Finish
<1>3. /\ req' = [d \in Client |-> req'[d]]
      /\ req'[c].pc = "idle" /\ RequestTyped(req'[c]) /\ OthersSame(c)
  BY <1>2, EndedLemma
<1>4. Shape' /\ Lasting
  BY <1>1, <1>3, ShapeLemma, StillLasting
<1>5. QED
  BY <1>1, <1>3, <1>4 DEF Ended

LEMMA PatchedLemma ==
  ASSUME Shape, NEW c \in Client, req[c].pc = "mutating", NEW obj, TypedCluster(obj),
         NEW lapsed, Patched(c, obj, lapsed),
         \/ /\ obj = req[c].obj
            /\ "skipMutator" \in lapsed \/ Panics(req[c]) \/ req[c].dry
         \/ obj \in Mutated(req[c])
  PROVE  Shape' /\ Lasting /\ WentOn(c)
<1>1. /\ Moved(c, "validating", obj)
      /\ lapses' = lapses \cup lapsed /\ UNCHANGED <<cluster, aws, releases>>
  BY DEF Patched, Moved
<1>2. /\ req' = [d \in Client |-> req'[d]] /\ RequestTyped(req'[c])
      /\ SameRequest(req'[c], req[c]) /\ req'[c].fresh = req[c].fresh
      /\ req'[c].pc = "validating" /\ req'[c].obj = obj /\ OthersSame(c)
  BY <1>1, MovedLemma
<1>3. WentOn(c)
  BY <1>1, <1>2 DEF WentOn
<1>4. QED
  BY <1>1, <1>2, <1>3, ShapeLemma, StillLasting

LEMMA MutateLemma ==
  ASSUME Shape, NEW c \in Client, Mutate(c)
  PROVE  Shape' /\ Lasting /\ (WentOn(c) \/ Ended(c))
<1> DEFINE r == req[c]
           results == IF r.dry THEN {r.obj} ELSE Mutated(r)
<1>1. /\ r.pc = "mutating"
      /\ (\E obj \in results : Patched(c, obj, {})) \/ Finish(c)
  BY DEF Mutate, Mutated
<1>2. RequestTyped(r) /\ TypedCluster(r.obj)
  BY <1>1 DEF Shape, RequestTyped
<1>3. CASE Finish(c)
  BY <1>3, FinishLemma
<1>4. ASSUME NEW obj \in results, Patched(c, obj, {})
      PROVE  Shape' /\ Lasting /\ WentOn(c)
  <2>1. TypedCluster(obj)
    BY <1>2, <1>4, MutateCreateLemma, MutateUpdateLemma DEF Mutated
  <2>2. \/ obj = r.obj /\ r.dry
        \/ obj \in Mutated(r)
    BY <1>4
  <2>3. QED
    BY <1>1, <1>4, <2>1, <2>2, PatchedLemma
<1>5. QED
  BY <1>1, <1>3, <1>4

LEMMA SkippedMutatorLemma ==
  ASSUME Shape, NEW c \in Client, Panic(c) \/ SkipMutator(c)
  PROVE  Shape' /\ Lasting /\ WentOn(c)
<1>1. TypedCluster(req[c].obj) /\ req[c].pc = "mutating"
  BY DEF Shape, RequestTyped, Panic, SkipMutator
<1>2. CASE Panic(c)
  BY <1>1, <1>2, PatchedLemma DEF Panic
<1>3. CASE SkipMutator(c)
  BY <1>1, <1>3, PatchedLemma DEF SkipMutator
<1>4. QED
  BY <1>2, <1>3

LEMMA ValidateLemma ==
  ASSUME Shape, NEW c \in Client, Validate(c) \/ SkipValidator(c)
  PROVE  Shape' /\ Lasting /\ (WentOn(c) \/ Ended(c))
<1>1. CASE Finish(c)
  BY <1>1, FinishLemma
<1>2. CASE /\ req[c].pc = "validating"
           /\ req' = [req EXCEPT ![c].pc = "writing"]
           /\ UNCHANGED <<cluster, aws, releases>> /\ lapses \subseteq lapses'
           /\ Admitted(req[c]) \/ "skipValidator" \in lapses'
  <2>1. RequestTyped(req[c])
    BY DEF Shape
  <2>2. TypedCluster(req[c].obj) /\ req[c].pc # "idle"
    BY <1>2, <2>1 DEF RequestTyped
  <2>3. [req[c] EXCEPT !.pc = "writing"] = [req[c] EXCEPT !.pc = "writing", !.obj = req[c].obj]
    BY <2>1, Zenon DEF RequestTyped, IsRequest
  <2>4. Moved(c, "writing", req[c].obj)
    <3>1. req' = [req EXCEPT ![c] = [req[c] EXCEPT !.pc = "writing"]]
      BY <1>2, Zenon
    <3>2. req' = [req EXCEPT ![c] = [req[c] EXCEPT !.pc = "writing", !.obj = req[c].obj]]
      BY <2>3, <3>1, Zenon
    <3>3. QED
      BY <3>2 DEF Moved, Shape
  <2>5. /\ req' = [d \in Client |-> req'[d]] /\ RequestTyped(req'[c])
        /\ SameRequest(req'[c], req[c]) /\ req'[c].fresh = req[c].fresh
        /\ req'[c].pc = "writing" /\ req'[c].obj = req[c].obj /\ OthersSame(c)
    BY <2>2, <2>4, MovedLemma
  <2>6. WentOn(c)
    BY <1>2, <2>5 DEF WentOn
  <2>7. QED
    BY <1>2, <2>5, <2>6, ShapeLemma, StillLasting
<1>3. QED
  BY <1>1, <1>2 DEF Validate, SkipValidator, Others

LEMMA WriteLemma ==
  ASSUME Shape, NEW c \in Client, Write(c)
  PROVE  Shape' /\ Lasting /\ Written(c)
<1> DEFINE r == req[c]
           reqs == [req EXCEPT ![c] = IdleRequest]
<1>1. /\ r.pc = "writing" /\ Writable(r) /\ ~r.dry
      /\ req' = Stale(reqs, r.ns)
      /\ UNCHANGED <<aws, releases>> /\ lapses \subseteq lapses'
      /\ Overtakes(c) => "overtaken" \in lapses'
  BY DEF Write
<1>2. PICK obj : (obj = r.obj \/ obj = None) /\ cluster' = [cluster EXCEPT ![r.ns] = obj]
  BY DEF Write
<1>3. RequestTyped(r) /\ r.ns \in Namespace /\ TypedCluster(r.obj)
  BY <1>1 DEF Shape, RequestTyped
<1>4. /\ cluster' = [ns \in Namespace |-> cluster'[ns]]
      /\ cluster'[r.ns] = obj
      /\ \A ns \in Namespace \ {r.ns} : cluster'[ns] = cluster[ns]
  BY <1>2, <1>3 DEF Shape
<1>5. /\ reqs[c] = IdleRequest
      /\ \A d \in Client \ {c} : reqs[d] = req[d]
  BY DEF Shape
<1>6. RequestTyped(IdleRequest) /\ IdleRequest.pc = "idle"
  BY Zenon DEF IdleRequest, RequestTyped, IsRequest
<1>7. \A d \in Client : RequestTyped(reqs[d])
  BY <1>5, <1>6 DEF Shape
<1> HIDE DEF reqs
<1>8. /\ \A d \in Client : RequestTyped(req'[d])
      /\ req'[c].pc = "idle"
      /\ \A d \in Client \ {c} : MadeStale(d, r.ns)
  BY <1>1, <1>5, <1>6, <1>7, StaleLemma DEF MadeStale
<1>9. req' = [d \in Client |-> req'[d]]
  BY <1>1, Zenon DEF Stale
<1>10. Shape'
  BY <1>1, <1>2, <1>3, <1>4, <1>8, <1>9 DEF Shape, RequestTyped
<1>11. QED
  BY <1>1, <1>2, <1>4, <1>8, <1>10, StillLasting DEF Written

\* A deletion only marks a Cluster.
LEMMA DeletionLemma ==
  ASSUME NEW obj, TypedCluster(obj), NEW new, new = [obj EXCEPT !.deleting = TRUE]
  PROVE  /\ TypedCluster(new)
         /\ new.release = obj.release /\ new.operator = obj.operator
         /\ new.org = obj.org /\ new.target = obj.target /\ new.mode = obj.mode
         /\ new.deleting
BY Zenon DEF TypedCluster, IsCluster

LEMMA DeleteLemma ==
  ASSUME Shape, NEW ns \in Namespace, Delete(ns)
  PROVE  Shape' /\ Lasting /\ Marked(ns)
<1>1. /\ cluster[ns] # None
      /\ cluster' = [cluster EXCEPT ![ns] = [cluster[ns] EXCEPT !.deleting = TRUE]]
      /\ req' = Stale(req, ns)
      /\ UNCHANGED <<aws, releases, lapses>>
  BY DEF Delete, Shape
<1> DEFINE new == [cluster[ns] EXCEPT !.deleting = TRUE]
<1>2. TypedCluster(new)
  <2>1. TypedCluster(cluster[ns])
    BY <1>1 DEF Shape
  <2>2. QED
    BY <2>1, DeletionLemma
<1>3. cluster' = [cluster EXCEPT ![ns] = new]
  BY <1>1
<1> HIDE DEF new
<1>4. /\ cluster' = [n \in Namespace |-> cluster'[n]]
      /\ cluster'[ns] = new
      /\ \A n \in Namespace \ {ns} : cluster'[n] = cluster[n]
  BY <1>3 DEF Shape
<1>5. /\ \A d \in Client : RequestTyped(req'[d])
      /\ \A d \in Client : MadeStale(d, ns)
  BY <1>1, StaleLemma DEF MadeStale, Shape
<1>6. req' = [d \in Client |-> req'[d]]
  BY <1>1, Zenon DEF Stale
<1>7. Shape'
  BY <1>1, <1>2, <1>4, <1>5, <1>6 DEF Shape, RequestTyped
<1>8. QED
  BY <1>1, <1>4, <1>5, <1>7, StillLasting DEF Marked, new

\* The operators leave the networks alone.
LEMMA TransitionedLemma ==
  ASSUME NEW old \in AWSClusterObject, NEW release \in Nat \cup {None}
  PROVE  LET started == [old EXCEPT !.transitioned = FALSE, !.release = release]
             finished == [old EXCEPT !.transitioned = TRUE]
         IN  \A new \in {started, finished} :
               new \in AWSClusterObject /\ new.pods = old.pods /\ new.pool = old.pool
<1> DEFINE stored == {store[ns] : store \in AWSClusters, ns \in Namespace} \ {None}
           pods == {obj.pods : obj \in stored}
           pool == {obj.pool : obj \in stored}
<1>1. AWSClusterObject
        = [release : Nat \cup {None}, transitioned : BOOLEAN, pods : pods, pool : pool]
  BY DEF AWSClusterObject
<1> HIDE DEF pods, pool
<1>2. QED
  BY <1>1

LEMMA UpgradingLemma ==
  ASSUME Shape, NEW ns \in Namespace, StartUpgrade(ns) \/ FinishUpgrade(ns)
  PROVE  Shape' /\ Lasting /\ Same
<1>1. UNCHANGED <<cluster, req, releases, lapses>>
  BY DEF StartUpgrade, FinishUpgrade
<1>2. PICK new \in AWSClusterObject :
        /\ aws[ns] \in AWSClusterObject
        /\ aws' = [aws EXCEPT ![ns] = new]
        /\ new.pods = aws[ns].pods /\ new.pool = aws[ns].pool
  <2>1. CASE StartUpgrade(ns)
    <3> DEFINE new == [aws[ns] EXCEPT !.transitioned = FALSE, !.release = cluster[ns].release]
    <3>1. aws[ns] \in AWSClusterObject /\ cluster[ns].release \in Nat \cup {None}
      BY <2>1 DEF StartUpgrade, Shape, TypedCluster
    <3>2. aws' = [aws EXCEPT ![ns] = new]
      BY <2>1 DEF StartUpgrade, Shape
    <3>3. QED
      BY <3>1, <3>2, TransitionedLemma
  <2>2. CASE FinishUpgrade(ns)
    <3> DEFINE new == [aws[ns] EXCEPT !.transitioned = TRUE]
    <3>1. aws[ns] \in AWSClusterObject
      BY <2>2 DEF FinishUpgrade, Shape
    <3>2. aws' = [aws EXCEPT ![ns] = new]
      BY <2>2 DEF FinishUpgrade, Shape
    <3>3. QED
      BY <3>1, <3>2, TransitionedLemma
  <2>3. QED
    BY <2>1, <2>2
<1>3. /\ aws' \in [Namespace -> AWSClusterObject \cup {None}]
      /\ aws'[ns] = new
      /\ \A n \in Namespace \ {ns} : aws'[n] = aws[n]
  BY <1>2 DEF Shape
<1>4. Shape'
  BY <1>1, <1>3 DEF Shape, RequestTyped
<1>5. Lasting
  BY <1>1, <1>2, <1>3, ObjectsAssumption DEF Lasting, Exists
<1>6. QED
  BY <1>1, <1>4, <1>5 DEF Same

LEMMA DeprecateLemma ==
  ASSUME Shape, NEW v \in Withdrawn, Deprecate(v)
  PROVE  Shape' /\ Lasting /\ Same
<1>1. UNCHANGED <<cluster, req, aws, lapses>>
  BY DEF Deprecate
<1>2. /\ releases' = [w \in Release |-> releases'[w]]
      /\ \A w \in Release : \/ releases'[w] = releases[w]
                            \/ releases'[w] = "deprecated" /\ releases[w] = "active"
  BY DEF Deprecate, Shape
<1>3. Shape'
  BY <1>1, <1>2 DEF Shape, RequestTyped
<1>4. \A w : Exists(w)' <=> Exists(w)
  <2>1. ASSUME NEW w \in Release
        PROVE  releases'[w] = "missing" <=> releases[w] = "missing"
    BY <1>2
  <2>2. QED
    BY <2>1 DEF Exists
<1>5. QED
  BY <1>1, <1>3, <1>4 DEF Lasting, Same

\* Every step has one of the effects.
LEMMA Steps ==
  ASSUME Shape, [Next]_vars
  PROVE  Shape' /\ Lasting /\ Effect
<1>1. CASE UNCHANGED vars
  BY <1>1, StillLasting DEF vars, Shape, RequestTyped, Effect, Same
<1>2. ASSUME NEW c \in Client, Submit(c)
      PROVE  Shape' /\ Lasting /\ Effect
  BY <1>2, SubmitLemma DEF Effect
<1>3. ASSUME NEW c \in Client, Mutate(c) \/ Panic(c) \/ SkipMutator(c)
      PROVE  Shape' /\ Lasting /\ Effect
  BY <1>3, MutateLemma, SkippedMutatorLemma DEF Effect
<1>4. ASSUME NEW c \in Client, Validate(c) \/ SkipValidator(c)
      PROVE  Shape' /\ Lasting /\ Effect
  BY <1>4, ValidateLemma DEF Effect
<1>5. ASSUME NEW c \in Client, Write(c) \/ Refuse(c)
      PROVE  Shape' /\ Lasting /\ Effect
  BY <1>5, WriteLemma, FinishLemma DEF Effect, Refuse
<1>6. ASSUME NEW ns \in Namespace, Delete(ns) \/ StartUpgrade(ns) \/ FinishUpgrade(ns)
      PROVE  Shape' /\ Lasting /\ Effect
  BY <1>6, DeleteLemma, UpgradingLemma DEF Effect
<1>7. ASSUME NEW v \in Withdrawn, Deprecate(v)
      PROVE  Shape' /\ Lasting /\ Effect
  BY <1>7, DeprecateLemma DEF Effect
<1>8. CASE Tick
  BY <1>8, StillLasting DEF Tick, Shape, RequestTyped, Effect, Same
<1>9. QED
  BY <1>1, <1>2, <1>3, <1>4, <1>5, <1>6, <1>7, <1>8 DEF Next

LEMMA InitShape ==
  ASSUME Init
  PROVE  Shape /\ \A c \in Client : req[c].pc = "idle"
<1>1. RequestTyped(IdleRequest) /\ IdleRequest.pc = "idle"
  BY Zenon DEF IdleRequest, RequestTyped, IsRequest
<1>2. QED
  BY <1>1, ObjectsAssumption DEF Init, Shape, TypedCluster

-----------------------------------------------------------------------------
(* The same steps, seen from one request and from one namespace.           *)

\* A request stays as it is, though its copy may get stale.
Kept(c) ==
  /\ SameRequest(req'[c], req[c])
  /\ req'[c].pc = req[c].pc /\ req'[c].obj = req[c].obj
  /\ req'[c].fresh /\ req[c].pc # "idle"
       => req[c].fresh /\ cluster'[req[c].ns] = cluster[req[c].ns]

LEMMA RequestSteps ==
  ASSUME Shape, [Next]_vars, NEW d \in Client
  PROVE  req'[d].pc = "idle" \/ Came(d) \/ WentOn(d) \/ Kept(d)
<1>1. Effect
  BY Steps
<1>2. RequestTyped(req[d])
  BY DEF Shape
<1>3. ASSUME NEW c \in Client, Came(c) \/ WentOn(c) \/ Ended(c), c # d
      PROVE  Kept(d)
  <2>1. req'[d] = req[d] /\ cluster' = cluster
    BY <1>3 DEF Came, WentOn, Ended, OthersSame
  <2>2. QED
    BY <2>1 DEF Kept, SameRequest
<1>4. ASSUME NEW c \in Client, Written(c), c # d
      PROVE  Kept(d)
  <2>1. MadeStale(d, req[c].ns) /\ \A ns \in Namespace \ {req[c].ns} : cluster'[ns] = cluster[ns]
    BY <1>4 DEF Written
  <2>2. QED
    BY <1>2, <2>1 DEF Kept, MadeStale, RequestTyped
<1>5. ASSUME NEW ns \in Namespace, Marked(ns)
      PROVE  Kept(d)
  <2>1. MadeStale(d, ns) /\ \A n \in Namespace \ {ns} : cluster'[n] = cluster[n]
    BY <1>5 DEF Marked
  <2>2. QED
    BY <1>2, <2>1 DEF Kept, MadeStale, RequestTyped
<1>6. CASE Same
  BY <1>6 DEF Same, Kept, SameRequest
<1>7. QED
  BY <1>1, <1>3, <1>4, <1>5, <1>6 DEF Effect, Ended, Written

LEMMA StoreSteps ==
  ASSUME Shape, [Next]_vars, NEW ns \in Namespace
  PROVE  \/ cluster'[ns] = cluster[ns]
         \/ Marked(ns)
         \/ \E c \in Client : Written(c) /\ req[c].ns = ns
<1>1. Effect
  BY Steps
<1>2. QED
  BY <1>1 DEF Effect, Came, WentOn, Ended, Same, Marked, Written

-----------------------------------------------------------------------------
(* The name of a Cluster.                                                  *)

\* Until a validating call is skipped or a write overtakes another one, the
\* Clusters stored are in one namespace, and a create that has been validated
\* finds no Cluster in another namespace than its own.
NameInv ==
  /\ Shape
  /\ NameUnique
  /\ lapses \cap {"skipValidator", "overtaken"} = {} =>
       \A c \in Client :
         req[c].pc = "writing" /\ req[c].op = "create" /\ ~req[c].dry =>
           \A ns \in Namespace \ {req[c].ns} : cluster[ns] = None

LEMMA NameStep ==
  ASSUME NameInv, [Next]_vars
  PROVE  NameInv'
<1>1. Shape' /\ Lasting /\ Effect
  BY Steps DEF NameInv
<1> SUFFICES ASSUME lapses' \cap {"skipValidator", "overtaken"} = {}
             PROVE  /\ \A ns, other \in Namespace :
                         cluster'[ns] # None /\ cluster'[other] # None => ns = other
                    /\ \A c \in Client :
                         req'[c].pc = "writing" /\ req'[c].op = "create" /\ ~req'[c].dry =>
                           \A ns \in Namespace \ {req'[c].ns} : cluster'[ns] = None
  BY <1>1 DEF NameInv, NameUnique
<1>2. /\ \A ns, other \in Namespace :
           cluster[ns] # None /\ cluster[other] # None => ns = other
      /\ \A c \in Client :
           req[c].pc = "writing" /\ req[c].op = "create" /\ ~req[c].dry =>
             \A ns \in Namespace \ {req[c].ns} : cluster[ns] = None
  BY <1>1 DEF NameInv, NameUnique, Lasting
<1>3. ASSUME NEW c \in Client, Came(c) \/ Ended(c)
      PROVE  /\ cluster' = cluster
             /\ \A d \in Client : req'[d].pc = "writing" => req'[d] = req[d]
  BY <1>3 DEF Came, Ended, OthersSame
<1>4. ASSUME NEW c \in Client, WentOn(c), req'[c].pc = "writing", req'[c].op = "create", ~req'[c].dry
      PROVE  \A ns \in Namespace : cluster'[ns] = None
  <2>1. Admitted(req[c]) /\ req[c].op = "create" /\ ~req[c].dry /\ cluster' = cluster
    BY <1>4 DEF WentOn, SameRequest
  <2>2. QED
    BY <2>1 DEF Admitted, ValidateCreate
<1>5. ASSUME NEW c \in Client, WentOn(c)
      PROVE  /\ cluster' = cluster
             /\ \A d \in Client \ {c} : req'[d] = req[d]
  BY <1>5 DEF WentOn, OthersSame
<1>6. ASSUME NEW c \in Client, Written(c)
      PROVE  /\ req'[c].pc = "idle"
             /\ \A d \in Client \ {c} : /\ req'[d].pc = req[d].pc /\ req'[d].op = req[d].op
                                        /\ req'[d].ns = req[d].ns /\ req'[d].dry = req[d].dry
  BY <1>6 DEF Written, MadeStale, SameRequest
<1>7. ASSUME NEW c \in Client, Written(c), req[c].op = "create"
      PROVE  /\ \A ns \in Namespace \ {req[c].ns} : cluster'[ns] = None
             /\ \A d \in Client \ {c} :
                  req[d].pc = "writing" /\ req[d].op = "create" /\ ~req[d].dry
                    => req[d].ns = req[c].ns
  BY <1>2, <1>7 DEF Written, Overtakes
<1>8. ASSUME NEW c \in Client, Written(c), req[c].op # "create"
      PROVE  /\ req[c].ns \in Namespace
             /\ \A ns \in Namespace : cluster'[ns] # None => cluster[ns] # None
  BY <1>1, <1>8 DEF Written, Writable, NameInv, Shape, RequestTyped
<1>9. ASSUME NEW ns \in Namespace, Marked(ns)
      PROVE  /\ \A n \in Namespace : cluster'[n] # None => cluster[n] # None
             /\ \A d \in Client : /\ req'[d].pc = req[d].pc /\ req'[d].op = req[d].op
                                  /\ req'[d].ns = req[d].ns /\ req'[d].dry = req[d].dry
  BY <1>9 DEF Marked, MadeStale, SameRequest
<1>10. ASSUME NEW c \in Client, Written(c), req[c].op = "create"
       PROVE  /\ \A ns, other \in Namespace :
                   cluster'[ns] # None /\ cluster'[other] # None => ns = other
              /\ \A d \in Client :
                   req'[d].pc = "writing" /\ req'[d].op = "create" /\ ~req'[d].dry =>
                     \A ns \in Namespace \ {req'[d].ns} : cluster'[ns] = None
  BY <1>6, <1>7, <1>10
<1>11. ASSUME NEW c \in Client, Written(c), req[c].op # "create"
       PROVE  /\ \A ns, other \in Namespace :
                   cluster'[ns] # None /\ cluster'[other] # None => ns = other
              /\ \A d \in Client :
                   req'[d].pc = "writing" /\ req'[d].op = "create" /\ ~req'[d].dry =>
                     \A ns \in Namespace \ {req'[d].ns} : cluster'[ns] = None
  BY <1>2, <1>6, <1>8, <1>11
<1>12. QED
  BY <1>1, <1>2, <1>3, <1>4, <1>5, <1>9, <1>10, <1>11 DEF Effect, Same

NamesInitiallyUnique ==
  \A store \in InitialStores : \A ns, other \in Namespace :
    store[ns] # None /\ store[other] # None => ns = other

\* A Cluster name is taken in one namespace at most, for any clients and
\* namespaces: what a skipped validator or two creates at once can break,
\* nothing else can.
THEOREM NamesAreUnique ==
  ASSUME NamesInitiallyUnique
  PROVE  Spec => []NameUnique
<1>1. Init => NameInv
  <2> SUFFICES ASSUME Init PROVE NameInv
    OBVIOUS
  <2>1. QED
    BY InitShape DEF Init, NameInv, NameUnique, NamesInitiallyUnique
<1>2. NameInv /\ [Next]_vars => NameInv'
  BY NameStep
<1>3. NameInv => NameUnique
  BY DEF NameInv
<1> HIDE DEF NameInv
<1>4. QED
  BY <1>1, <1>2, <1>3, PTL DEF Spec

-----------------------------------------------------------------------------
(* What the validator has admitted.                                        *)

\* The rules about an object, its old one and the AWSCluster that stay true
\* while a request waits for its write.
Judged(r) ==
  \/ IsCAPI(r.obj.release)
  \/ /\ r.obj.release # None
     /\ Cilium(r.obj, r.old, aws[r.ns])
     /\ UpgradeReleaseIsValid(r.obj)
     /\ IpamModeValid(r.obj) /\ IpamModeUnchanged(r.obj, r.old)
     /\ r.restricted => /\ LabelsValid(r.obj, r.old)
                        /\ r.obj.release # r.old.release =>
                             Major(r.obj.release) \in
                               {Major(r.old.release), Major(r.old.release) + 1}

\* An update writes over the Cluster it was made from.  Its release is one a
\* client has written, and the validator has judged it, unless skipped.
JudgedInv ==
  /\ Shape
  /\ \A c \in Client :
       req[c].pc # "idle" =>
         /\ req[c].restricted \in Restricted
         /\ req[c].op = "update" =>
              /\ req[c].fresh => req[c].old = cluster[req[c].ns]
              /\ \E obj \in UserClusters : req[c].obj.release = obj.release
              /\ req[c].pc = "writing" /\ ~req[c].dry => "skipValidator" \in lapses \/ Judged(req[c])

LEMMA CiliumLasts ==
  ASSUME Lasting, NEW ns \in Namespace, NEW obj, NEW old, Cilium(obj, old, aws[ns])
  PROVE  Cilium(obj, old, aws'[ns])
<1>1. CASE aws[ns] = None /\ aws'[ns] = None
  BY <1>1
<1>2. CASE /\ aws[ns] # None /\ aws'[ns] # None
           /\ aws'[ns].pods = aws[ns].pods /\ aws'[ns].pool = aws[ns].pool
  BY <1>2, Zenon DEF Cilium, NodeNetwork
<1>3. QED
  BY <1>1, <1>2 DEF Lasting

LEMMA JudgedLasts ==
  ASSUME Lasting, NEW c \in Client, SameRequest(req'[c], req[c]), req'[c].obj = req[c].obj,
         req[c].ns \in Namespace, Judged(req[c])
  PROVE  Judged(req[c])'
<1>1. CASE IsCAPI(req[c].obj.release)
  BY <1>1 DEF Judged
<1>2. CASE ~IsCAPI(req[c].obj.release)
  <2>1. /\ req[c].obj.release # None
        /\ Cilium(req[c].obj, req[c].old, aws[req[c].ns])
        /\ UpgradeReleaseIsValid(req[c].obj)
        /\ IpamModeValid(req[c].obj) /\ IpamModeUnchanged(req[c].obj, req[c].old)
        /\ req[c].restricted =>
             /\ LabelsValid(req[c].obj, req[c].old)
             /\ req[c].obj.release # req[c].old.release =>
                  Major(req[c].obj.release) \in
                    {Major(req[c].old.release), Major(req[c].old.release) + 1}
    BY <1>2 DEF Judged
  <2>2. UpgradeReleaseIsValid(req[c].obj)'
    BY <2>1 DEF UpgradeReleaseIsValid, Lasting
  <2>3. Cilium(req[c].obj, req[c].old, aws'[req[c].ns])
    BY <2>1, CiliumLasts
  <2>4. QED
    BY <2>1, <2>2, <2>3 DEF Judged, SameRequest
<1>3. QED
  BY <1>1, <1>2

LEMMA AdmittedIsJudged ==
  ASSUME NEW r, Admitted(r), r.op = "update", ~r.dry
  PROVE  Judged(r)
BY DEF Admitted, ValidateUpdate, Judged, ReleaseVersionValid

LEMMA JudgedStep ==
  ASSUME JudgedInv, [Next]_vars
  PROVE  JudgedInv'
<1>1. Shape /\ Shape' /\ Lasting
  BY Steps DEF JudgedInv
<1> SUFFICES ASSUME NEW c \in Client, req'[c].pc # "idle"
             PROVE  /\ req'[c].restricted \in Restricted
                    /\ req'[c].op = "update" =>
                         /\ req'[c].fresh => req'[c].old = cluster'[req'[c].ns]
                         /\ \E obj \in UserClusters : req'[c].obj.release = obj.release
                         /\ req'[c].pc = "writing" /\ ~req'[c].dry =>
                              "skipValidator" \in lapses' \/ Judged(req[c])'
  BY <1>1 DEF JudgedInv
<1>2. RequestTyped(req[c]) /\ RequestTyped(req'[c])
  BY <1>1 DEF Shape
<1>3. CASE Came(c)
  <2>1. PICK obj \in UserClusters : req'[c].obj = Edited(obj, req'[c].old)
    BY <1>3 DEF Came
  <2>2. req'[c].op = "update" => TypedCluster(req'[c].old)
    BY <1>2 DEF RequestTyped
  <2>3. req'[c].op = "update" => req'[c].obj.release = obj.release
    BY <2>1, <2>2, EditedLemma
  <2>4. QED
    BY <1>3, <2>3 DEF Came
<1>4. CASE WentOn(c)
  <2>1. req[c].pc # "idle" /\ TypedCluster(req[c].obj)
    BY <1>2, <1>4 DEF WentOn, RequestTyped
  <2>2. req'[c].op = "update" => req'[c].obj.release = req[c].obj.release
    BY <1>4, <2>1, MutateUpdateLemma DEF WentOn, Mutated, SameRequest
  <2>3. ASSUME req'[c].op = "update", req'[c].pc = "writing", ~req'[c].dry
        PROVE  "skipValidator" \in lapses' \/ Judged(req[c])'
    <3>1. "skipValidator" \in lapses' \/ Judged(req[c])
      BY <1>4, <2>3, AdmittedIsJudged DEF WentOn, SameRequest
    <3>2. req'[c].obj = req[c].obj /\ SameRequest(req'[c], req[c]) /\ req[c].ns \in Namespace
      BY <1>2, <1>4, <2>1, <2>3 DEF WentOn, RequestTyped
    <3>3. QED
      BY <1>1, <3>1, <3>2, JudgedLasts
  <2>4. QED
    BY <1>4, <2>1, <2>2, <2>3 DEF JudgedInv, WentOn, SameRequest
<1>5. CASE Kept(c)
  <2>1. req[c].pc # "idle" /\ req[c].ns \in Namespace
    BY <1>2, <1>5 DEF Kept, RequestTyped
  <2>2. ASSUME req'[c].op = "update", req'[c].pc = "writing", ~req'[c].dry
        PROVE  "skipValidator" \in lapses' \/ Judged(req[c])'
    <3>1. "skipValidator" \in lapses' \/ Judged(req[c])
      BY <1>1, <1>5, <2>1, <2>2 DEF Kept, SameRequest, Lasting, JudgedInv
    <3>2. QED
      BY <1>1, <1>5, <2>1, <3>1, JudgedLasts DEF Kept
  <2>3. QED
    BY <1>5, <2>1, <2>2 DEF JudgedInv, Kept, SameRequest
<1>6. QED
  BY <1>1, <1>3, <1>4, <1>5, RequestSteps

LEMMA JudgedInvariant == Spec => []JudgedInv
<1>1. Init => JudgedInv
  BY InitShape DEF JudgedInv
<1>2. JudgedInv /\ [Next]_vars => JudgedInv'
  BY JudgedStep
<1> HIDE DEF JudgedInv
<1>3. QED
  BY <1>1, <1>2, PTL DEF Spec

\* A stored Cluster is only replaced by an update that was made from it.
LEMMA Replaced ==
  ASSUME JudgedInv, [Next]_vars, NEW ns \in Namespace, cluster[ns] # None, cluster'[ns] # None
  PROVE  \/ cluster'[ns] = cluster[ns]
         \/ Marked(ns)
         \/ \E c \in Client :
              /\ req[c].op = "update" /\ req[c].ns = ns /\ req[c].pc = "writing" /\ ~req[c].dry
              /\ req[c].old = cluster[ns] /\ req[c].obj = cluster'[ns]
<1>1. ASSUME NEW c \in Client, Written(c), req[c].ns = ns
      PROVE  /\ req[c].op = "update" /\ req[c].pc = "writing" /\ ~req[c].dry
             /\ req[c].old = cluster[ns] /\ req[c].obj = cluster'[ns]
  <2>1. req[c].pc = "writing" /\ Writable(req[c]) /\ ~req[c].dry
    BY <1>1 DEF Written
  <2>2. req[c].op = "update" /\ req[c].fresh
    BY <1>1, <2>1 DEF Writable, JudgedInv, Shape, RequestTyped
  <2>3. QED
    BY <1>1, <2>1, <2>2 DEF Written, JudgedInv
<1>2. QED
  BY <1>1, StoreSteps DEF JudgedInv

\* Conditions on what clients write.  The validator of updates lets any CAPI
\* release pass, and applies some rules to restricted users only.
NoCAPI == \A obj \in UserClusters : ~IsCAPI(obj.release)
AllRestricted == Restricted \subseteq {TRUE}

\* Any clients of a restricted group, together, take a cluster from one major
\* version to the next one.
THEOREM MajorsInOrder ==
  ASSUME NoCAPI, AllRestricted
  PROVE  Spec => MajorByMajor
<1>1. ASSUME JudgedInv, [Next]_vars
      PROVE  \A ns \in Namespace : "skipValidator" \notin lapses /\ Upgrades(ns) =>
               Major(cluster'[ns].release) \in
                 {Major(cluster[ns].release), Major(cluster[ns].release) + 1}
  <2> SUFFICES ASSUME NEW ns \in Namespace, "skipValidator" \notin lapses, Upgrades(ns)
               PROVE  Major(cluster'[ns].release) \in
                        {Major(cluster[ns].release), Major(cluster[ns].release) + 1}
    OBVIOUS
  <2>1. cluster[ns] # None /\ cluster'[ns] # None /\ cluster[ns].release # cluster'[ns].release
    BY DEF Upgrades
  <2>2. ~Marked(ns)
    BY <1>1, <2>1, DeletionLemma DEF Marked, JudgedInv, Shape
  <2>3. PICK c \in Client :
          /\ req[c].op = "update" /\ req[c].ns = ns /\ req[c].pc = "writing" /\ ~req[c].dry
          /\ req[c].old = cluster[ns] /\ req[c].obj = cluster'[ns]
    BY <1>1, <2>1, <2>2, Replaced
  <2>4. Judged(req[c]) /\ req[c].restricted /\ ~IsCAPI(req[c].obj.release)
    BY <1>1, <2>3, NoCAPI, AllRestricted DEF JudgedInv, NoCAPI, AllRestricted
  <2>5. QED
    BY <2>1, <2>3, <2>4 DEF Judged
<1>2. JudgedInv /\ [Next]_vars =>
        [\A ns \in Namespace : "skipValidator" \notin lapses /\ Upgrades(ns) =>
           Major(cluster'[ns].release) \in
             {Major(cluster[ns].release), Major(cluster[ns].release) + 1}]_vars
  BY <1>1
<1> HIDE DEF JudgedInv
<1>3. QED
  BY <1>2, JudgedInvariant, PTL DEF Spec, MajorByMajor

\* Whatever clients write at the same time, and whether or not the mutator
\* answers, Cilium starts with a pod network that is clear of the pods of the
\* AWS CNI and of the network of the nodes, or without one in ENI mode, unless
\* the Cluster is being deleted.  The networks of an AWSCluster never change
\* (AWSClusterObject), so that what the validator has read still holds.
THEOREM CiliumStartsSafely ==
  ASSUME NoCAPI
  PROVE  Spec => CiliumHasPodNetwork
<1> DEFINE Safe(ns) ==
             \/ cluster'[ns].mode = "eni" /\ cluster'[ns].cidr \in {None, Empty}
             \/ /\ cluster'[ns].cidr \notin {None, Empty} \cup InvalidCIDRs
                /\ aws[ns] # None
                /\ <<cluster'[ns].cidr, aws[ns].pods>> \notin Clash
                /\ aws[ns].pool # None => <<cluster'[ns].cidr, aws[ns].pool>> \notin Clash
                /\ aws[ns].pool = None => <<cluster'[ns].cidr, IPAM>> \notin Clash
<1>1. ASSUME JudgedInv, [Next]_vars,
             NEW ns \in Namespace, "skipValidator" \notin lapses, StartsCilium(ns),
             ~cluster'[ns].deleting
      PROVE  Safe(ns)
  <2>1. /\ cluster[ns] # None /\ cluster'[ns] # None
        /\ cluster[ns].release # cluster'[ns].release
        /\ ~IsCilium(cluster[ns].release) /\ IsCilium(cluster'[ns].release)
    BY <1>1 DEF StartsCilium, Upgrades
  <2>2. ~Marked(ns)
    BY <1>1, <2>1, DeletionLemma DEF Marked, JudgedInv, Shape
  <2>3. PICK c \in Client :
          /\ req[c].op = "update" /\ req[c].ns = ns /\ req[c].pc = "writing" /\ ~req[c].dry
          /\ req[c].old = cluster[ns] /\ req[c].obj = cluster'[ns]
    BY <1>1, <2>1, <2>2, Replaced
  <2>4. Judged(req[c]) /\ ~IsCAPI(req[c].obj.release)
    BY <1>1, <2>3, NoCAPI DEF JudgedInv, NoCAPI
  <2>5. Cilium(cluster'[ns], cluster[ns], aws[ns])
    BY <2>3, <2>4 DEF Judged
  <2>6. QED
    BY <1>1, <2>1, <2>5, Zenon DEF Cilium, NodeNetwork
<1>2. JudgedInv /\ [Next]_vars =>
        [\A ns \in Namespace :
           "skipValidator" \notin lapses /\ StartsCilium(ns) /\ ~cluster'[ns].deleting
             => Safe(ns)]_vars
  BY <1>1
<1> HIDE DEF JudgedInv
<1>3. QED
  BY <1>2, JudgedInvariant, PTL DEF Spec, CiliumHasPodNetwork

\* Any clients of a restricted group, together, cannot move a Cluster to
\* another organization.
THEOREM OrganizationStays ==
  ASSUME AllRestricted, \A ns \in Namespace : Org[ns] # None
  PROVE  Spec => OrganizationKept
<1> DEFINE Stays(ns) ==
             /\ "skipValidator" \notin lapses
             /\ cluster[ns] # None /\ cluster[ns].org = Org[ns]
             /\ cluster'[ns] # None /\ ~IsCAPI(cluster'[ns].release)
             => cluster'[ns].org = Org[ns]
<1>1. ASSUME JudgedInv, [Next]_vars, NEW ns \in Namespace
      PROVE  Stays(ns)
  <2> SUFFICES ASSUME "skipValidator" \notin lapses,
                      cluster[ns] # None, cluster[ns].org = Org[ns],
                      cluster'[ns] # None, ~IsCAPI(cluster'[ns].release)
               PROVE  cluster'[ns].org = Org[ns]
    OBVIOUS
  <2>1. CASE cluster'[ns] = cluster[ns]
    BY <2>1
  <2>2. CASE Marked(ns)
    BY <1>1, <2>2, DeletionLemma DEF Marked, JudgedInv, Shape
  <2>3. ASSUME NEW c \in Client,
               req[c].op = "update", req[c].ns = ns, req[c].pc = "writing", ~req[c].dry,
               req[c].old = cluster[ns], req[c].obj = cluster'[ns]
        PROVE  cluster'[ns].org = Org[ns]
    <3>1. Judged(req[c]) /\ req[c].restricted
      BY <1>1, <2>3, AllRestricted DEF JudgedInv, AllRestricted
    <3>2. LabelsValid(cluster'[ns], cluster[ns])
      BY <2>3, <3>1 DEF Judged
    <3>3. QED
      BY <3>2 DEF LabelsValid
  <2>4. QED
    BY <1>1, <2>1, <2>2, <2>3, Replaced
<1>2. JudgedInv /\ [Next]_vars => [\A ns \in Namespace : Stays(ns)]_vars
  BY <1>1
<1> HIDE DEF JudgedInv
<1>3. QED
  BY <1>2, JudgedInvariant, PTL DEF Spec, OrganizationKept

-----------------------------------------------------------------------------
(* What the mutator has made of objects, while no call to it is skipped.   *)

AWSClustersPresent == \A store \in AWSClusters : \A ns \in Namespace : store[ns] # None

PresentInv == Shape /\ \A ns \in Namespace : aws[ns] # None

LEMMA PresentInvariant ==
  ASSUME AWSClustersPresent
  PROVE  Spec => []PresentInv
<1>1. Init => PresentInv
  BY InitShape DEF Init, PresentInv, AWSClustersPresent
<1>2. PresentInv /\ [Next]_vars => PresentInv'
  BY Steps DEF PresentInv, Lasting
<1> HIDE DEF PresentInv
<1>3. QED
  BY <1>1, <1>2, PTL DEF Spec

\* With its AWSCluster there, an update does not make the mutator panic: it is
\* mutated, unless it is a dry run or the call is skipped.
LEMMA UpdateMutated ==
  ASSUME PresentInv, NEW c \in Client, WentOn(c), req[c].pc = "mutating", ~req[c].dry
  PROVE  \/ "skipMutator" \in lapses'
         \/ req[c].op = "create" /\ req'[c].obj \in MutateCreate(req[c].obj)
         \/ /\ req[c].op = "update"
            /\ req'[c].obj \in MutateUpdate(req[c].obj, req[c].old, aws[req[c].ns])
<1>1. req[c].ns \in Namespace /\ req[c].op \in {"create", "update"}
  BY DEF PresentInv, Shape, RequestTyped
<1>2. ~Panics(req[c])
  BY <1>1 DEF PresentInv, Panics
<1>3. QED
  BY <1>1, <1>2 DEF WentOn, Mutated

KubeProxyInv ==
  /\ PresentInv
  /\ "skipMutator" \notin lapses =>
       \A c \in Client :
         /\ req[c].pc \in {"validating", "writing"} /\ req[c].op = "update" /\ ~req[c].dry
         => \/ IsCAPI(req[c].obj.release)
            \/ ChangesCNI(req[c].obj, req[c].old) => req[c].obj.disableKubeProxy

LEMMA KubeProxyStep ==
  ASSUME KubeProxyInv, [Next]_vars
  PROVE  KubeProxyInv'
<1>1. Shape /\ Shape' /\ Lasting /\ PresentInv'
  BY Steps DEF KubeProxyInv, PresentInv, Lasting
<1> SUFFICES ASSUME "skipMutator" \notin lapses', NEW c \in Client,
                    req'[c].pc \in {"validating", "writing"}, req'[c].op = "update", ~req'[c].dry
             PROVE  \/ IsCAPI(req'[c].obj.release)
                    \/ ChangesCNI(req'[c].obj, req'[c].old) => req'[c].obj.disableKubeProxy
  BY <1>1 DEF KubeProxyInv
<1>2. "skipMutator" \notin lapses
  BY <1>1 DEF Lasting
<1>3. CASE WentOn(c) /\ req[c].pc = "mutating"
  <2>1. TypedCluster(req[c].obj)
    BY <1>1, <1>3 DEF Shape, RequestTyped
  <2>2. req'[c].obj \in MutateUpdate(req[c].obj, req[c].old, aws[req[c].ns])
    BY <1>3, UpdateMutated DEF KubeProxyInv, WentOn, SameRequest
  <2>3. \/ IsCAPI(req'[c].obj.release)
        \/ ChangesCNI(req'[c].obj, req[c].old) => req'[c].obj.disableKubeProxy
    BY <2>1, <2>2, MutateUpdateLemma
  <2>4. QED
    BY <1>3, <2>3 DEF WentOn, SameRequest
<1>4. CASE WentOn(c) /\ req[c].pc # "mutating"
  BY <1>2, <1>4 DEF WentOn, SameRequest, KubeProxyInv
<1>5. CASE Kept(c)
  BY <1>2, <1>5 DEF Kept, SameRequest, KubeProxyInv
<1>6. QED
  BY <1>1, <1>3, <1>4, <1>5, RequestSteps DEF Came

\* Where every Cluster has its AWSCluster, none starts to use Cilium in the
\* place of kube-proxy, whatever clients write, also if the validator is
\* skipped.
THEOREM KubeProxyStays ==
  ASSUME NoCAPI, AWSClustersPresent
  PROVE  Spec => KubeProxyKept
<1>1. Spec => []KubeProxyInv
  <2>1. Init => PresentInv
    BY InitShape DEF Init, PresentInv, AWSClustersPresent
  <2>2. Init => KubeProxyInv
    BY <2>1, InitShape DEF KubeProxyInv
  <2>3. KubeProxyInv /\ [Next]_vars => KubeProxyInv'
    BY KubeProxyStep
  <2> HIDE DEF KubeProxyInv
  <2>4. QED
    BY <2>2, <2>3, PTL DEF Spec
<1>2. ASSUME JudgedInv, KubeProxyInv, [Next]_vars,
             NEW ns \in Namespace, "skipMutator" \notin lapses, StartsCilium(ns)
      PROVE  cluster'[ns].disableKubeProxy
  <2>1. /\ cluster[ns] # None /\ cluster'[ns] # None
        /\ cluster[ns].release # cluster'[ns].release
        /\ ~IsCilium(cluster[ns].release) /\ IsCilium(cluster'[ns].release)
    BY <1>2 DEF StartsCilium, Upgrades
  <2>2. ~Marked(ns)
    BY <1>2, <2>1, DeletionLemma DEF Marked, JudgedInv, Shape
  <2>3. PICK c \in Client :
          /\ req[c].op = "update" /\ req[c].ns = ns /\ req[c].pc = "writing" /\ ~req[c].dry
          /\ req[c].old = cluster[ns] /\ req[c].obj = cluster'[ns]
    BY <1>2, <2>1, <2>2, Replaced
  <2>4. ~IsCAPI(req[c].obj.release)
    BY <1>2, <2>3, NoCAPI DEF JudgedInv, NoCAPI
  <2>5. QED
    BY <1>2, <2>1, <2>3, <2>4 DEF KubeProxyInv, ChangesCNI
<1>3. JudgedInv /\ KubeProxyInv /\ [Next]_vars =>
        [\A ns \in Namespace : "skipMutator" \notin lapses /\ StartsCilium(ns) =>
           cluster'[ns].disableKubeProxy]_vars
  BY <1>2
<1> HIDE DEF JudgedInv, KubeProxyInv
<1>4. QED
  BY <1>1, <1>3, JudgedInvariant, PTL DEF Spec, KubeProxyKept

Matches(obj) == IsCAPI(obj.release) \/ obj.operator = obj.release

\* Clients leave the version of the operator to the webhook.
OperatorLeftAlone == \A obj \in UserClusters : obj.operator = None
InitiallyMatching ==
  \A store \in InitialStores : \A ns \in Namespace : store[ns] # None => Matches(store[ns])

\* A request comes with the version of its old object, or none, and goes on
\* with the one of its release.
RequestMatches(r) ==
  /\ r.op = "update" => Matches(r.old)
  /\ r.pc = "mutating" => r.obj.operator = IF r.op = "update" THEN r.old.operator ELSE None
  /\ r.pc \in {"validating", "writing"} /\ ~r.dry => Matches(r.obj)

OperatorInv ==
  /\ PresentInv
  /\ "skipMutator" \notin lapses =>
       /\ \A ns \in Namespace : cluster[ns] # None => Matches(cluster[ns])
       /\ \A c \in Client : req[c].pc # "idle" => RequestMatches(req[c])

LEMMA OperatorStep ==
  ASSUME OperatorLeftAlone, OperatorInv, [Next]_vars
  PROVE  OperatorInv'
<1>1. Shape /\ Shape' /\ Lasting /\ PresentInv'
  BY Steps DEF OperatorInv, PresentInv, Lasting
<1> SUFFICES ASSUME "skipMutator" \notin lapses'
             PROVE  /\ \A ns \in Namespace : cluster'[ns] # None => Matches(cluster'[ns])
                    /\ \A c \in Client : req'[c].pc # "idle" => RequestMatches(req'[c])
  BY <1>1 DEF OperatorInv
<1>2. /\ \A ns \in Namespace : cluster[ns] # None => Matches(cluster[ns])
      /\ \A c \in Client : req[c].pc # "idle" => RequestMatches(req[c])
  BY <1>1 DEF OperatorInv, Lasting
<1>3. ASSUME NEW ns \in Namespace, cluster'[ns] # None
      PROVE  Matches(cluster'[ns])
  <2>1. CASE cluster'[ns] = cluster[ns]
    BY <1>2, <1>3, <2>1
  <2>2. CASE Marked(ns)
    BY <1>1, <1>2, <2>2, DeletionLemma DEF Marked, Shape, Matches
  <2>3. ASSUME NEW c \in Client, Written(c), req[c].ns = ns
        PROVE  Matches(cluster'[ns])
    <3>1. req[c].pc = "writing" /\ ~req[c].dry /\ cluster'[ns] = req[c].obj
      BY <1>3, <2>3 DEF Written
    <3>2. QED
      BY <1>2, <3>1 DEF RequestMatches
  <2>4. QED
    BY <1>1, <2>1, <2>2, <2>3, StoreSteps
<1>4. ASSUME NEW c \in Client, req'[c].pc # "idle"
      PROVE  RequestMatches(req'[c])
  <2>1. RequestTyped(req[c]) /\ RequestTyped(req'[c])
    BY <1>1 DEF Shape
  <2>2. CASE Came(c)
    <3>1. PICK obj \in UserClusters : req'[c].obj = Edited(obj, req'[c].old)
      BY <2>2 DEF Came
    <3>2. /\ req'[c].op = "update" => TypedCluster(req'[c].old) /\ req'[c].old # None
          /\ req'[c].op # "update" => req'[c].old = None
          /\ req'[c].pc = "mutating"
      BY <1>4, <2>1, <2>2 DEF RequestTyped, Came
    <3>3. req'[c].obj.operator = IF req'[c].op = "update" THEN req'[c].old.operator ELSE None
      BY <3>1, <3>2, EditedLemma, OperatorLeftAlone DEF OperatorLeftAlone
    <3>4. req'[c].op = "update" => Matches(req'[c].old)
      BY <1>2, <1>4, <2>1, <2>2 DEF Came, RequestTyped
    <3>5. QED
      BY <3>2, <3>3, <3>4 DEF RequestMatches
  <2>3. CASE WentOn(c) /\ req[c].pc = "mutating"
    <3>1. /\ SameRequest(req'[c], req[c]) /\ req'[c].pc = "validating"
          /\ req[c].op \in {"create", "update"} /\ TypedCluster(req[c].obj)
          /\ RequestMatches(req[c])
      BY <1>2, <2>1, <2>3 DEF WentOn, RequestTyped
    <3>2. ASSUME req[c].op = "create", ~req[c].dry, req'[c].obj \in MutateCreate(req[c].obj)
          PROVE  Matches(req'[c].obj)
      BY <2>3, <3>1, <3>2, MutateCreateLemma DEF RequestMatches, Matches
    <3>3. ASSUME req[c].op = "update", ~req[c].dry,
                 req'[c].obj \in MutateUpdate(req[c].obj, req[c].old, aws[req[c].ns])
          PROVE  Matches(req'[c].obj)
      <4>1. /\ req'[c].obj.release = req[c].obj.release
            /\ \/ IsCAPI(req'[c].obj.release)
               \/ /\ req'[c].obj.operator \in {req[c].obj.operator, req'[c].obj.release}
                  /\ req[c].obj.release # req[c].old.release
                       => req'[c].obj.operator = req'[c].obj.release
        BY <3>1, <3>3, MutateUpdateLemma
      <4>2. req[c].obj.operator = req[c].old.operator /\ Matches(req[c].old)
        BY <2>3, <3>1, <3>3 DEF RequestMatches
      <4>3. QED
        BY <4>1, <4>2 DEF Matches
    <3>4. ~req[c].dry => Matches(req'[c].obj)
      BY <2>3, <3>2, <3>3, UpdateMutated DEF OperatorInv
    <3>5. QED
      BY <3>1, <3>4 DEF RequestMatches, SameRequest
  <2>4. CASE WentOn(c) /\ req[c].pc # "mutating"
    BY <1>2, <2>4 DEF WentOn, SameRequest, RequestMatches
  <2>5. CASE Kept(c)
    BY <1>2, <1>4, <2>5 DEF Kept, SameRequest, RequestMatches
  <2>6. QED
    BY <1>1, <1>4, <2>2, <2>3, <2>4, <2>5, RequestSteps
<1>5. QED
  BY <1>3, <1>4

\* The version of the operator follows the release, whatever releases clients
\* ask for and though two of them may write at once, as long as the mutator is
\* asked and finds the AWSCluster.
THEOREM OperatorFollowsRelease ==
  ASSUME OperatorLeftAlone, InitiallyMatching, AWSClustersPresent
  PROVE  Spec => []OperatorMatchesRelease
<1>1. Init => OperatorInv
  <2>1. Init => PresentInv
    BY InitShape DEF Init, PresentInv, AWSClustersPresent
  <2>2. Init => \A ns \in Namespace : cluster[ns] # None => Matches(cluster[ns])
    BY InitiallyMatching DEF Init, InitiallyMatching
  <2>3. QED
    BY <2>1, <2>2, InitShape DEF OperatorInv
<1>2. OperatorInv /\ [Next]_vars => OperatorInv'
  BY OperatorStep
<1>3. OperatorInv => OperatorMatchesRelease
  BY DEF OperatorInv, OperatorMatchesRelease, Matches
<1> HIDE DEF OperatorInv
<1>4. QED
  BY <1>1, <1>2, <1>3, PTL DEF Spec

-----------------------------------------------------------------------------
(* What is stored stays acceptable.                                        *)

\* The rules an object must satisfy on its own and with its AWSCluster.
Acceptable(obj, awscluster) ==
  /\ ~IsCAPI(obj.release) /\ obj.release # None
  /\ Cilium(obj, obj, awscluster)
  /\ obj.target # None => obj.target \in Release /\ obj.target > obj.release
  /\ IpamModeValid(obj)

InitiallyAcceptable ==
  \A store \in InitialStores, awsclusters \in AWSClusters, ns \in Namespace :
    store[ns] # None => Acceptable(store[ns], awsclusters[ns])

\* Clients do not create Clusters: the validator of creations has not all of
\* these rules.
NoCreation == "create" \notin UserOps

AcceptableInv ==
  /\ JudgedInv
  /\ \A v \in Release : Exists(v)
  /\ "skipValidator" \notin lapses =>
       \A ns \in Namespace : cluster[ns] # None => Acceptable(cluster[ns], aws[ns])

LEMMA AcceptableStep ==
  ASSUME NoCAPI, NoCreation, AcceptableInv, [Next]_vars
  PROVE  AcceptableInv'
<1>1. JudgedInv /\ Shape /\ Lasting /\ JudgedInv'
  BY Steps, JudgedStep DEF AcceptableInv, JudgedInv
<1>2. \A v \in Release : Exists(v)'
  BY <1>1 DEF AcceptableInv, Lasting
<1>3. ASSUME "skipValidator" \notin lapses', NEW ns \in Namespace, cluster'[ns] # None
      PROVE  Acceptable(cluster'[ns], aws'[ns])
  <2>1. "skipValidator" \notin lapses
    BY <1>1, <1>3 DEF Lasting
  <2>2. Acceptable(cluster'[ns], aws[ns])
    <3>1. CASE cluster'[ns] = cluster[ns]
      BY <1>3, <2>1, <3>1 DEF AcceptableInv
    <3>2. CASE Marked(ns)
      <4>1. Acceptable(cluster[ns], aws[ns]) /\ TypedCluster(cluster[ns])
        BY <1>1, <2>1, <3>2 DEF Marked, AcceptableInv, Shape
      <4>2. /\ cluster'[ns].release = cluster[ns].release
            /\ cluster'[ns].target = cluster[ns].target
            /\ cluster'[ns].mode = cluster[ns].mode
            /\ cluster'[ns].deleting
        BY <3>2, <4>1, DeletionLemma DEF Marked
      <4>3. QED
        BY <4>1, <4>2 DEF Acceptable, Cilium, IpamModeValid
    <3>3. ASSUME NEW c \in Client, Written(c), req[c].ns = ns
          PROVE  Acceptable(cluster'[ns], aws[ns])
      <4>1. /\ req[c].pc = "writing" /\ ~req[c].dry /\ req[c].op = "update"
            /\ cluster'[ns] = req[c].obj
        BY <1>1, <1>3, <3>3 DEF Written, Shape, RequestTyped, NoCreation
      <4>2. Judged(req[c]) /\ ~IsCAPI(req[c].obj.release)
        BY <1>1, <2>1, <4>1, NoCAPI DEF JudgedInv, NoCAPI
      <4>3. /\ Cilium(req[c].obj, req[c].old, aws[ns])
            /\ UpgradeReleaseIsValid(req[c].obj)
            /\ IpamModeValid(req[c].obj) /\ req[c].obj.release # None
        BY <3>3, <4>2 DEF Judged
      <4>4. Cilium(req[c].obj, req[c].obj, aws[ns])
        BY <4>3, Zenon DEF Cilium
      <4>5. QED
        BY <4>1, <4>2, <4>3, <4>4 DEF Acceptable, UpgradeReleaseIsValid, Exists
    <3>4. QED
      BY <1>1, <3>1, <3>2, <3>3, StoreSteps
  <2>3. QED
    BY <1>1, <2>2, CiliumLasts DEF Acceptable
<1>4. QED
  BY <1>1, <1>2, <1>3 DEF AcceptableInv

LEMMA AcceptableInvariant ==
  ASSUME NoCAPI, NoCreation, InitiallyAcceptable
  PROVE  Spec => []AcceptableInv
<1>1. Init => AcceptableInv
  <2> SUFFICES ASSUME Init PROVE AcceptableInv
    OBVIOUS
  <2>1. JudgedInv
    BY InitShape DEF JudgedInv
  <2>2. \A v \in Release : Exists(v)
    BY DEF Init, Exists
  <2>3. \A ns \in Namespace : cluster[ns] # None => Acceptable(cluster[ns], aws[ns])
    BY InitiallyAcceptable DEF Init, InitiallyAcceptable
  <2>4. QED
    BY <2>1, <2>2, <2>3 DEF AcceptableInv
<1>2. AcceptableInv /\ [Next]_vars => AcceptableInv'
  BY AcceptableStep
<1> HIDE DEF AcceptableInv
<1>3. QED
  BY <1>1, <1>2, PTL DEF Spec

\* A schedule never falls behind the release, though both are changed by any
\* number of clients.
THEOREM SchedulesLieAhead ==
  ASSUME NoCAPI, NoCreation, InitiallyAcceptable
  PROVE  Spec => []ScheduleAhead
<1>1. AcceptableInv => ScheduleAhead
  BY DEF AcceptableInv, Acceptable, ScheduleAhead
<1>2. QED
  BY <1>1, AcceptableInvariant, PTL

\* A stored Cluster can always be written as it is, as time passes, releases
\* are deprecated and the operators lag behind.
THEOREM StoredIsAdmitted ==
  ASSUME NoCAPI, NoCreation, InitiallyAcceptable
  PROVE  Spec => []NoOpAdmitted
<1>1. ASSUME AcceptableInv, "skipValidator" \notin lapses,
             NEW ns \in Namespace, cluster[ns] # None
      PROVE  ValidateUpdate([ns |-> ns, restricted |-> TRUE,
                             obj |-> cluster[ns], old |-> cluster[ns]])
  <2>1. Acceptable(cluster[ns], aws[ns])
    BY <1>1 DEF AcceptableInv
  <2>2. UpgradeReleaseIsValid(cluster[ns])
    BY <1>1, <2>1 DEF AcceptableInv, Acceptable, UpgradeReleaseIsValid
  <2>3. /\ EnsureGitopsPaused(cluster[ns], cluster[ns])
        /\ UpgradeTimeIsValid(cluster[ns], cluster[ns])
        /\ ClusterStatusValid(cluster[ns], cluster[ns], aws[ns])
        /\ LabelsValid(cluster[ns], cluster[ns])
        /\ ReleaseVersionValid(cluster[ns], cluster[ns])
        /\ IpamModeUnchanged(cluster[ns], cluster[ns])
    BY DEF EnsureGitopsPaused, UpgradeTimeIsValid, ClusterStatusValid, LabelsValid,
           ReleaseVersionValid, IpamModeUnchanged
  <2>4. QED
    BY <2>1, <2>2, <2>3 DEF Acceptable, ValidateUpdate
<1>2. AcceptableInv => NoOpAdmitted
  BY <1>1 DEF NoOpAdmitted
<1>3. QED
  BY <1>2, AcceptableInvariant, PTL

\* As long as the validator is asked, a Cluster that has run Cilium in a mode
\* runs Cilium in this mode, unless it is gone.
InMode(ns, mode) ==
  "skipValidator" \notin lapses /\ cluster[ns] # None =>
    IsCilium(cluster[ns].release) /\ Mode(cluster[ns]) = mode

CiliumStartsAMajor == FirstCilium % 10 = 0

LEMMA MajorsKeepCilium ==
  ASSUME CiliumStartsAMajor, NEW old \in Nat, NEW new \in Nat, IsCilium(old),
         Major(new) \in {Major(old), Major(old) + 1}
  PROVE  IsCilium(new)
BY ReleasesAssumption DEF CiliumStartsAMajor, IsCilium, Major

LEMMA ModeStep ==
  ASSUME NoCAPI, NoCreation, AllRestricted, CiliumStartsAMajor,
         AcceptableInv, AcceptableInv', [Next]_vars,
         NEW ns \in Namespace, NEW mode, InMode(ns, mode)
  PROVE  InMode(ns, mode)'
<1>1. JudgedInv /\ Shape /\ Shape' /\ Lasting
  BY Steps DEF AcceptableInv, JudgedInv
<1> SUFFICES ASSUME "skipValidator" \notin lapses', cluster'[ns] # None
             PROVE  IsCilium(cluster'[ns].release) /\ Mode(cluster'[ns]) = mode
  BY DEF InMode
<1>2. "skipValidator" \notin lapses
  BY <1>1 DEF Lasting
<1>3. cluster[ns] # None
  <2>1. ASSUME NEW c \in Client, Written(c), req[c].ns = ns
        PROVE  cluster[ns] # None
    BY <1>1, <2>1 DEF Written, Writable, Shape, RequestTyped, NoCreation
  <2>2. QED
    BY <1>1, <2>1, StoreSteps DEF Marked
<1>4. IsCilium(cluster[ns].release) /\ Mode(cluster[ns]) = mode
  BY <1>2, <1>3 DEF InMode
<1>5. CASE cluster'[ns] = cluster[ns]
  BY <1>4, <1>5
<1>6. CASE Marked(ns)
  BY <1>1, <1>4, <1>6, DeletionLemma DEF Marked, Shape, Mode
<1>7. ASSUME NEW c \in Client,
             req[c].op = "update", req[c].ns = ns, req[c].pc = "writing", ~req[c].dry,
             req[c].old = cluster[ns], req[c].obj = cluster'[ns]
      PROVE  IsCilium(cluster'[ns].release) /\ Mode(cluster'[ns]) = mode
  <2>1. Judged(req[c]) /\ req[c].restricted /\ ~IsCAPI(req[c].obj.release)
    BY <1>1, <1>2, <1>7, NoCAPI, AllRestricted DEF JudgedInv, NoCAPI, AllRestricted
  <2>2. /\ IpamModeUnchanged(cluster'[ns], cluster[ns])
        /\ cluster'[ns].release # cluster[ns].release =>
             Major(cluster'[ns].release) \in
               {Major(cluster[ns].release), Major(cluster[ns].release) + 1}
    BY <1>7, <2>1 DEF Judged
  <2>3. cluster[ns].release \in Nat /\ cluster'[ns].release \in Nat
    BY <1>1, <1>2, <1>3 DEF AcceptableInv, Acceptable, Shape, TypedCluster
  <2>4. IsCilium(cluster'[ns].release)
    BY <1>4, <2>2, <2>3, MajorsKeepCilium
  <2>5. Mode(cluster'[ns]) = Mode(cluster[ns])
    BY <1>4, <2>2 DEF IpamModeUnchanged
  <2>6. QED
    BY <1>4, <2>4, <2>5
<1>8. QED
  BY <1>1, <1>3, <1>5, <1>6, <1>7, Replaced

\* Once a cluster runs Cilium its IPAM mode is settled for good, as long as
\* restricted users upgrade it and nobody creates another one of its name.
THEOREM ModeIsSettled ==
  ASSUME NoCAPI, NoCreation, AllRestricted, CiliumStartsAMajor, InitiallyAcceptable
  PROVE  Spec => ModeFixed
<1> DEFINE Has(ns, mode) ==
             cluster[ns] # None /\ IsCilium(cluster[ns].release) /\ Mode(cluster[ns]) = mode
           Settled(ns, mode) ==
             cluster[ns] # None /\ IsCilium(cluster[ns].release)
               /\ "skipValidator" \notin lapses => Mode(cluster[ns]) = mode
<1>1. ASSUME NEW ns \in Namespace, NEW mode \in {"eni", "kubernetes"}
      PROVE  Spec => [](Has(ns, mode) => []Settled(ns, mode))
  <2>1. AcceptableInv /\ AcceptableInv' /\ InMode(ns, mode) /\ [Next]_vars => InMode(ns, mode)'
    BY ModeStep
  <2>2. Has(ns, mode) => InMode(ns, mode)
    BY DEF InMode
  <2>3. InMode(ns, mode) => Settled(ns, mode)
    BY DEF InMode
  <2> HIDE DEF Has, Settled, AcceptableInv, InMode
  <2>4. QED
    BY <2>1, <2>2, <2>3, AcceptableInvariant, PTL DEF Spec
<1>2. QED
  BY <1>1 DEF ModeFixed
=============================================================================
