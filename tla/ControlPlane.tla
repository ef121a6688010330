---------------------------- MODULE ControlPlane ----------------------------
(***************************************************************************)
(* Admission of the two CRs that describe the control plane of one         *)
(* cluster: the G8sControlPlane, whose replicas is the number of masters,  *)
(* and the AWSControlPlane, whose availabilityZones has one entry for each *)
(* master.  Each kind has a mutating and a validating webhook, and each    *)
(* webhook reads the other CR from the API server.  The mutator of the     *)
(* G8sControlPlane also WRITES the other CR: when the masters go from 1 to *)
(* 3 it updates the AWSControlPlane, an update that is itself admitted by  *)
(* the webhooks of the AWSControlPlane while the first request waits.      *)
(*                                                                         *)
(* The API server (external) serves a request in three steps: it calls the *)
(* mutating webhook, calls the validating webhook, and writes the object.  *)
(* It writes an update only if the stored object is still the one the      *)
(* request was built from (resourceVersion), and a create only if there is *)
(* none.  Both webhooks have failurePolicy Ignore                          *)
(* (helm/aws-admission-controller/templates/webhook.yaml): a call that     *)
(* times out is skipped, and its handler goes on without anyone waiting.   *)
(***************************************************************************)
EXTENDS ZoneChoice, Sequences, Functions

CONSTANTS
  Client,          \* clients, each with at most one request in flight
  IgnoreAZUnique,  \* TRUE in the regions cn-north and cn-northwest
  HAReleases,      \* whether the CRs name a release from 11.4.0 on, one before, or either
  MasterAZs,       \* zones of the master in the AWSCluster; None: no AWSCluster
  CPName,          \* the name the two CRs share
  NoLabel,         \* an absent control-plane label
  None,            \* no object
  MaxRetries,      \* retries of the update of the AWSControlPlane (the code: 3)
  UserReplicas,    \* the replicas a client may write; 0 leaves them unset
  UserAZs,         \* the zone lists a client may write; << >> leaves them nil
  UserLabels,      \* the control-plane labels a client may write
  UserOps,         \* the <<kind, operation>> pairs clients submit
  DryRuns,         \* the dryRun flags clients submit
  InitialStores,   \* the contents of the API server a behaviour may start with
  Faults           \* the failures that may happen, a subset of FaultKinds

G8s == "G8sControlPlane"
AWS == "AWSControlPlane"
Kinds == {G8s, AWS}
Other(kind) == IF kind = G8s THEN AWS ELSE G8s

FaultKinds == {"listError", "skipMutator", "skipValidator", "lostReply", "crash"}

\* What this code calls a valid number of masters: ValidMasterReplicas().
ValidMasterReplicas == {1, 3}

DefaultMasterReplicas == 3

ASSUME ZonesAssumption ==
  /\ ValidAZs \subseteq Nat
  /\ IsFiniteSet(ValidAZs)
  /\ ValidAZs # {}
  /\ MasterAZs \ {None} \subseteq Nat
ASSUME RetriesAssumption == MaxRetries \in Nat
ASSUME FlagsAssumption ==
  /\ IgnoreAZUnique \in BOOLEAN
  /\ HAReleases \subseteq BOOLEAN
  /\ DryRuns \subseteq BOOLEAN
  /\ Faults \subseteq FaultKinds
ASSUME InputsAssumption ==
  /\ UserReplicas \subseteq Nat
  /\ \A azs \in UserAZs : azs \in Seq(Nat)
  /\ UserOps \subseteq Kinds \X {"create", "update", "delete"}

VARIABLES
  store,  \* [kind -> the stored object or None], held by the API server
  req,    \* the requests as the API server sees them
  hdl,    \* the goroutine that serves a client's G8sControlPlane update
  unvalidated  \* history: some validating call has been skipped

vars == <<store, req, hdl, unvalidated>>

\* A client's own request, and the one its handler makes on the way.
User(c) == <<c, "user">>
Nested(c) == <<c, "nested">>
Request == Client \X {"user", "nested"}

IdleRequest == [pc |-> "idle", kind |-> G8s, op |-> "create", dry |-> FALSE,
                obj |-> None, old |-> None, fresh |-> FALSE]
IdleHandler == [pc |-> "idle", cp |-> None, fresh |-> FALSE, tries |-> 0]

-----------------------------------------------------------------------------
(* What the webhooks compute.                                              *)

\* A fetcher's answer: the stored object.  A failing List is reported as
\* notFoundError, and every caller goes on as if there were no object.
Fetched(kind) == {store[kind]} \cup IF "listError" \in Faults THEN {None} ELSE {}

MutateControlPlaneLabel(obj) ==
  IF obj.label = NoLabel THEN [obj EXCEPT !.label = CPName] ELSE obj

\* Replicas are defaulted only when unset: as many as the AWSControlPlane has
\* zones, 3 if there is none, and 1 before HA masters existed.
MutateReplicas(obj, awscp, ha) ==
  LET zones == IF awscp = None THEN 0 ELSE Len(awscp.azs)
  IN  IF obj.replicas # 0 THEN obj
      ELSE [obj EXCEPT !.replicas =
              IF ~ha THEN 1
              ELSE IF zones # 0 THEN zones ELSE DefaultMasterReplicas]

\* The AWSControlPlanes the mutator may answer with: zones are defaulted only
\* when nil, from the replicas of the G8sControlPlane, or in a release without
\* HA masters from the AWSCluster (masterAZ).  A missing AWSCluster denies the
\* request.
MutateAvailabilityZones(obj, g8s, masterAZ, ha) ==
  LET replicas == IF g8s = None THEN 0 ELSE g8s.replicas
      n == IF replicas # 0 THEN replicas ELSE DefaultMasterReplicas
  IN  IF ~ha /\ masterAZ = None THEN {}
      ELSE IF obj.azs # << >> THEN {obj}
      ELSE {[obj EXCEPT !.azs = azs] :
              azs \in IF ha THEN GetNavailabilityZones(n) ELSE {<<masterAZ>>}}

\* Mutant: the zones that are there are not counted.
ReplicasFromSingleToHA(new, old, awscp) == new.replicas = 3 /\ old.replicas = 1

IsUpdateFromSingleToHA(new, old, awscp) ==
  /\ new.replicas = 3
  /\ old.replicas = 1
  /\ Len(awscp.azs) = 1

ReplicaCount(obj) == obj.replicas \in ValidMasterReplicas
AZCount(azs) == Len(azs) \in ValidMasterReplicas
AZValid(azs) == azs # << >> /\ Range(azs) \subseteq ValidAZs
AZUnique(azs) ==
  \/ IgnoreAZUnique
  \/ Cardinality(Range(azs)) = Cardinality(ValidAZs)
  \/ Cardinality(Range(azs)) = Len(azs)

\* orderChanged: an entry of the shorter list is in the longer one, but not
\* at its own position.
Displaced(short, long) ==
  \E i \in DOMAIN short : short[i] \in Range(long) /\ short[i] # long[i]
OrderChanged(old, new) ==
  IF Len(old) <= Len(new) THEN Displaced(old, new) ELSE Displaced(new, old)

ControlPlaneLabelMatch(obj, other) == obj.label = other.label
Matches(g8s, awscp) == g8s.replicas = Len(awscp.azs)

\* Mutant: the zones are not compared.
G8sAdmittedAlone(r, awscp) == ReplicaCount(r.obj)

\* ValidateCreate and ValidateUpdate of the G8sControlPlane.
G8sAdmitted(r, awscp) ==
  /\ ReplicaCount(r.obj)
  /\ awscp # None => Matches(r.obj, awscp)

\* Mutants: no comparison with the replicas, or the order, or repeated zones.
AWSAdmittedUnmatched(r, g8s) ==
  /\ AZCount(r.obj.azs) /\ AZValid(r.obj.azs) /\ AZUnique(r.obj.azs)
  /\ r.op = "update" => ~OrderChanged(r.old.azs, r.obj.azs)
  /\ g8s # None => ControlPlaneLabelMatch(r.obj, g8s)
AWSAdmittedUnordered(r, g8s) ==
  /\ AZCount(r.obj.azs) /\ AZValid(r.obj.azs) /\ AZUnique(r.obj.azs)
  /\ g8s # None => ControlPlaneLabelMatch(r.obj, g8s)
AWSAdmittedRepeated(r, g8s) ==
  /\ AZCount(r.obj.azs) /\ AZValid(r.obj.azs)
  /\ r.op = "update" => ~OrderChanged(r.old.azs, r.obj.azs)
  /\ g8s # None => ControlPlaneLabelMatch(r.obj, g8s)

\* ValidateCreate and ValidateUpdate of the AWSControlPlane: only a create is
\* compared with the replicas, only an update with the old zones.
AWSAdmitted(r, g8s) ==
  /\ AZCount(r.obj.azs)
  /\ AZValid(r.obj.azs)
  /\ AZUnique(r.obj.azs)
  /\ r.op = "update" => ~OrderChanged(r.old.azs, r.obj.azs)
  /\ g8s # None => ControlPlaneLabelMatch(r.obj, g8s)
  /\ r.op = "create" /\ g8s # None => Matches(g8s, r.obj)

Admitted(r, other) ==
  IF r.kind = G8s THEN G8sAdmitted(r, other) ELSE AWSAdmitted(r, other)

-----------------------------------------------------------------------------
(* The API server.                                                         *)

Init ==
  /\ store \in InitialStores
  /\ req = [r \in Request |-> IdleRequest]
  /\ hdl = [c \in Client |-> IdleHandler]
  /\ unvalidated = FALSE

Inputs(kind) == IF kind = G8s THEN [replicas : UserReplicas, label : UserLabels]
                ELSE [azs : UserAZs, label : UserLabels]

\* A client submits a request; its next one waits until the handler of the
\* last one and the update that handler made are over (a bound of the model).
Submit(c) ==
  /\ req[User(c)].pc = "idle" /\ req[Nested(c)].pc = "idle" /\ hdl[c].pc = "idle"
  /\ \E kind \in Kinds, op \in {"create", "update"}, dry \in DryRuns :
       /\ <<kind, op>> \in UserOps
       /\ op = "update" => store[kind] # None
       /\ \E obj \in Inputs(kind) :
            req' = [req EXCEPT ![User(c)] =
              [pc |-> "mutating", kind |-> kind, op |-> op, dry |-> dry, obj |-> obj,
               old |-> IF op = "update" THEN store[kind] ELSE None,
               fresh |-> TRUE]]
  /\ UNCHANGED <<store, hdl, unvalidated>>

\* After a write every request and every handler that holds an older copy of
\* the object is stale.
StaleRequests(reqs, kind) ==
  [r \in Request |-> IF reqs[r].kind = kind /\ reqs[r].fresh
                       THEN [reqs[r] EXCEPT !.fresh = FALSE] ELSE reqs[r]]
StaleHandlers(hdls, kind) ==
  [c \in Client |-> IF kind = AWS /\ hdls[c].fresh
                      THEN [hdls[c] EXCEPT !.fresh = FALSE] ELSE hdls[c]]

\* What the handler that called the API server learns of its update.
Told(r, answers) ==
  IF r[2] = "nested" /\ hdl[r[1]].pc = "calling"
    THEN {[hdl EXCEPT ![r[1]].pc = a] : a \in answers}
    ELSE {hdl}

\* No webhook is called for a delete.
Delete(kind) ==
  /\ <<kind, "delete">> \in UserOps
  /\ store[kind] # None
  /\ store' = [store EXCEPT ![kind] = None]
  /\ req' = StaleRequests(req, kind)
  /\ hdl' = StaleHandlers(hdl, kind)
  /\ UNCHANGED unvalidated

\* The request r ends, its object written or not.
Done(r) == [req EXCEPT ![r] = IdleRequest]

Deny(r) ==
  /\ req' = Done(r)
  /\ hdl' \in Told(r, {"failed"})
  /\ UNCHANGED <<store, unvalidated>>

\* The answer of the mutating webhook: the object with the patch applied.
Patched(r, obj) ==
  /\ req' = [req EXCEPT ![r].pc = "validating", ![r].obj = obj]
  /\ UNCHANGED <<store, hdl, unvalidated>>

\* A dry run, an AWSControlPlane or a new G8sControlPlane: the mutator reads
\* at most one other CR and writes none.
Mutate(r) ==
  /\ req[r].pc = "mutating"
  /\ \/ /\ req[r].dry
        /\ Patched(r, req[r].obj)
     \/ /\ ~req[r].dry /\ req[r].kind = G8s /\ req[r].op = "create"
        /\ \E awscp \in Fetched(AWS), ha \in HAReleases :
             Patched(r, MutateReplicas(MutateControlPlaneLabel(req[r].obj), awscp, ha))
     \/ /\ ~req[r].dry /\ req[r].kind = AWS
        /\ \E g8s \in Fetched(G8s), az \in MasterAZs, ha \in HAReleases :
             LET obj == IF req[r].op = "create" THEN MutateControlPlaneLabel(req[r].obj)
                        ELSE req[r].obj
                 results == MutateAvailabilityZones(obj, g8s, az, ha)
             IN  \/ \E new \in results : Patched(r, new)
                 \/ results = {} /\ Deny(r)

\* Mutant: a dry run goes as far as a real one.
MutateG8sUpdateDry(c) ==
  LET r == req[User(c)] IN
  /\ r.pc = "mutating" /\ r.kind = G8s /\ r.op = "update"
  /\ hdl[c].pc = "idle"
  /\ \E awscp \in Fetched(AWS), ha \in HAReleases :
       IF awscp # None /\ IsUpdateFromSingleToHA(r.obj, r.old, awscp)
         THEN /\ hdl' = [hdl EXCEPT ![c] =
                   [pc |-> "update", cp |-> awscp, fresh |-> TRUE, tries |-> 0]]
              /\ UNCHANGED <<store, req, unvalidated>>
         ELSE Patched(User(c), MutateReplicas(r.obj, awscp, ha))

\* The mutator of a changed G8sControlPlane reads the AWSControlPlane, and
\* answers at once unless this is the change from 1 to 3 masters.
MutateG8sUpdate(c) ==
  LET r == req[User(c)] IN
  /\ r.pc = "mutating" /\ ~r.dry /\ r.kind = G8s /\ r.op = "update"
  /\ hdl[c].pc = "idle"
  /\ \E awscp \in Fetched(AWS), ha \in HAReleases :
       IF awscp # None /\ IsUpdateFromSingleToHA(r.obj, r.old, awscp)
         THEN /\ hdl' = [hdl EXCEPT ![c] =
                   [pc |-> "update", cp |-> awscp, fresh |-> TRUE, tries |-> 0]]
              /\ UNCHANGED <<store, req, unvalidated>>
         ELSE Patched(User(c), MutateReplicas(r.obj, awscp, ha))

\* One attempt of the update: new zones in the copy the mutator read.  A copy
\* that is no longer the stored object is refused as a conflict.
CallUpdate(c) ==
  /\ hdl[c].pc = "update"
  /\ IF hdl[c].fresh
       THEN /\ \E azs \in GetHAavailabilityZones(hdl[c].cp.azs[1]) :
                 req' = [req EXCEPT ![Nested(c)] =
                   [pc |-> "mutating", kind |-> AWS, op |-> "update", dry |-> FALSE,
                    obj |-> [hdl[c].cp EXCEPT !.azs = azs], old |-> store[AWS],
                    fresh |-> TRUE]]
            /\ hdl' = [hdl EXCEPT ![c].pc = "calling"]
       ELSE /\ hdl' = [hdl EXCEPT ![c].pc = "failed"]
            /\ UNCHANGED req
  /\ UNCHANGED <<store, unvalidated>>

\* Mutants: one retry too many, and retries that are not counted.
RetryUpdateOnceMore(c) ==
  /\ hdl[c].pc = "failed" /\ hdl[c].tries <= MaxRetries
  /\ hdl' = [hdl EXCEPT ![c].pc = "update", ![c].tries = @ + 1]
  /\ UNCHANGED <<store, req, unvalidated>>
RetryUpdateForever(c) ==
  /\ hdl[c].pc = "failed" /\ hdl[c].tries < MaxRetries
  /\ hdl' = [hdl EXCEPT ![c].pc = "update"]
  /\ UNCHANGED <<store, req, unvalidated>>

\* backoff.Retry: another attempt after a failed one, MaxRetries times.
RetryUpdate(c) ==
  /\ hdl[c].pc = "failed" /\ hdl[c].tries < MaxRetries
  /\ hdl' = [hdl EXCEPT ![c].pc = "update", ![c].tries = @ + 1]
  /\ UNCHANGED <<store, req, unvalidated>>

\* Mutant: no answer once every attempt has failed.
AnswerUpdateIfDone(c) ==
  /\ hdl[c].pc = "updated"
  /\ hdl' = [hdl EXCEPT ![c] = IdleHandler]
  /\ req' = IF req[User(c)].pc # "mutating" THEN req
            ELSE [req EXCEPT ![User(c)].pc = "validating"]
  /\ UNCHANGED <<store, unvalidated>>

\* The mutator answers the API server, if that is still waiting: with an error,
\* which denies the request, or with the object as it is.
AnswerUpdate(c) ==
  /\ \/ hdl[c].pc = "failed" /\ hdl[c].tries >= MaxRetries
     \/ hdl[c].pc = "updated"
  /\ hdl' = [hdl EXCEPT ![c] = IdleHandler]
  /\ req' = IF req[User(c)].pc # "mutating" THEN req
            ELSE IF hdl[c].pc = "failed" THEN Done(User(c))
            ELSE [req EXCEPT ![User(c)].pc = "validating"]
  /\ UNCHANGED <<store, unvalidated>>

\* The validating webhook reads the other CR and decides.
Validate(r) ==
  /\ req[r].pc = "validating"
  /\ \E other \in Fetched(Other(req[r].kind)) :
       \/ /\ Admitted(req[r], other)
          /\ req' = [req EXCEPT ![r].pc = "writing"]
          /\ UNCHANGED <<store, hdl, unvalidated>>
       \/ ~Admitted(req[r], other) /\ Deny(r)

Writable(r) == /\ req[r].op = "create" => store[req[r].kind] = None
               /\ req[r].op = "update" => store[req[r].kind] # None /\ req[r].fresh

\* The API server writes the object, unless it has changed since, and nothing
\* on a dry run.  The answer to a handler may be lost.
Write(r) ==
  LET kind == req[r].kind
      answers == {"updated"} \cup IF "lostReply" \in Faults THEN {"failed"} ELSE {}
  IN  /\ req[r].pc = "writing" /\ Writable(r) /\ ~req[r].dry
      /\ store' = [store EXCEPT ![kind] = req[r].obj]
      /\ req' = StaleRequests(Done(r), kind)
      /\ \E h \in Told(r, answers) : hdl' = StaleHandlers(h, kind)
      /\ UNCHANGED unvalidated

Refuse(r) ==
  /\ req[r].pc = "writing" /\ (~Writable(r) \/ req[r].dry)
  /\ Deny(r)

-----------------------------------------------------------------------------
(* Failures.                                                               *)

\* The call of the mutating webhook fails or times out and is skipped; a
\* handler that has started goes on.
SkipMutator(r) ==
  /\ "skipMutator" \in Faults
  /\ req[r].pc = "mutating"
  /\ Patched(r, req[r].obj)

\* The same for the validating webhook.
SkipValidator(r) ==
  /\ "skipValidator" \in Faults
  /\ req[r].pc = "validating"
  /\ req' = [req EXCEPT ![r].pc = "writing"]
  /\ unvalidated' = TRUE
  /\ UNCHANGED <<store, hdl>>

\* The process that runs the handler exits: a crash, or a SIGTERM, on which
\* serveTLS returns without waiting for its handlers.  The API server skips
\* the call; an update the handler had sent goes on.
Crash(c) ==
  /\ "crash" \in Faults
  /\ hdl[c].pc # "idle"
  /\ hdl' = [hdl EXCEPT ![c] = IdleHandler]
  /\ req' = IF req[User(c)].pc = "mutating"
              THEN [req EXCEPT ![User(c)].pc = "validating"] ELSE req
  /\ UNCHANGED <<store, unvalidated>>

-----------------------------------------------------------------------------
Handle(c) == MutateG8sUpdate(c) \/ CallUpdate(c) \/ RetryUpdate(c) \/ AnswerUpdate(c)
Serve(r) == Mutate(r) \/ Validate(r) \/ Write(r) \/ Refuse(r)
Fail(r) == SkipMutator(r) \/ SkipValidator(r)

Next ==
  \/ \E c \in Client : Submit(c) \/ Handle(c) \/ Crash(c)
  \/ \E r \in Request : Serve(r) \/ Fail(r)
  \/ \E kind \in Kinds : Delete(kind)

Spec == Init /\ [][Next]_vars

\* The API server serves every request and the Go runtime runs every handler.
FairSpec ==
  /\ Spec
  /\ \A c \in Client : WF_vars(Handle(c))
  /\ \A r \in Request : WF_vars(Serve(r))

-----------------------------------------------------------------------------
(* Properties.                                                             *)

Label == UserLabels \cup {CPName}
G8sObject == [replicas : Nat, label : Label]
AWSObject == [azs : Seq(Nat), label : Label]
Object(kind) == IF kind = G8s THEN G8sObject ELSE AWSObject

\* Requests and handlers that hold objects of the right kind; a handler only
\* ever holds an AWSControlPlane with one zone.
RequestState ==
  {IdleRequest} \cup
  {r \in [pc : {"mutating", "validating", "writing"}, kind : Kinds,
          op : {"create", "update"}, dry : BOOLEAN, obj : G8sObject \cup AWSObject,
          old : G8sObject \cup AWSObject \cup {None}, fresh : BOOLEAN] :
     /\ r.obj \in Object(r.kind)
     /\ r.op = "update" => r.old \in Object(r.kind)}
HandlerState ==
  {IdleHandler} \cup
  {h \in [pc : {"update", "calling", "updated", "failed"}, cp : AWSObject,
          fresh : BOOLEAN, tries : 0..MaxRetries] : Len(h.cp.azs) = 1}

\* A store whose objects are of their kind.
TypedStores ==
  {s \in [Kinds -> G8sObject \cup AWSObject \cup {None}] :
     \A kind \in Kinds : s[kind] \in Object(kind) \cup {None}}

\* A missing object is none of the objects.
ASSUME NoneAssumption == None \notin G8sObject \cup AWSObject
ASSUME InitialAssumption == \A s \in InitialStores : s \in TypedStores

Typed ==
  /\ store \in TypedStores
  /\ req \in [Request -> RequestState]
  /\ hdl \in [Client -> HandlerState]

\* The types of the variables.
TypeOK == Typed /\ unvalidated \in BOOLEAN

ValidZones(azs) == AZCount(azs) /\ AZValid(azs) /\ AZUnique(azs)
AdmissibleObject(kind, obj) ==
  IF kind = G8s THEN ReplicaCount(obj) ELSE ValidZones(obj.azs)

\* Whatever happens in between, only objects with a valid number of masters,
\* with zones of the installation and as many distinct ones as there can be,
\* are ever stored, as long as no validating call is skipped.
StoredAdmissible ==
  ~unvalidated => \A kind \in Kinds : store[kind] # None => AdmissibleObject(kind, store[kind])

\* The zones the mutator chooses when it scales up are never the reason why
\* the validator denies that update.
ScaleUpAdmissible ==
  ~unvalidated => \A c \in Client :
    LET r == req[Nested(c)] IN
    r.pc = "validating" => ValidZones(r.obj.azs) /\ ~OrderChanged(r.old.azs, r.obj.azs)

\* No master that stays is ever moved: across every write of the
\* AWSControlPlane, by clients and handlers in any order, a zone in use before
\* and after is used by the same master, as long as no validating call is
\* skipped.
MastersStay ==
  [][~unvalidated /\ store[AWS] # None /\ store'[AWS] # None =>
       LET old == store[AWS].azs
           new == store'[AWS].azs
       IN  \A i \in DOMAIN old \cap DOMAIN new :
             old[i] \in Range(new) => new[i] = old[i]]_vars

\* A handler's update only ever replaces the one zone it read by three that
\* start with it: it never overwrites what somebody else wrote meanwhile.
HandlerOnlyScalesUp ==
  [][\A c \in Client :
       Write(Nested(c)) =>
         /\ Len(store[AWS].azs) = 1
         /\ Len(store'[AWS].azs) = 3
         /\ store'[AWS].azs[1] = store[AWS].azs[1]]_vars

\* A dry run never leads to an update of the other CR (sideEffects
\* NoneOnDryRun in webhook.yaml).
DryRunHasNoSideEffects ==
  \A c \in Client : hdl[c].pc # "idle" \/ req[Nested(c)].pc # "idle" => ~req[User(c)].dry

\* The zones are there before the masters: while clients leave the zones
\* alone, a failure between the two writes never leaves more masters than
\* zones.
MastersNeverExceedZones ==
  (store[G8s] # None /\ store[AWS] # None) =>
     store[G8s].replicas <= Len(store[AWS].azs)

\* Once no request is in flight, the two CRs agree.
PairConsistent ==
  (store[G8s] # None /\ store[AWS] # None /\ \A r \in Request : req[r].pc = "idle") =>
     Matches(store[G8s], store[AWS])

\* Every handler comes to an end, the update of the other CR and its retries
\* included, and so does every request.
HandlersEnd == \A c \in Client : (hdl[c].pc # "idle") ~> (hdl[c].pc = "idle")
RequestsEnd == \A r \in Request : (req[r].pc # "idle") ~> (req[r].pc = "idle")
=============================================================================
