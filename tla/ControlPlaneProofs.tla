------------------------- MODULE ControlPlaneProofs -------------------------
(***************************************************************************)
(* Theorems about ControlPlane, for any number of clients, any zones and   *)
(* any failures.                                                           *)
(***************************************************************************)
EXTENDS ControlPlane, FiniteSetTheorems, TLAPS

USE DEF G8s, AWS, Kinds

\* A copy marked fresh is the stored object.  This is what lets the handler's
\* update start from the zones it read, and what makes Typed inductive.
CopiesCurrent ==
  /\ \A r \in Request :
       req[r].op = "update" /\ req[r].fresh => req[r].old = store[req[r].kind]
  /\ \A c \in Client : hdl[c].fresh => hdl[c].cp = store[AWS]

-----------------------------------------------------------------------------
(* What the operators of the webhooks return.                              *)

\* A list with entries is not nil.
LEMMA NotEmptyLemma ==
  ASSUME NEW s, Len(s) = 3
  PROVE  s # << >>
BY SMT

\* The zones chosen for HA masters are three, and start with the zone of the
\* running master.
LEMMA HAZonesLemma ==
  ASSUME NEW first \in Nat, NEW azs \in GetHAavailabilityZones(first)
  PROVE  azs \in Seq(Nat) /\ Len(azs) = 3 /\ azs[1] = first
<1> DEFINE others == ValidAZs \ {first}
<1>1. \A a, b \in Nat : /\ <<first, a, b>> \in Seq(Nat)
                        /\ Len(<<first, a, b>>) = 3
                        /\ <<first, a, b>>[1] = first
  OBVIOUS
<1>2. \E a, b \in Nat : azs = <<first, a, b>>
  <2>1. ValidAZs \subseteq Nat
    BY ZonesAssumption
  <2>2. CASE azs \in {<<first, p[1], p[2]>> : p \in {q \in others \X others : q[1] # q[2]}}
    BY <2>1, <2>2
  <2>3. CASE azs \in {<<first, p[1], p[2]>> : p \in others \X ValidAZs}
    BY <2>1, <2>3
  <2>4. CASE azs = <<first, first, first>>
    BY <2>4
  <2>5. QED
    BY <2>2, <2>3, <2>4 DEF GetHAavailabilityZones
<1>3. QED
  BY <1>1, <1>2

\* Default zones are a list of zones of the installation.
LEMMA NZonesLemma ==
  ASSUME NEW n \in Nat, NEW azs \in GetNavailabilityZones(n)
  PROVE  azs \in Seq(Nat)
<1>1. azs \in [1..n -> Nat]
  BY ZonesAssumption DEF GetNavailabilityZones
<1>2. QED
  BY <1>1

\* The mutators keep the kind of an object.
LEMMA MutateLabelLemma ==
  ASSUME NEW kind \in Kinds, NEW obj \in Object(kind)
  PROVE  MutateControlPlaneLabel(obj) \in Object(kind)
BY DEF MutateControlPlaneLabel, Object, G8sObject, AWSObject, Label

LEMMA MutateReplicasLemma ==
  ASSUME NEW obj \in G8sObject, NEW awscp \in AWSObject \cup {None}, NEW ha
  PROVE  MutateReplicas(obj, awscp, ha) \in G8sObject
<1>1. awscp # None => Len(awscp.azs) \in Nat
  BY DEF AWSObject
<1>2. QED
  BY <1>1 DEF MutateReplicas, G8sObject, DefaultMasterReplicas

LEMMA MutateZonesLemma ==
  ASSUME NEW obj \in AWSObject, NEW g8s \in G8sObject \cup {None},
         NEW az \in MasterAZs, NEW ha,
         NEW new \in MutateAvailabilityZones(obj, g8s, az, ha)
  PROVE  new \in AWSObject
<1> DEFINE replicas == IF g8s = None THEN 0 ELSE g8s.replicas
           n == IF replicas # 0 THEN replicas ELSE DefaultMasterReplicas
<1>1. n \in Nat
  BY DEF G8sObject, DefaultMasterReplicas
<1>2. CASE new = obj
  BY <1>2
<1>3. CASE ha /\ \E azs \in GetNavailabilityZones(n) : new = [obj EXCEPT !.azs = azs]
  <2>1. PICK azs \in GetNavailabilityZones(n) : new = [obj EXCEPT !.azs = azs]
    BY <1>3
  <2>2. azs \in Seq(Nat)
    BY <1>1, NZonesLemma
  <2>3. QED
    BY <2>1, <2>2 DEF AWSObject
<1>4. CASE ~ha /\ az # None /\ new = [obj EXCEPT !.azs = <<az>>]
  <2>1. az \in Nat
    BY <1>4, ZonesAssumption
  <2>2. <<az>> \in Seq(Nat)
    BY <2>1
  <2>3. QED
    BY <1>4, <2>2 DEF AWSObject
<1>5. QED
  BY <1>2, <1>3, <1>4 DEF MutateAvailabilityZones

-----------------------------------------------------------------------------
(* Types.                                                                  *)

\* Ending a request, moving it on and making it stale keep the types.
LEMMA RequestTypes ==
  ASSUME Typed, NEW r \in Request
  PROVE  /\ IdleRequest \in RequestState
         /\ Done(r) \in [Request -> RequestState]
         /\ req[r].pc # "idle" =>
              /\ req[r].kind \in Kinds
              /\ req[r].op \in {"create", "update"}
              /\ req[r].dry \in BOOLEAN /\ req[r].fresh \in BOOLEAN
              /\ req[r].obj \in Object(req[r].kind)
              /\ req[r].op = "update" => req[r].old \in Object(req[r].kind)
              /\ \A pc \in {"mutating", "validating", "writing"} :
                   [req EXCEPT ![r].pc = pc] \in [Request -> RequestState]
              /\ \A pc \in {"mutating", "validating", "writing"},
                    obj \in Object(req[r].kind) :
                   [req EXCEPT ![r].pc = pc, ![r].obj = obj] \in [Request -> RequestState]
<1>1. IdleRequest \in RequestState
  BY DEF RequestState
<1>2. Done(r) \in [Request -> RequestState]
  BY <1>1 DEF Done, Typed
<1>3. ASSUME req[r].pc # "idle"
      PROVE  /\ req[r] \in [pc : {"mutating", "validating", "writing"}, kind : Kinds,
                            op : {"create", "update"}, dry : BOOLEAN,
                            obj : G8sObject \cup AWSObject,
                            old : G8sObject \cup AWSObject \cup {None}, fresh : BOOLEAN]
             /\ req[r].obj \in Object(req[r].kind)
             /\ req[r].op = "update" => req[r].old \in Object(req[r].kind)
  BY <1>3 DEF Typed, RequestState, IdleRequest
<1>4. ASSUME req[r].pc # "idle",
             NEW pc \in {"mutating", "validating", "writing"},
             NEW obj \in Object(req[r].kind)
      PROVE  [req EXCEPT ![r].pc = pc, ![r].obj = obj] \in [Request -> RequestState]
  <2> DEFINE new == [req[r] EXCEPT !.pc = pc, !.obj = obj]
  <2>1. obj \in G8sObject \cup AWSObject
    BY <1>4 DEF Object
  <2>2. new \in RequestState
    BY <1>3, <1>4, <2>1 DEF RequestState
  <2>3. [req EXCEPT ![r].pc = pc, ![r].obj = obj] = [req EXCEPT ![r] = new]
    BY DEF Typed
  <2>4. QED
    BY <2>2, <2>3 DEF Typed
<1>5. ASSUME req[r].pc # "idle",
             NEW pc \in {"mutating", "validating", "writing"}
      PROVE  [req EXCEPT ![r].pc = pc] \in [Request -> RequestState]
  <2>1. [req[r] EXCEPT !.pc = pc] \in RequestState
    BY <1>3, <1>5 DEF RequestState
  <2>2. [req EXCEPT ![r].pc = pc] = [req EXCEPT ![r] = [req[r] EXCEPT !.pc = pc]]
    BY DEF Typed
  <2>3. QED
    BY <2>1, <2>2 DEF Typed
<1>6. QED
  BY <1>1, <1>2, <1>3, <1>4, <1>5

LEMMA StaleTypes ==
  ASSUME NEW reqs \in [Request -> RequestState], NEW hdls \in [Client -> HandlerState],
         NEW kind \in Kinds
  PROVE  /\ StaleRequests(reqs, kind) \in [Request -> RequestState]
         /\ StaleHandlers(hdls, kind) \in [Client -> HandlerState]
<1>1. ASSUME NEW r \in Request, reqs[r].fresh
      PROVE  [reqs[r] EXCEPT !.fresh = FALSE] \in RequestState
  <2> DEFINE x == reqs[r]
  <2>1. x \in RequestState /\ x # IdleRequest
    BY <1>1 DEF IdleRequest
  <2>2. QED
    BY <2>1 DEF RequestState
<1>2. ASSUME NEW c \in Client, hdls[c].fresh
      PROVE  [hdls[c] EXCEPT !.fresh = FALSE] \in HandlerState
  <2> DEFINE x == hdls[c]
  <2>1. x \in HandlerState /\ x # IdleHandler
    BY <1>2 DEF IdleHandler
  <2>2. QED
    BY <2>1 DEF HandlerState
<1>3. QED
  BY <1>1, <1>2 DEF StaleRequests, StaleHandlers

LEMMA HandlerTypes ==
  ASSUME Typed, NEW c \in Client
  PROVE  /\ [hdl EXCEPT ![c] = IdleHandler] \in [Client -> HandlerState]
         /\ hdl[c].pc # "idle" =>
              /\ hdl[c].cp \in AWSObject
              /\ Len(hdl[c].cp.azs) = 1
              /\ hdl[c].tries \in 0..MaxRetries
              /\ hdl[c].fresh \in BOOLEAN
              /\ \A pc \in {"update", "calling", "updated", "failed"} :
                   [hdl EXCEPT ![c].pc = pc] \in [Client -> HandlerState]
              /\ \A pc \in {"update", "calling", "updated", "failed"},
                    tries \in 0..MaxRetries :
                   [hdl EXCEPT ![c].pc = pc, ![c].tries = tries] \in [Client -> HandlerState]
<1>1. [hdl EXCEPT ![c] = IdleHandler] \in [Client -> HandlerState]
  BY DEF Typed, HandlerState
<1>2. ASSUME hdl[c].pc # "idle"
      PROVE  /\ hdl[c] \in [pc : {"update", "calling", "updated", "failed"}, cp : AWSObject,
                            fresh : BOOLEAN, tries : 0..MaxRetries]
             /\ Len(hdl[c].cp.azs) = 1
  BY <1>2 DEF Typed, HandlerState, IdleHandler
<1>3. ASSUME hdl[c].pc # "idle",
             NEW pc \in {"update", "calling", "updated", "failed"},
             NEW tries \in 0..MaxRetries
      PROVE  [hdl EXCEPT ![c].pc = pc, ![c].tries = tries] \in [Client -> HandlerState]
  <2> DEFINE new == [hdl[c] EXCEPT !.pc = pc, !.tries = tries]
  <2>1. new \in HandlerState
    BY <1>2, <1>3 DEF HandlerState
  <2>2. [hdl EXCEPT ![c].pc = pc, ![c].tries = tries] = [hdl EXCEPT ![c] = new]
    BY DEF Typed
  <2>3. QED
    BY <2>1, <2>2 DEF Typed
<1>4. ASSUME hdl[c].pc # "idle",
             NEW pc \in {"update", "calling", "updated", "failed"}
      PROVE  [hdl EXCEPT ![c].pc = pc] \in [Client -> HandlerState]
  <2>1. [hdl[c] EXCEPT !.pc = pc] \in HandlerState
    BY <1>2, <1>4 DEF HandlerState
  <2>2. [hdl EXCEPT ![c].pc = pc] = [hdl EXCEPT ![c] = [hdl[c] EXCEPT !.pc = pc]]
    BY DEF Typed
  <2>3. QED
    BY <2>1, <2>2 DEF Typed
<1>5. QED
  BY <1>1, <1>2, <1>3, <1>4

\* What Told returns is a value of hdl.
LEMMA ToldTypes ==
  ASSUME Typed, NEW r \in Request, NEW answers, answers \subseteq {"updated", "failed"},
         NEW h \in Told(r, answers)
  PROVE  h \in [Client -> HandlerState]
<1>1. r[1] \in Client
  BY DEF Request
<1>2. CASE h = hdl
  BY <1>2 DEF Typed
<1>3. CASE hdl[r[1]].pc = "calling" /\ \E a \in answers : h = [hdl EXCEPT ![r[1]].pc = a]
  <2>1. PICK a \in answers : h = [hdl EXCEPT ![r[1]].pc = a]
    BY <1>3
  <2>2. hdl[r[1]].pc # "idle" /\ a \in {"update", "calling", "updated", "failed"}
    BY <1>3
  <2>3. QED
    BY <1>1, <2>1, <2>2, HandlerTypes
<1>4. QED
  BY <1>2, <1>3 DEF Told

LEMMA FetchedTypes ==
  ASSUME Typed, NEW kind \in Kinds, NEW cr \in Fetched(kind)
  PROVE  cr \in Object(kind) \cup {None}
BY DEF Typed, TypedStores, Fetched

LEMMA DenyTypes ==
  ASSUME Typed, NEW r \in Request, Deny(r)
  PROVE  Typed'
<1>1. req' \in [Request -> RequestState]
  BY RequestTypes DEF Deny
<1>2. hdl' \in [Client -> HandlerState]
  BY ToldTypes DEF Deny
<1>3. QED
  BY <1>1, <1>2 DEF Typed, Deny

LEMMA PatchedTypes ==
  ASSUME Typed, NEW r \in Request, req[r].pc # "idle",
         NEW obj \in Object(req[r].kind), Patched(r, obj)
  PROVE  Typed'
<1>1. req' \in [Request -> RequestState]
  BY RequestTypes DEF Patched
<1>2. QED
  BY <1>1 DEF Typed, Patched

-----------------------------------------------------------------------------
(* Each action keeps the types.                                            *)

LEMMA SubmitTypes ==
  ASSUME Typed, NEW c \in Client, Submit(c)
  PROVE  Typed'
<1>1. User(c) \in Request
  BY DEF User, Request
<1>2. PICK kind \in Kinds, op \in {"create", "update"}, dry \in DryRuns :
        /\ op = "update" => store[kind] # None
        /\ \E obj \in Inputs(kind) :
             req' = [req EXCEPT ![User(c)] =
               [pc |-> "mutating", kind |-> kind, op |-> op, dry |-> dry, obj |-> obj,
                old |-> IF op = "update" THEN store[kind] ELSE None, fresh |-> TRUE]]
  BY DEF Submit
<1>3. PICK obj \in Inputs(kind) :
        req' = [req EXCEPT ![User(c)] =
          [pc |-> "mutating", kind |-> kind, op |-> op, dry |-> dry, obj |-> obj,
           old |-> IF op = "update" THEN store[kind] ELSE None, fresh |-> TRUE]]
  BY <1>2
<1>4. obj \in Object(kind)
  <2>1. UserAZs \subseteq Seq(Nat) /\ UserReplicas \subseteq Nat
    BY InputsAssumption
  <2>2. QED
    BY <2>1 DEF Inputs, Object, G8sObject, AWSObject, Label
<1>5. store[kind] \in Object(kind) \cup {None}
  BY DEF Typed, TypedStores
<1>6. dry \in BOOLEAN
  BY FlagsAssumption
<1> DEFINE old == IF op = "update" THEN store[kind] ELSE None
           new == [pc |-> "mutating", kind |-> kind, op |-> op, dry |-> dry, obj |-> obj,
                   old |-> old, fresh |-> TRUE]
<1>7. /\ old \in G8sObject \cup AWSObject \cup {None}
      /\ op = "update" => old \in Object(kind)
      /\ obj \in G8sObject \cup AWSObject
  BY <1>2, <1>4, <1>5 DEF Object
<1>8. new \in RequestState
  <2> HIDE DEF old
  <2>1. QED
    BY <1>4, <1>6, <1>7 DEF RequestState
<1>9. req' \in [Request -> RequestState]
  BY <1>1, <1>3, <1>8 DEF Typed
<1>10. QED
  BY <1>9 DEF Typed, Submit

LEMMA MutateTypes ==
  ASSUME Typed, NEW r \in Request, Mutate(r)
  PROVE  Typed'
<1>1. /\ req[r].pc # "idle"
      /\ req[r].kind \in Kinds
      /\ req[r].obj \in Object(req[r].kind)
  BY RequestTypes DEF Mutate
<1>2. CASE Patched(r, req[r].obj)
  BY <1>1, <1>2, PatchedTypes
<1>3. CASE /\ req[r].kind = G8s
           /\ \E awscp \in Fetched(AWS), ha \in HAReleases :
                Patched(r, MutateReplicas(MutateControlPlaneLabel(req[r].obj), awscp, ha))
  <2>1. PICK awscp \in Fetched(AWS), ha \in HAReleases :
               Patched(r, MutateReplicas(MutateControlPlaneLabel(req[r].obj), awscp, ha))
    BY <1>3
  <2>2. awscp \in AWSObject \cup {None}
    BY FetchedTypes DEF Object
  <2>3. MutateControlPlaneLabel(req[r].obj) \in G8sObject
    BY <1>1, <1>3, MutateLabelLemma DEF Object
  <2>4. MutateReplicas(MutateControlPlaneLabel(req[r].obj), awscp, ha) \in Object(req[r].kind)
    BY <1>3, <2>2, <2>3, MutateReplicasLemma DEF Object
  <2>5. QED
    BY <1>1, <2>1, <2>4, PatchedTypes
<1>4. CASE /\ req[r].kind = AWS
           /\ \E g8s \in Fetched(G8s), az \in MasterAZs, ha \in HAReleases :
                LET obj == IF req[r].op = "create" THEN MutateControlPlaneLabel(req[r].obj)
                           ELSE req[r].obj
                IN  \E new \in MutateAvailabilityZones(obj, g8s, az, ha) : Patched(r, new)
  <2> DEFINE obj == IF req[r].op = "create" THEN MutateControlPlaneLabel(req[r].obj)
                    ELSE req[r].obj
  <2>1. PICK g8s \in Fetched(G8s), az \in MasterAZs, ha \in HAReleases :
               \E new \in MutateAvailabilityZones(obj, g8s, az, ha) : Patched(r, new)
    BY <1>4
  <2>2. PICK new \in MutateAvailabilityZones(obj, g8s, az, ha) : Patched(r, new)
    BY <2>1
  <2>3. g8s \in G8sObject \cup {None}
    BY FetchedTypes DEF Object
  <2>4. obj \in AWSObject
    BY <1>1, <1>4, MutateLabelLemma DEF Object
  <2>5. new \in Object(req[r].kind)
    BY <1>4, <2>3, <2>4, MutateZonesLemma DEF Object
  <2>6. QED
    BY <1>1, <2>2, <2>5, PatchedTypes
<1>5. CASE Deny(r)
  BY <1>5, DenyTypes
<1>6. QED
  BY <1>2, <1>3, <1>4, <1>5 DEF Mutate

LEMMA MutateG8sUpdateTypes ==
  ASSUME Typed, NEW c \in Client, MutateG8sUpdate(c)
  PROVE  Typed'
<1> DEFINE r == req[User(c)]
<1>1. User(c) \in Request
  BY DEF User, Request
<1>2. /\ r.pc # "idle" /\ r.kind = G8s
      /\ r.obj \in G8sObject
  <2>1. r.pc # "idle" /\ r.kind = G8s
    BY DEF MutateG8sUpdate
  <2>2. r.obj \in Object(r.kind)
    BY <1>1, <2>1, RequestTypes
  <2>3. QED
    BY <2>1, <2>2 DEF Object
<1>3. PICK awscp \in Fetched(AWS), ha \in HAReleases :
        IF awscp # None /\ IsUpdateFromSingleToHA(r.obj, r.old, awscp)
          THEN /\ hdl' = [hdl EXCEPT ![c] =
                    [pc |-> "update", cp |-> awscp, fresh |-> TRUE, tries |-> 0]]
               /\ UNCHANGED <<store, req>>
          ELSE Patched(User(c), MutateReplicas(r.obj, awscp, ha))
  BY DEF MutateG8sUpdate
<1>4. awscp \in AWSObject \cup {None}
  BY FetchedTypes DEF Object
<1>5. CASE awscp # None /\ IsUpdateFromSingleToHA(r.obj, r.old, awscp)
  <2>1. awscp \in AWSObject /\ Len(awscp.azs) = 1
    BY <1>4, <1>5 DEF IsUpdateFromSingleToHA
  <2>2. [pc |-> "update", cp |-> awscp, fresh |-> TRUE, tries |-> 0] \in HandlerState
    BY <2>1, RetriesAssumption DEF HandlerState
  <2>3. hdl' \in [Client -> HandlerState]
    BY <1>3, <1>5, <2>2 DEF Typed
  <2>4. QED
    BY <1>3, <1>5, <2>3 DEF Typed
<1>6. CASE ~(awscp # None /\ IsUpdateFromSingleToHA(r.obj, r.old, awscp))
  <2>1. MutateReplicas(r.obj, awscp, ha) \in Object(r.kind)
    BY <1>2, <1>4, MutateReplicasLemma DEF Object
  <2>2. QED
    BY <1>1, <1>2, <1>3, <1>6, <2>1, PatchedTypes
<1>7. QED
  BY <1>5, <1>6

LEMMA CallUpdateTypes ==
  ASSUME Typed, CopiesCurrent, NEW c \in Client, CallUpdate(c)
  PROVE  Typed'
<1>1. Nested(c) \in Request
  BY DEF Nested, Request
<1>2. hdl[c].pc # "idle" /\ hdl[c].cp \in AWSObject /\ Len(hdl[c].cp.azs) = 1
  BY HandlerTypes DEF CallUpdate
<1>3. hdl' \in [Client -> HandlerState]
  <2>1. \/ hdl' = [hdl EXCEPT ![c].pc = "calling"]
        \/ hdl' = [hdl EXCEPT ![c].pc = "failed"]
    BY DEF CallUpdate
  <2>2. \A pc \in {"calling", "failed"} : [hdl EXCEPT ![c].pc = pc] \in [Client -> HandlerState]
    BY <1>2, HandlerTypes
  <2>3. QED
    BY <2>1, <2>2
<1>4. CASE hdl[c].fresh
  <2>1. PICK azs \in GetHAavailabilityZones(hdl[c].cp.azs[1]) :
          req' = [req EXCEPT ![Nested(c)] =
            [pc |-> "mutating", kind |-> AWS, op |-> "update", dry |-> FALSE,
             obj |-> [hdl[c].cp EXCEPT !.azs = azs], old |-> store[AWS], fresh |-> TRUE]]
    BY <1>4 DEF CallUpdate
  <2>2. hdl[c].cp.azs[1] \in Nat
    BY <1>2 DEF AWSObject
  <2>3. azs \in Seq(Nat)
    BY <2>2, HAZonesLemma
  <2>4. [hdl[c].cp EXCEPT !.azs = azs] \in AWSObject
    BY <1>2, <2>3 DEF AWSObject
  <2>5. store[AWS] \in AWSObject
    BY <1>2, <1>4 DEF CopiesCurrent
  <2>6. [pc |-> "mutating", kind |-> AWS, op |-> "update", dry |-> FALSE,
         obj |-> [hdl[c].cp EXCEPT !.azs = azs], old |-> store[AWS], fresh |-> TRUE]
           \in RequestState
    BY <2>4, <2>5 DEF RequestState, Object
  <2>7. req' \in [Request -> RequestState]
    BY <1>1, <2>1, <2>6 DEF Typed
  <2>8. QED
    BY <1>3, <2>7 DEF Typed, CallUpdate
<1>5. CASE ~hdl[c].fresh
  BY <1>3, <1>5 DEF Typed, CallUpdate
<1>6. QED
  BY <1>4, <1>5

LEMMA RetryUpdateTypes ==
  ASSUME Typed, NEW c \in Client, RetryUpdate(c)
  PROVE  Typed'
<1>1. /\ hdl[c].pc # "idle" /\ hdl[c].tries < MaxRetries
      /\ hdl' = [hdl EXCEPT ![c].pc = "update", ![c].tries = hdl[c].tries + 1]
  BY DEF RetryUpdate
<1>2. hdl[c].tries \in 0..MaxRetries
  BY <1>1, HandlerTypes
<1>3. hdl[c].tries + 1 \in 0..MaxRetries
  BY <1>1, <1>2, RetriesAssumption
<1>4. hdl' \in [Client -> HandlerState]
  BY <1>1, <1>3, HandlerTypes
<1>5. QED
  BY <1>4 DEF Typed, RetryUpdate

LEMMA AnswerTypes ==
  ASSUME Typed, NEW c \in Client, AnswerUpdate(c) \/ Crash(c)
  PROVE  Typed'
<1>1. User(c) \in Request
  BY DEF User, Request
<1>2. hdl' = [hdl EXCEPT ![c] = IdleHandler]
  BY DEF AnswerUpdate, Crash
<1>3. \/ req' = req
      \/ req' = Done(User(c))
      \/ /\ req[User(c)].pc = "mutating"
         /\ req' = [req EXCEPT ![User(c)].pc = "validating"]
  BY DEF AnswerUpdate, Crash
<1>4. req' \in [Request -> RequestState]
  <2>1. Done(User(c)) \in [Request -> RequestState]
    BY <1>1, RequestTypes
  <2>2. req[User(c)].pc = "mutating" =>
          [req EXCEPT ![User(c)].pc = "validating"] \in [Request -> RequestState]
    BY <1>1, RequestTypes
  <2>3. QED
    BY <1>3, <2>1, <2>2 DEF Typed
<1>5. hdl' \in [Client -> HandlerState]
  <2>1. [hdl EXCEPT ![c] = IdleHandler] \in [Client -> HandlerState]
    BY HandlerTypes
  <2>2. QED
    BY <1>2, <2>1
<1>6. QED
  BY <1>4, <1>5 DEF Typed, AnswerUpdate, Crash

LEMMA ValidateTypes ==
  ASSUME Typed, NEW r \in Request, Validate(r) \/ SkipValidator(r)
  PROVE  Typed'
<1>1. CASE Deny(r)
  BY <1>1, DenyTypes
<1>2. CASE /\ req[r].pc = "validating"
           /\ req' = [req EXCEPT ![r].pc = "writing"]
           /\ UNCHANGED <<store, hdl>>
  <2>1. req' \in [Request -> RequestState]
    BY <1>2, RequestTypes
  <2>2. QED
    BY <1>2, <2>1 DEF Typed
<1>3. QED
  BY <1>1, <1>2 DEF Validate, SkipValidator

LEMMA WriteTypes ==
  ASSUME Typed, NEW r \in Request, Write(r)
  PROVE  Typed'
<1> DEFINE kind == req[r].kind
<1>1. /\ req[r].pc # "idle" /\ kind \in Kinds
      /\ req[r].obj \in Object(kind)
  BY RequestTypes DEF Write
<1>2. /\ store' = [store EXCEPT ![kind] = req[r].obj]
      /\ req' = StaleRequests(Done(r), kind)
      /\ \E h \in Told(r, {"updated"} \cup IF "lostReply" \in Faults THEN {"failed"} ELSE {}) :
           hdl' = StaleHandlers(h, kind)
  BY DEF Write
<1>3. PICK h \in Told(r, {"updated"} \cup IF "lostReply" \in Faults THEN {"failed"} ELSE {}) :
           hdl' = StaleHandlers(h, kind)
  BY <1>2
<1>4. h \in [Client -> HandlerState]
  BY <1>3, ToldTypes
<1>5. Done(r) \in [Request -> RequestState]
  BY RequestTypes
<1>6. req' \in [Request -> RequestState] /\ hdl' \in [Client -> HandlerState]
  BY <1>1, <1>2, <1>3, <1>4, <1>5, StaleTypes
<1>7. store' \in TypedStores
  BY <1>1, <1>2 DEF Typed, TypedStores, Object
<1>8. QED
  BY <1>6, <1>7 DEF Typed

LEMMA DeleteTypes ==
  ASSUME Typed, NEW kind \in Kinds, Delete(kind)
  PROVE  Typed'
<1>1. store' \in TypedStores
  BY DEF Delete, Typed, TypedStores
<1>2. req' \in [Request -> RequestState] /\ hdl' \in [Client -> HandlerState]
  BY StaleTypes DEF Delete, Typed
<1>3. QED
  BY <1>1, <1>2 DEF Typed

LEMMA SkipMutatorTypes ==
  ASSUME Typed, NEW r \in Request, SkipMutator(r)
  PROVE  Typed'
<1>1. /\ req[r].pc # "idle"
      /\ req[r].obj \in Object(req[r].kind)
      /\ Patched(r, req[r].obj)
  BY RequestTypes DEF SkipMutator
<1>2. QED
  BY <1>1, PatchedTypes

-----------------------------------------------------------------------------
(* Fresh copies.                                                           *)

\* A step that writes nothing keeps copies current if every request and every
\* handler keeps its copy, drops it, or takes the stored object.
LEMMA SameStoreCopies ==
  ASSUME CopiesCurrent, UNCHANGED store,
         \A r \in Request :
           \/ ~req'[r].fresh \/ req'[r].op # "update"
           \/ req'[r].old = store[req'[r].kind]
           \/ /\ req'[r].fresh = req[r].fresh /\ req'[r].op = req[r].op
              /\ req'[r].kind = req[r].kind /\ req'[r].old = req[r].old,
         \A c \in Client :
           \/ ~hdl'[c].fresh
           \/ hdl'[c].cp = store[AWS]
           \/ hdl'[c].fresh = hdl[c].fresh /\ hdl'[c].cp = hdl[c].cp
  PROVE  CopiesCurrent'
BY DEF CopiesCurrent

LEMMA ToldCopies ==
  ASSUME Typed, NEW r \in Request, NEW answers, NEW h \in Told(r, answers), NEW c \in Client
  PROVE  h[c].fresh = hdl[c].fresh /\ h[c].cp = hdl[c].cp
<1>1. r[1] \in Client
  BY DEF Request
<1>2. ASSUME NEW d \in Client, NEW a, h = [hdl EXCEPT ![d].pc = a]
      PROVE  h[c].fresh = hdl[c].fresh /\ h[c].cp = hdl[c].cp
  BY <1>2 DEF Typed, HandlerState, IdleHandler
<1>3. h = hdl \/ \E a \in answers : h = [hdl EXCEPT ![r[1]].pc = a]
  BY DEF Told
<1>4. QED
  BY <1>1, <1>2, <1>3

LEMMA DenyCopies ==
  ASSUME Typed, CopiesCurrent, NEW r \in Request, Deny(r)
  PROVE  CopiesCurrent'
<1>1. \A q \in Request : req'[q] = IF q = r THEN IdleRequest ELSE req[q]
  BY DEF Deny, Done, Typed
<1>2. \A c \in Client : hdl'[c].fresh = hdl[c].fresh /\ hdl'[c].cp = hdl[c].cp
  BY ToldCopies DEF Deny
<1>3. ~IdleRequest.fresh
  BY DEF IdleRequest
<1>4. QED
  BY <1>1, <1>2, <1>3, SameStoreCopies DEF Deny

\* A request that moves on keeps its old object.
LEMMA MovedRequest ==
  ASSUME Typed, NEW r \in Request, req[r].pc # "idle", NEW pc, NEW obj,
         \/ req' = [req EXCEPT ![r].pc = pc, ![r].obj = obj]
         \/ req' = [req EXCEPT ![r].pc = pc]
  PROVE  \A q \in Request :
           /\ req'[q].fresh = req[q].fresh /\ req'[q].op = req[q].op
           /\ req'[q].kind = req[q].kind /\ req'[q].old = req[q].old
           /\ req'[q].dry = req[q].dry
BY DEF Typed, RequestState, IdleRequest

LEMMA PatchedCopies ==
  ASSUME Typed, CopiesCurrent, NEW r \in Request, req[r].pc # "idle", NEW obj,
         Patched(r, obj)
  PROVE  CopiesCurrent'
<1>1. \A q \in Request :
        /\ req'[q].fresh = req[q].fresh /\ req'[q].op = req[q].op
        /\ req'[q].kind = req[q].kind /\ req'[q].old = req[q].old
  BY MovedRequest DEF Patched
<1>2. QED
  BY <1>1, SameStoreCopies DEF Patched

LEMMA MutateCopies ==
  ASSUME Typed, CopiesCurrent, NEW r \in Request, Mutate(r) \/ SkipMutator(r)
  PROVE  CopiesCurrent'
<1>1. req[r].pc # "idle"
  BY DEF Mutate, SkipMutator
<1>2. Deny(r) \/ \E obj : Patched(r, obj)
  BY DEF Mutate, SkipMutator
<1>3. QED
  BY <1>1, <1>2, DenyCopies, PatchedCopies

LEMMA SubmitCopies ==
  ASSUME Typed, CopiesCurrent, NEW c \in Client, Submit(c)
  PROVE  CopiesCurrent'
<1>1. User(c) \in Request
  BY DEF User, Request
<1>2. PICK new :
        /\ req' = [req EXCEPT ![User(c)] = new]
        /\ new.op = "update" => new.old = store[new.kind]
  <2>1. PICK kind \in Kinds, op \in {"create", "update"}, dry \in DryRuns :
          \E obj \in Inputs(kind) :
             req' = [req EXCEPT ![User(c)] =
               [pc |-> "mutating", kind |-> kind, op |-> op, dry |-> dry, obj |-> obj,
                old |-> IF op = "update" THEN store[kind] ELSE None, fresh |-> TRUE]]
    BY DEF Submit
  <2>2. PICK obj \in Inputs(kind) :
             req' = [req EXCEPT ![User(c)] =
               [pc |-> "mutating", kind |-> kind, op |-> op, dry |-> dry, obj |-> obj,
                old |-> IF op = "update" THEN store[kind] ELSE None, fresh |-> TRUE]]
    BY <2>1
  <2> DEFINE x == [pc |-> "mutating", kind |-> kind, op |-> op, dry |-> dry, obj |-> obj,
                   old |-> IF op = "update" THEN store[kind] ELSE None, fresh |-> TRUE]
  <2>3. x.op = "update" => x.old = store[x.kind]
    OBVIOUS
  <2>4. QED
    BY <2>2, <2>3
<1>3. \A q \in Request : req'[q] = IF q = User(c) THEN new ELSE req[q]
  BY <1>1, <1>2 DEF Typed
<1>4. QED
  BY <1>2, <1>3, SameStoreCopies DEF Submit

LEMMA MutateG8sUpdateCopies ==
  ASSUME Typed, CopiesCurrent, NEW c \in Client, MutateG8sUpdate(c)
  PROVE  CopiesCurrent'
<1>1. User(c) \in Request /\ req[User(c)].pc # "idle"
  BY DEF User, Request, MutateG8sUpdate
<1>2. CASE \E obj : Patched(User(c), obj)
  BY <1>1, <1>2, PatchedCopies
<1>3. CASE /\ \E awscp \in Fetched(AWS) :
                /\ awscp # None
                /\ hdl' = [hdl EXCEPT ![c] =
                     [pc |-> "update", cp |-> awscp, fresh |-> TRUE, tries |-> 0]]
           /\ UNCHANGED <<store, req>>
  <2>1. hdl' = [hdl EXCEPT ![c] =
                  [pc |-> "update", cp |-> store[AWS], fresh |-> TRUE, tries |-> 0]]
    BY <1>3 DEF Fetched
  <2>2. \A d \in Client : hdl'[d].cp = store[AWS] \/ hdl'[d] = hdl[d]
    BY <2>1 DEF Typed
  <2>3. QED
    BY <1>3, <2>2, SameStoreCopies
<1>4. QED
  BY <1>2, <1>3 DEF MutateG8sUpdate

LEMMA CallUpdateCopies ==
  ASSUME Typed, CopiesCurrent, NEW c \in Client, CallUpdate(c)
  PROVE  CopiesCurrent'
<1>1. Nested(c) \in Request
  BY DEF Nested, Request
<1>2. \E a : hdl' = [hdl EXCEPT ![c].pc = a]
  BY DEF CallUpdate
<1>3. \A d \in Client : hdl'[d].fresh = hdl[d].fresh /\ hdl'[d].cp = hdl[d].cp
  BY <1>2 DEF Typed, HandlerState, IdleHandler
<1>4. CASE req' = req
  BY <1>3, <1>4, SameStoreCopies DEF CallUpdate
<1>5. CASE \E obj : req' = [req EXCEPT ![Nested(c)] =
                   [pc |-> "mutating", kind |-> AWS, op |-> "update", dry |-> FALSE,
                    obj |-> obj, old |-> store[AWS], fresh |-> TRUE]]
  <2>1. PICK obj : req' = [req EXCEPT ![Nested(c)] =
                   [pc |-> "mutating", kind |-> AWS, op |-> "update", dry |-> FALSE,
                    obj |-> obj, old |-> store[AWS], fresh |-> TRUE]]
    BY <1>5
  <2>2. \A q \in Request : req'[q].old = store[req'[q].kind] \/ req'[q] = req[q]
    BY <1>1, <2>1 DEF Typed
  <2>3. QED
    BY <1>3, <2>2, SameStoreCopies DEF CallUpdate
<1>6. QED
  BY <1>4, <1>5 DEF CallUpdate

LEMMA RetryUpdateCopies ==
  ASSUME Typed, CopiesCurrent, NEW c \in Client, RetryUpdate(c)
  PROVE  CopiesCurrent'
<1>1. \E a, t : hdl' = [hdl EXCEPT ![c].pc = a, ![c].tries = t]
  BY DEF RetryUpdate
<1>2. \A d \in Client : hdl'[d].fresh = hdl[d].fresh /\ hdl'[d].cp = hdl[d].cp
  BY <1>1 DEF Typed, HandlerState, IdleHandler
<1>3. QED
  BY <1>2, SameStoreCopies DEF RetryUpdate

LEMMA AnswerCopies ==
  ASSUME Typed, CopiesCurrent, NEW c \in Client, AnswerUpdate(c) \/ Crash(c)
  PROVE  CopiesCurrent'
<1>1. User(c) \in Request
  BY DEF User, Request
<1>2. hdl' = [hdl EXCEPT ![c] = IdleHandler] /\ UNCHANGED store
  BY DEF AnswerUpdate, Crash
<1>3. \A d \in Client : ~hdl'[d].fresh \/ hdl'[d] = hdl[d]
  BY <1>2 DEF Typed, IdleHandler
<1>4. \/ req' = req
      \/ req' = Done(User(c))
      \/ /\ req[User(c)].pc = "mutating"
         /\ req' = [req EXCEPT ![User(c)].pc = "validating"]
  BY DEF AnswerUpdate, Crash
<1>5. \A q \in Request :
        \/ ~req'[q].fresh
        \/ /\ req'[q].fresh = req[q].fresh /\ req'[q].op = req[q].op
           /\ req'[q].kind = req[q].kind /\ req'[q].old = req[q].old
  <2>1. CASE req' = Done(User(c))
    <3>1. \A q \in Request : req'[q] = IdleRequest \/ req'[q] = req[q]
      BY <1>1, <2>1 DEF Done, Typed
    <3>2. QED
      BY <3>1 DEF IdleRequest
  <2>2. CASE /\ req[User(c)].pc = "mutating"
             /\ req' = [req EXCEPT ![User(c)].pc = "validating"]
    BY <1>1, <2>2, MovedRequest
  <2>3. QED
    BY <1>4, <2>1, <2>2
<1>6. QED
  BY <1>2, <1>3, <1>5, SameStoreCopies

LEMMA ValidateCopies ==
  ASSUME Typed, CopiesCurrent, NEW r \in Request,
         Validate(r) \/ Refuse(r) \/ SkipValidator(r)
  PROVE  CopiesCurrent'
<1>1. CASE Deny(r)
  BY <1>1, DenyCopies
<1>2. CASE /\ req[r].pc = "validating"
           /\ req' = [req EXCEPT ![r].pc = "writing"]
           /\ UNCHANGED <<store, hdl>>
  BY <1>2, MovedRequest, SameStoreCopies
<1>3. QED
  BY <1>1, <1>2 DEF Validate, Refuse, SkipValidator

\* After a write no copy of that kind is fresh, and the other kind is untouched.
LEMMA StaleCopies ==
  ASSUME NEW reqs \in [Request -> RequestState], NEW hdls \in [Client -> HandlerState],
         NEW kind \in Kinds, Typed,
         \A k \in Kinds : k # kind => store'[k] = store[k],
         \A r \in Request :
           reqs[r].op = "update" /\ reqs[r].fresh => reqs[r].old = store[reqs[r].kind],
         \A c \in Client : hdls[c].fresh => hdls[c].cp = store[AWS],
         req' = StaleRequests(reqs, kind), hdl' = StaleHandlers(hdls, kind)
  PROVE  CopiesCurrent'
<1>1. ASSUME NEW r \in Request, req'[r].op = "update", req'[r].fresh
      PROVE  req'[r].old = store'[req'[r].kind]
  <2>1. ~(reqs[r].kind = kind /\ reqs[r].fresh)
    <3>1. reqs[r].fresh => reqs[r] # IdleRequest
      BY DEF IdleRequest
    <3>2. reqs[r].fresh => "fresh" \in DOMAIN reqs[r]
      BY <3>1 DEF RequestState
    <3>3. QED
      BY <1>1, <3>2 DEF StaleRequests
  <2>2. req'[r] = reqs[r]
    BY <2>1 DEF StaleRequests
  <2>3. reqs[r].kind \in Kinds
    BY DEF RequestState, IdleRequest
  <2>4. QED
    BY <1>1, <2>1, <2>2, <2>3
<1>2. ASSUME NEW c \in Client, hdl'[c].fresh
      PROVE  hdl'[c].cp = store'[AWS]
  <2>1. ~(kind = AWS /\ hdls[c].fresh)
    <3>1. hdls[c].fresh => hdls[c] # IdleHandler
      BY DEF IdleHandler
    <3>2. hdls[c].fresh => "fresh" \in DOMAIN hdls[c]
      BY <3>1 DEF HandlerState
    <3>3. QED
      BY <1>2, <3>2 DEF StaleHandlers
  <2>2. hdl'[c] = hdls[c]
    BY <2>1 DEF StaleHandlers
  <2>3. QED
    BY <1>2, <2>1, <2>2
<1>3. QED
  BY <1>1, <1>2 DEF CopiesCurrent

LEMMA DeleteCopies ==
  ASSUME Typed, CopiesCurrent, NEW kind \in Kinds, Delete(kind)
  PROVE  CopiesCurrent'
<1>1. \A k \in Kinds : k # kind => store'[k] = store[k]
  BY DEF Delete, Typed, TypedStores
<1>2. QED
  BY <1>1, StaleCopies DEF Delete, Typed, CopiesCurrent

LEMMA WriteCopies ==
  ASSUME Typed, CopiesCurrent, NEW r \in Request, Write(r)
  PROVE  CopiesCurrent'
<1> DEFINE kind == req[r].kind
           answers == {"updated"} \cup IF "lostReply" \in Faults THEN {"failed"} ELSE {}
<1>1. kind \in Kinds
  BY RequestTypes DEF Write
<1>2. /\ store' = [store EXCEPT ![kind] = req[r].obj]
      /\ req' = StaleRequests(Done(r), kind)
  BY DEF Write
<1>3. PICK h \in Told(r, answers) : hdl' = StaleHandlers(h, kind)
  BY DEF Write
<1>4. h \in [Client -> HandlerState]
  BY ToldTypes
<1>5. \A c \in Client : h[c].fresh => h[c].cp = store[AWS]
  BY ToldCopies DEF CopiesCurrent
<1>6. Done(r) \in [Request -> RequestState]
  BY RequestTypes
<1>7. \A q \in Request :
        Done(r)[q].op = "update" /\ Done(r)[q].fresh => Done(r)[q].old = store[Done(r)[q].kind]
  BY DEF Done, IdleRequest, CopiesCurrent, Typed
<1>8. \A k \in Kinds : k # kind => store'[k] = store[k]
  BY <1>2 DEF Typed, TypedStores
<1>9. QED
  BY <1>1, <1>2, <1>3, <1>4, <1>5, <1>6, <1>7, <1>8, StaleCopies

-----------------------------------------------------------------------------
(* Type correctness.                                                       *)

TypeInv == Typed /\ CopiesCurrent

LEMMA InitTypes == Init => TypeInv
<1> SUFFICES ASSUME Init PROVE TypeInv
  OBVIOUS
<1>1. store \in TypedStores
  BY InitialAssumption DEF Init
<1>2. req \in [Request -> RequestState] /\ hdl \in [Client -> HandlerState]
  BY DEF Init, RequestState, HandlerState
<1>3. CopiesCurrent
  BY DEF Init, CopiesCurrent, IdleRequest, IdleHandler
<1>4. QED
  BY <1>1, <1>2, <1>3 DEF TypeInv, Typed

LEMMA NextTypes == TypeInv /\ [Next]_vars => TypeInv'
<1> SUFFICES ASSUME Typed, CopiesCurrent, [Next]_vars PROVE TypeInv'
  BY DEF TypeInv
<1>1. ASSUME NEW c \in Client, Submit(c) PROVE TypeInv'
  BY <1>1, SubmitTypes, SubmitCopies DEF TypeInv
<1>2. ASSUME NEW c \in Client, MutateG8sUpdate(c) PROVE TypeInv'
  BY <1>2, MutateG8sUpdateTypes, MutateG8sUpdateCopies DEF TypeInv
<1>3. ASSUME NEW c \in Client, CallUpdate(c) PROVE TypeInv'
  BY <1>3, CallUpdateTypes, CallUpdateCopies DEF TypeInv
<1>4. ASSUME NEW c \in Client, RetryUpdate(c) PROVE TypeInv'
  BY <1>4, RetryUpdateTypes, RetryUpdateCopies DEF TypeInv
<1>5. ASSUME NEW c \in Client, AnswerUpdate(c) \/ Crash(c) PROVE TypeInv'
  BY <1>5, AnswerTypes, AnswerCopies DEF TypeInv
<1>6. ASSUME NEW r \in Request, Mutate(r) PROVE TypeInv'
  BY <1>6, MutateTypes, MutateCopies DEF TypeInv
<1>7. ASSUME NEW r \in Request, SkipMutator(r) PROVE TypeInv'
  BY <1>7, SkipMutatorTypes, MutateCopies DEF TypeInv
<1>8. ASSUME NEW r \in Request, Validate(r) \/ SkipValidator(r) PROVE TypeInv'
  BY <1>8, ValidateTypes, ValidateCopies DEF TypeInv
<1>9. ASSUME NEW r \in Request, Refuse(r) PROVE TypeInv'
  BY <1>9, DenyTypes, ValidateCopies DEF TypeInv, Refuse
<1>10. ASSUME NEW r \in Request, Write(r) PROVE TypeInv'
  BY <1>10, WriteTypes, WriteCopies DEF TypeInv
<1>11. ASSUME NEW kind \in Kinds, Delete(kind) PROVE TypeInv'
  BY <1>11, DeleteTypes, DeleteCopies DEF TypeInv
<1>12. CASE UNCHANGED vars
  BY <1>12 DEF vars, TypeInv, Typed, CopiesCurrent
<1>13. QED
  BY <1>1, <1>2, <1>3, <1>4, <1>5, <1>6, <1>7, <1>8, <1>9, <1>10, <1>11, <1>12
     DEF Next, Handle, Serve, Fail

\* Only a skipped call changes the history variable.
LEMMA HistoryStep == [Next]_vars => unvalidated' \in {unvalidated, TRUE}
<1> SUFFICES ASSUME [Next]_vars PROVE unvalidated' \in {unvalidated, TRUE}
  OBVIOUS
<1>1. ASSUME NEW c \in Client, Submit(c) \/ Handle(c) \/ Crash(c)
      PROVE  unvalidated' = unvalidated
  BY <1>1 DEF Submit, Handle, Crash, MutateG8sUpdate, CallUpdate, RetryUpdate,
              AnswerUpdate, Patched
<1>2. ASSUME NEW r \in Request, Serve(r) \/ Fail(r)
      PROVE  unvalidated' \in {unvalidated, TRUE}
  BY <1>2 DEF Serve, Fail, Mutate, Validate, Write, Refuse, SkipMutator, SkipValidator,
              Patched, Deny
<1>3. ASSUME NEW kind \in Kinds, Delete(kind) PROVE unvalidated' = unvalidated
  BY <1>3 DEF Delete
<1>4. QED
  BY <1>1, <1>2, <1>3 DEF Next, vars

\* The variables always have their types: in particular a handler only ever
\* holds an AWSControlPlane with one zone, so that AvailabilityZones[0] in
\* MutateReplicaUpdate exists at every attempt.
THEOREM TypeCorrect == Spec => []TypeOK
<1>1. Init => unvalidated \in BOOLEAN
  BY DEF Init
<1>2. unvalidated \in BOOLEAN /\ [Next]_vars => (unvalidated \in BOOLEAN)'
  BY HistoryStep DEF vars
<1>3. TypeInv /\ unvalidated \in BOOLEAN => TypeOK
  BY DEF TypeInv, TypeOK
<1>4. QED
  BY <1>1, <1>2, <1>3, InitTypes, NextTypes, PTL DEF Spec

-----------------------------------------------------------------------------
(* The handler's update.                                                   *)

\* A request a handler makes is always an update of the AWSControlPlane from
\* one zone to three, the first of which is the old one.
NestedScalesUp ==
  \A c \in Client :
    LET r == req[Nested(c)] IN
    r.pc # "idle" =>
      /\ r.kind = AWS /\ r.op = "update" /\ ~r.dry
      /\ Len(r.old.azs) = 1
      /\ r.obj.azs \in GetHAavailabilityZones(r.old.azs[1])

\* A step that leaves the requests of handlers alone.
LEMMA NestedUnchanged ==
  ASSUME NestedScalesUp,
         \A c \in Client :
           \/ req'[Nested(c)].pc = "idle"
           \/ LET r == req[Nested(c)] IN
              LET s == req'[Nested(c)] IN
              /\ r.pc # "idle" /\ s.kind = r.kind /\ s.op = r.op /\ s.dry = r.dry
              /\ s.old = r.old /\ s.obj = r.obj
  PROVE  NestedScalesUp'
BY DEF NestedScalesUp

LEMMA NestedIsNotUser ==
  ASSUME NEW c \in Client, NEW d \in Client
  PROVE  /\ Nested(c) \in Request /\ User(c) \in Request
         /\ User(c) # Nested(d)
         /\ Nested(c) = Nested(d) => c = d
BY DEF Nested, User, Request

LEMMA NestedIsTyped ==
  ASSUME Typed, NestedScalesUp, NEW c \in Client, req[Nested(c)].pc # "idle"
  PROVE  /\ req[Nested(c)].old \in AWSObject
         /\ req[Nested(c)].obj \in AWSObject
         /\ Len(req[Nested(c)].obj.azs) = 3
         /\ req[Nested(c)].obj.azs[1] = req[Nested(c)].old.azs[1]
<1> DEFINE r == req[Nested(c)]
<1>1. /\ r.kind = AWS /\ r.op = "update"
      /\ Len(r.old.azs) = 1
      /\ r.obj.azs \in GetHAavailabilityZones(r.old.azs[1])
  BY DEF NestedScalesUp
<1>2. r.obj \in AWSObject /\ r.old \in AWSObject
  BY <1>1, NestedIsNotUser, RequestTypes DEF Object
<1>3. r.old.azs[1] \in Nat
  BY <1>1, <1>2 DEF AWSObject
<1>4. QED
  BY <1>1, <1>2, <1>3, HAZonesLemma

LEMMA DenyNested ==
  ASSUME Typed, NestedScalesUp, NEW r \in Request, Deny(r)
  PROVE  NestedScalesUp'
<1>1. \A q \in Request : req'[q] = IdleRequest \/ req'[q] = req[q]
  BY DEF Deny, Done, Typed
<1>2. \A c \in Client : Nested(c) \in Request
  BY NestedIsNotUser
<1>3. IdleRequest.pc = "idle"
  BY DEF IdleRequest
<1>4. QED
  BY <1>1, <1>2, <1>3, NestedUnchanged

LEMMA PatchedUserNested ==
  ASSUME Typed, NestedScalesUp, NEW r \in Request, req[r].pc # "idle",
         NEW pc, NEW obj,
         \/ req' = [req EXCEPT ![r].pc = pc, ![r].obj = obj]
         \/ req' = [req EXCEPT ![r].pc = pc],
         (\E c \in Client : r = Nested(c)) => obj = req[r].obj
  PROVE  NestedScalesUp'
<1>1. ASSUME NEW c \in Client, r = Nested(c)
      PROVE  req'[r].obj = req[r].obj
  BY <1>1 DEF Typed, RequestState, IdleRequest
<1>2. ASSUME NEW c \in Client, r # Nested(c)
      PROVE  req'[Nested(c)] = req[Nested(c)]
  BY <1>2, NestedIsNotUser DEF Typed
<1>3. \A q \in Request :
        /\ req'[q].fresh = req[q].fresh /\ req'[q].op = req[q].op
        /\ req'[q].kind = req[q].kind /\ req'[q].old = req[q].old
        /\ req'[q].dry = req[q].dry
  BY MovedRequest
<1>4. ASSUME NEW c \in Client
      PROVE  \/ req'[Nested(c)].pc = "idle"
             \/ LET q == req[Nested(c)] IN
                LET s == req'[Nested(c)] IN
                /\ q.pc # "idle" /\ s.kind = q.kind /\ s.op = q.op /\ s.dry = q.dry
                /\ s.old = q.old /\ s.obj = q.obj
  <2>1. Nested(c) \in Request
    BY NestedIsNotUser
  <2>2. QED
    BY <1>1, <1>2, <1>3, <2>1
<1>5. QED
  BY <1>4, NestedUnchanged

\* The mutator of the AWSControlPlane leaves the zones a handler chose.
LEMMA MutateNested ==
  ASSUME Typed, NestedScalesUp, NEW r \in Request, Mutate(r) \/ SkipMutator(r)
  PROVE  NestedScalesUp'
<1>1. req[r].pc # "idle"
  BY DEF Mutate, SkipMutator
<1>2. CASE Deny(r)
  BY <1>2, DenyNested
<1>3. CASE Patched(r, req[r].obj)
  BY <1>1, <1>3, PatchedUserNested DEF Patched
<1>4. ASSUME NEW obj, Patched(r, obj), \A c \in Client : r # Nested(c)
      PROVE  NestedScalesUp'
  <2>1. req' = [req EXCEPT ![r].pc = "validating", ![r].obj = obj]
    BY <1>4 DEF Patched
  <2>2. QED
    BY <1>1, <1>4, <2>1, PatchedUserNested
<1>5. ASSUME NEW c \in Client, r = Nested(c), ~Deny(r)
      PROVE  Patched(r, req[r].obj)
  <2>1. /\ req[r].kind = AWS /\ req[r].op = "update" /\ ~req[r].dry
        /\ Len(req[r].obj.azs) = 3 /\ req[r].obj \in AWSObject
    BY <1>1, <1>5, NestedIsTyped DEF NestedScalesUp
  <2>2. req[r].obj.azs # << >>
    BY <2>1, NotEmptyLemma
  <2>3. \A g8s, az, ha : MutateAvailabilityZones(req[r].obj, g8s, az, ha) \subseteq {req[r].obj}
    BY <2>2 DEF MutateAvailabilityZones
  <2>4. ~(req[r].op = "create") /\ req[r].kind # G8s
    BY <2>1
  <2>5. CASE SkipMutator(r)
    BY <2>5 DEF SkipMutator
  <2>6. CASE Mutate(r)
    <3>1. \E g8s, az, ha : \E new \in MutateAvailabilityZones(req[r].obj, g8s, az, ha) : Patched(r, new)
      BY <1>5, <2>1, <2>4, <2>6 DEF Mutate
    <3>2. QED
      BY <2>3, <3>1
  <2>7. QED
    BY <2>5, <2>6
<1>6. QED
  <2>1. Deny(r) \/ \E obj : Patched(r, obj)
    BY DEF Mutate, SkipMutator
  <2>2. QED
    BY <1>2, <1>3, <1>4, <1>5, <2>1

LEMMA SubmitNested ==
  ASSUME Typed, NestedScalesUp, NEW c \in Client, Submit(c)
  PROVE  NestedScalesUp'
<1>1. \E new : req' = [req EXCEPT ![User(c)] = new]
  BY DEF Submit
<1>2. \A d \in Client : req'[Nested(d)] = req[Nested(d)]
  BY <1>1, NestedIsNotUser DEF Typed
<1>3. QED
  BY <1>2 DEF NestedScalesUp

LEMMA HandlerNested ==
  ASSUME Typed, NestedScalesUp, NEW c \in Client,
         MutateG8sUpdate(c) \/ RetryUpdate(c) \/ AnswerUpdate(c) \/ Crash(c)
  PROVE  NestedScalesUp'
<1>1. \/ req' = req
      \/ \E obj : req' = [req EXCEPT ![User(c)].pc = "validating", ![User(c)].obj = obj]
      \/ req' = [req EXCEPT ![User(c)].pc = "validating"]
      \/ req' = [req EXCEPT ![User(c)] = IdleRequest]
  BY DEF MutateG8sUpdate, RetryUpdate, AnswerUpdate, Crash, Patched, Done
<1>2. \A d \in Client : req'[Nested(d)] = req[Nested(d)]
  BY <1>1, NestedIsNotUser DEF Typed
<1>3. QED
  BY <1>2 DEF NestedScalesUp

LEMMA CallUpdateNested ==
  ASSUME Typed, CopiesCurrent, NestedScalesUp, NEW c \in Client, CallUpdate(c)
  PROVE  NestedScalesUp'
<1>1. CASE req' = req
  BY <1>1 DEF NestedScalesUp
<1>2. CASE /\ hdl[c].fresh
           /\ \E azs \in GetHAavailabilityZones(hdl[c].cp.azs[1]) :
                req' = [req EXCEPT ![Nested(c)] =
                  [pc |-> "mutating", kind |-> AWS, op |-> "update", dry |-> FALSE,
                   obj |-> [hdl[c].cp EXCEPT !.azs = azs], old |-> store[AWS],
                   fresh |-> TRUE]]
  <2>1. PICK azs \in GetHAavailabilityZones(hdl[c].cp.azs[1]) :
                req' = [req EXCEPT ![Nested(c)] =
                  [pc |-> "mutating", kind |-> AWS, op |-> "update", dry |-> FALSE,
                   obj |-> [hdl[c].cp EXCEPT !.azs = azs], old |-> store[AWS],
                   fresh |-> TRUE]]
    BY <1>2
  <2>2. hdl[c].cp = store[AWS] /\ hdl[c].cp \in AWSObject /\ Len(hdl[c].cp.azs) = 1
    BY <1>2, HandlerTypes DEF CallUpdate, CopiesCurrent
  <2>3. [hdl[c].cp EXCEPT !.azs = azs].azs = azs
    BY <2>2 DEF AWSObject
  <2>4. ASSUME NEW d \in Client, d # c
        PROVE  req'[Nested(d)] = req[Nested(d)]
    BY <2>1, <2>4, NestedIsNotUser DEF Typed
  <2>5. /\ req'[Nested(c)].kind = AWS /\ req'[Nested(c)].op = "update"
        /\ ~req'[Nested(c)].dry
        /\ req'[Nested(c)].old = store[AWS]
        /\ req'[Nested(c)].obj.azs = azs
    BY <2>1, <2>3, NestedIsNotUser DEF Typed
  <2>6. QED
    BY <2>2, <2>4, <2>5 DEF NestedScalesUp
<1>3. QED
  BY <1>1, <1>2 DEF CallUpdate

LEMMA ValidateNested ==
  ASSUME Typed, NestedScalesUp, NEW r \in Request,
         Validate(r) \/ Refuse(r) \/ SkipValidator(r)
  PROVE  NestedScalesUp'
<1>1. CASE Deny(r)
  BY <1>1, DenyNested
<1>2. CASE /\ req[r].pc = "validating"
           /\ req' = [req EXCEPT ![r].pc = "writing"]
  BY <1>2, PatchedUserNested
<1>3. QED
  BY <1>1, <1>2 DEF Validate, Refuse, SkipValidator

LEMMA StaleNested ==
  ASSUME NEW reqs \in [Request -> RequestState], NEW kind, Typed, NestedScalesUp,
         \A q \in Request : reqs[q] = IdleRequest \/ reqs[q] = req[q],
         req' = StaleRequests(reqs, kind)
  PROVE  NestedScalesUp'
<1>1. ASSUME NEW q \in Request
      PROVE  /\ req'[q].pc = reqs[q].pc
             /\ req'[q].kind = reqs[q].kind /\ req'[q].op = reqs[q].op
             /\ req'[q].dry = reqs[q].dry
             /\ req'[q].old = reqs[q].old /\ req'[q].obj = reqs[q].obj
  BY DEF StaleRequests, RequestState, IdleRequest
<1>2. IdleRequest.pc = "idle"
  BY DEF IdleRequest
<1>3. QED
  BY <1>1, <1>2, NestedIsNotUser, NestedUnchanged

LEMMA WriteNested ==
  ASSUME Typed, NestedScalesUp, NEW r \in Request, Write(r)
  PROVE  NestedScalesUp'
<1>1. Done(r) \in [Request -> RequestState]
  BY RequestTypes
<1>2. \A q \in Request : Done(r)[q] = IdleRequest \/ Done(r)[q] = req[q]
  BY DEF Done, Typed
<1>3. req' = StaleRequests(Done(r), req[r].kind)
  BY DEF Write
<1>4. QED
  BY <1>1, <1>2, <1>3, StaleNested

LEMMA DeleteNested ==
  ASSUME Typed, NestedScalesUp, NEW kind \in Kinds, Delete(kind)
  PROVE  NestedScalesUp'
BY StaleNested DEF Delete, Typed

ScaleUpInv == TypeInv /\ NestedScalesUp

LEMMA ScaleUpInvariant == Spec => []ScaleUpInv
<1>1. Init => NestedScalesUp
  BY NestedIsNotUser DEF Init, NestedScalesUp, IdleRequest
<1>2. ScaleUpInv /\ [Next]_vars => ScaleUpInv'
  <2> SUFFICES ASSUME TypeInv, Typed, CopiesCurrent, NestedScalesUp, [Next]_vars
               PROVE  NestedScalesUp'
    BY NextTypes DEF ScaleUpInv, TypeInv
  <2>1. ASSUME NEW c \in Client, Submit(c) PROVE NestedScalesUp'
    BY <2>1, SubmitNested
  <2>2. ASSUME NEW c \in Client,
               MutateG8sUpdate(c) \/ RetryUpdate(c) \/ AnswerUpdate(c) \/ Crash(c)
        PROVE  NestedScalesUp'
    BY <2>2, HandlerNested
  <2>3. ASSUME NEW c \in Client, CallUpdate(c) PROVE NestedScalesUp'
    BY <2>3, CallUpdateNested
  <2>4. ASSUME NEW r \in Request, Mutate(r) \/ SkipMutator(r) PROVE NestedScalesUp'
    BY <2>4, MutateNested
  <2>5. ASSUME NEW r \in Request, Validate(r) \/ Refuse(r) \/ SkipValidator(r)
        PROVE  NestedScalesUp'
    BY <2>5, ValidateNested
  <2>6. ASSUME NEW r \in Request, Write(r) PROVE NestedScalesUp'
    BY <2>6, WriteNested
  <2>7. ASSUME NEW kind \in Kinds, Delete(kind) PROVE NestedScalesUp'
    BY <2>7, DeleteNested
  <2>8. CASE UNCHANGED vars
    BY <2>8 DEF vars, NestedScalesUp
  <2>9. QED
    BY <2>1, <2>2, <2>3, <2>4, <2>5, <2>6, <2>7, <2>8 DEF Next, Handle, Serve, Fail
<1>3. QED
  BY <1>1, <1>2, InitTypes, PTL DEF Spec, ScaleUpInv

\* What a handler writes when it scales up is always the one zone it read,
\* kept in its place, and two more: whatever clients wrote in the meantime,
\* whichever calls were skipped and however often the update was retried, it
\* overwrites nothing else.
THEOREM ScaleUpIsSafe == Spec => HandlerOnlyScalesUp
<1>1. ASSUME ScaleUpInv, NEW c \in Client, Write(Nested(c))
      PROVE  /\ Len(store[AWS].azs) = 1
             /\ Len(store'[AWS].azs) = 3
             /\ store'[AWS].azs[1] = store[AWS].azs[1]
  <2> DEFINE r == req[Nested(c)]
  <2> Typed /\ CopiesCurrent /\ NestedScalesUp
    BY <1>1 DEF ScaleUpInv, TypeInv
  <2>1. r.pc # "idle" /\ Writable(Nested(c)) /\ store' = [store EXCEPT ![r.kind] = r.obj]
    BY <1>1 DEF Write
  <2>2. r.kind = AWS /\ r.op = "update" /\ Len(r.old.azs) = 1
    BY <2>1 DEF NestedScalesUp
  <2>3. Len(r.obj.azs) = 3 /\ r.obj.azs[1] = r.old.azs[1]
    BY <2>1, NestedIsTyped
  <2>4. r.old = store[AWS]
    BY <2>1, <2>2, NestedIsNotUser DEF Writable, CopiesCurrent
  <2>5. store'[AWS] = r.obj
    BY <2>1, <2>2 DEF Typed, TypedStores
  <2>6. QED
    BY <2>2, <2>3, <2>4, <2>5
<1>2. ScaleUpInv => \A c \in Client :
        Write(Nested(c)) =>
          /\ Len(store[AWS].azs) = 1
          /\ Len(store'[AWS].azs) = 3
          /\ store'[AWS].azs[1] = store[AWS].azs[1]
  BY <1>1
<1>3. QED
  BY <1>2, ScaleUpInvariant, PTL DEF HandlerOnlyScalesUp

=============================================================================
