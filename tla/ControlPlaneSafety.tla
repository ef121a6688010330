------------------------- MODULE ControlPlaneSafety -------------------------
(***************************************************************************)
(* Theorems about what is stored in ControlPlane and what a dry run does,  *)
(* for any number of clients, any zones and any failures.  The lemmas of   *)
(* the first part say what a step may do to a request, to a handler and to *)
(* the store; the invariants of the later parts are proved from them and   *)
(* never look at an action again.                                          *)
(***************************************************************************)
EXTENDS ControlPlaneProofs

USE DEF G8s, AWS, Kinds

-----------------------------------------------------------------------------
(* What a step may do.                                                     *)

\* The request r is left alone, but for the mark that its copy is current.
Kept(r) ==
  /\ req'[r].pc = req[r].pc /\ req'[r].kind = req[r].kind /\ req'[r].op = req[r].op
  /\ req'[r].dry = req[r].dry /\ req'[r].obj = req[r].obj /\ req'[r].old = req[r].old

Ended(r) == req'[r] = IdleRequest

\* The mutating webhook has answered, or was skipped.
Mutated(r) ==
  /\ req[r].pc = "mutating" /\ req'[r].pc = "validating"
  /\ req'[r].kind = req[r].kind /\ req'[r].op = req[r].op
  /\ req'[r].dry = req[r].dry /\ req'[r].old = req[r].old

\* The validating webhook has admitted the request, or was skipped.
Validated(r) ==
  /\ req[r].pc = "validating" /\ req'[r].pc = "writing"
  /\ req'[r].kind = req[r].kind /\ req'[r].op = req[r].op
  /\ req'[r].dry = req[r].dry /\ req'[r].obj = req[r].obj /\ req'[r].old = req[r].old
  /\ \/ unvalidated' /\ "skipValidator" \in Faults
     \/ \E other \in Fetched(Other(req[r].kind)) : Admitted(req[r], other)
  /\ UNCHANGED store

\* The client c has submitted a request.
Submitted(c) ==
  LET r == req'[User(c)] IN
  /\ r.pc = "mutating" /\ <<r.kind, r.op>> \in UserOps
  /\ r.op = "update" => r.old = store[r.kind]
  /\ req'[Nested(c)].pc = "idle" /\ hdl'[c].pc = "idle"

\* The handler that serves the client c has sent its update.
Called(c) ==
  LET r == req'[Nested(c)] IN
  /\ hdl[c].pc # "idle"
  /\ r.pc = "mutating" /\ r.kind = AWS /\ r.op = "update"
  /\ r.old = store[AWS]

RequestEffect(r) ==
  \/ Kept(r)
  \/ Ended(r)
  \/ Mutated(r)
  \/ Validated(r)
  \/ \E c \in Client : r = User(c) /\ Submitted(c)
  \/ \E c \in Client : r = Nested(c) /\ Called(c)

\* A handler starts only for a request that is not a dry run.
HandlerEffect(c) ==
  \/ hdl'[c].pc = "idle"
  \/ hdl[c].pc # "idle"
  \/ ~req[User(c)].dry /\ UNCHANGED req

Deleted(kind) ==
  /\ <<kind, "delete">> \in UserOps
  /\ store' = [store EXCEPT ![kind] = None]

Written(r) ==
  /\ req[r].pc = "writing" /\ Writable(r) /\ ~req[r].dry
  /\ store' = [store EXCEPT ![req[r].kind] = req[r].obj]

StoreEffect ==
  \/ UNCHANGED store
  \/ (\E kind \in Kinds : Deleted(kind)) /\ UNCHANGED unvalidated
  \/ (\E r \in Request : Written(r)) /\ UNCHANGED unvalidated

Effects ==
  /\ \A r \in Request : RequestEffect(r)
  /\ \A c \in Client : HandlerEffect(c)
  /\ StoreEffect

LEMMA MovedOnly ==
  ASSUME Typed, NEW r \in Request, req[r].pc # "idle", NEW pc, NEW obj,
         \/ req' = [req EXCEPT ![r].pc = pc, ![r].obj = obj]
         \/ req' = [req EXCEPT ![r].pc = pc] /\ obj = req[r].obj
  PROVE  /\ req'[r].pc = pc /\ req'[r].obj = obj
         /\ \A q \in Request : q # r => req'[q] = req[q]
<1>1. "pc" \in DOMAIN req[r] /\ "obj" \in DOMAIN req[r]
  BY DEF Typed, RequestState, IdleRequest
<1>2. QED
  BY <1>1 DEF Typed

\* A request that changes leaves all the others alone.
LEMMA OthersKept ==
  ASSUME NEW r, \A q \in Request : q # r => req'[q] = req[q]
  PROVE  \A q \in Request : q = r \/ Kept(q)
BY DEF Kept

LEMMA ToldHandlers ==
  ASSUME Typed, NEW r \in Request, NEW answers, NEW h \in Told(r, answers), NEW c \in Client
  PROVE  h[c].pc = "idle" \/ hdl[c].pc # "idle"
<1>1. h = hdl \/ (hdl[r[1]].pc = "calling" /\ \E a \in answers : h = [hdl EXCEPT ![r[1]].pc = a])
  BY DEF Told
<1>2. QED
  BY <1>1 DEF Typed

\* The mark that a copy is current is all that changes when copies grow stale.
LEMMA StaleKeeps ==
  ASSUME NEW reqs \in [Request -> RequestState], NEW kind, NEW q \in Request
  PROVE  LET s == StaleRequests(reqs, kind)[q] IN
         /\ s.pc = reqs[q].pc /\ s.kind = reqs[q].kind /\ s.op = reqs[q].op
         /\ s.dry = reqs[q].dry /\ s.obj = reqs[q].obj /\ s.old = reqs[q].old
         /\ reqs[q] = IdleRequest => s = IdleRequest
<1>1. CASE reqs[q] = IdleRequest
  <2>1. ~reqs[q].fresh
    BY <1>1 DEF IdleRequest
  <2>2. StaleRequests(reqs, kind)[q] = reqs[q]
    BY <2>1 DEF StaleRequests
  <2>3. QED
    BY <2>2
<1>2. CASE reqs[q] # IdleRequest
  BY <1>2 DEF StaleRequests, RequestState
<1>3. QED
  BY <1>1, <1>2

LEMMA StaleHandlersKeep ==
  ASSUME NEW hdls, NEW kind, NEW c \in Client, hdls[c] \in HandlerState
  PROVE  StaleHandlers(hdls, kind)[c].pc = hdls[c].pc
BY DEF StaleHandlers, HandlerState, IdleHandler

LEMMA DenyEffects ==
  ASSUME Typed, NEW r \in Request, Deny(r)
  PROVE  Effects
<1>1. \A q \in Request : Ended(q) \/ Kept(q)
  BY DEF Deny, Done, Ended, Kept, Typed
<1>2. \A c \in Client : hdl'[c].pc = "idle" \/ hdl[c].pc # "idle"
  BY ToldHandlers DEF Deny
<1>3. UNCHANGED store
  BY DEF Deny
<1>4. QED
  BY <1>1, <1>2, <1>3 DEF Effects, RequestEffect, HandlerEffect, StoreEffect

LEMMA PatchedEffects ==
  ASSUME Typed, NEW r \in Request, req[r].pc = "mutating", NEW obj, Patched(r, obj)
  PROVE  Effects
<1>1. req' = [req EXCEPT ![r].pc = "validating", ![r].obj = obj] /\ req[r].pc # "idle"
  BY DEF Patched
<1>2. Mutated(r)
  BY <1>1, MovedOnly, MovedRequest DEF Mutated
<1>3. \A q \in Request : q = r \/ Kept(q)
  BY <1>1, MovedOnly, OthersKept
<1>4. UNCHANGED <<store, hdl>>
  BY DEF Patched
<1>5. QED
  BY <1>2, <1>3, <1>4 DEF Effects, RequestEffect, HandlerEffect, StoreEffect

LEMMA SubmitEffects ==
  ASSUME Typed, NEW c \in Client, Submit(c)
  PROVE  Effects
<1>1. User(c) \in Request
  BY NestedIsNotUser
<1>2. PICK new :
        /\ req' = [req EXCEPT ![User(c)] = new]
        /\ new.pc = "mutating" /\ <<new.kind, new.op>> \in UserOps
        /\ new.op = "update" => new.old = store[new.kind]
  <2>1. PICK kind \in Kinds, op \in {"create", "update"}, dry \in DryRuns :
          /\ <<kind, op>> \in UserOps
          /\ \E obj \in Inputs(kind) :
               req' = [req EXCEPT ![User(c)] =
                 [pc |-> "mutating", kind |-> kind, op |-> op, dry |-> dry, obj |-> obj,
                  old |-> IF op = "update" THEN store[kind] ELSE None, fresh |-> TRUE]]
    BY DEF Submit
  <2>2. PICK obj \in Inputs(kind) :
               req' = [req EXCEPT ![User(c)] =
                 [pc |-> "mutating", kind |-> kind, op |-> op, dry |-> dry, obj |-> obj,
                  old |-> IF op = "update" THEN store[kind] ELSE None, fresh |-> TRUE]]
    BY <2>1
  <2> DEFINE x == [pc |-> "mutating", kind |-> kind, op |-> op, dry |-> dry, obj |-> obj,
                   old |-> IF op = "update" THEN store[kind] ELSE None, fresh |-> TRUE]
  <2>3. /\ x.pc = "mutating" /\ <<x.kind, x.op>> \in UserOps
        /\ x.op = "update" => x.old = store[x.kind]
    BY <2>1
  <2>4. QED
    BY <2>2, <2>3
<1>3. req'[User(c)] = new /\ \A q \in Request : q # User(c) => req'[q] = req[q]
  BY <1>1, <1>2 DEF Typed
<1>4. req[Nested(c)].pc = "idle" /\ hdl[c].pc = "idle" /\ UNCHANGED <<store, hdl>>
  BY DEF Submit
<1>5. Submitted(c)
  BY <1>2, <1>3, <1>4, NestedIsNotUser DEF Submitted
<1>6. \A q \in Request : q = User(c) \/ Kept(q)
  BY <1>3, OthersKept
<1>7. QED
  BY <1>4, <1>5, <1>6 DEF Effects, RequestEffect, HandlerEffect, StoreEffect

LEMMA MutateEffects ==
  ASSUME Typed, NEW r \in Request, Mutate(r) \/ SkipMutator(r)
  PROVE  Effects
<1>1. req[r].pc = "mutating" /\ (Deny(r) \/ \E obj : Patched(r, obj))
  BY DEF Mutate, SkipMutator
<1>2. QED
  BY <1>1, DenyEffects, PatchedEffects

LEMMA MutateG8sUpdateEffects ==
  ASSUME Typed, NEW c \in Client, MutateG8sUpdate(c)
  PROVE  Effects
<1>1. User(c) \in Request /\ req[User(c)].pc = "mutating" /\ ~req[User(c)].dry
  BY NestedIsNotUser DEF MutateG8sUpdate
<1>2. CASE \E obj : Patched(User(c), obj)
  BY <1>1, <1>2, PatchedEffects
<1>3. CASE UNCHANGED <<store, req>> /\ \E new : hdl' = [hdl EXCEPT ![c] = new]
  <2>1. \A q \in Request : Kept(q)
    BY <1>3 DEF Kept
  <2>2. \A d \in Client : d = c \/ hdl'[d] = hdl[d]
    BY <1>3 DEF Typed
  <2>3. \A d \in Client : HandlerEffect(d)
    BY <1>1, <1>3, <2>2 DEF HandlerEffect
  <2>4. QED
    BY <1>3, <2>1, <2>3 DEF Effects, RequestEffect, StoreEffect
<1>4. QED
  BY <1>2, <1>3 DEF MutateG8sUpdate

LEMMA CallUpdateEffects ==
  ASSUME Typed, NEW c \in Client, CallUpdate(c)
  PROVE  Effects
<1>1. Nested(c) \in Request /\ hdl[c].pc # "idle" /\ UNCHANGED store
  BY NestedIsNotUser DEF CallUpdate
<1>2. \A d \in Client : HandlerEffect(d)
  <2>1. PICK a : hdl' = [hdl EXCEPT ![c].pc = a]
    BY DEF CallUpdate
  <2>2. \A d \in Client : d = c \/ hdl'[d] = hdl[d]
    BY <2>1 DEF Typed
  <2>3. QED
    BY <1>1, <2>2 DEF HandlerEffect
<1>3. CASE req' = req
  BY <1>1, <1>2, <1>3 DEF Effects, RequestEffect, Kept, StoreEffect
<1>4. CASE \E obj : req' = [req EXCEPT ![Nested(c)] =
                   [pc |-> "mutating", kind |-> AWS, op |-> "update", dry |-> FALSE,
                    obj |-> obj, old |-> store[AWS], fresh |-> TRUE]]
  <2>1. PICK obj : req' = [req EXCEPT ![Nested(c)] =
                   [pc |-> "mutating", kind |-> AWS, op |-> "update", dry |-> FALSE,
                    obj |-> obj, old |-> store[AWS], fresh |-> TRUE]]
    BY <1>4
  <2>2. Called(c)
    BY <1>1, <2>1 DEF Called, Typed
  <2>3. \A q \in Request : q # Nested(c) => req'[q] = req[q]
    BY <2>1 DEF Typed
  <2>4. \A q \in Request : q = Nested(c) \/ Kept(q)
    BY <2>3, OthersKept
  <2>5. QED
    BY <1>1, <1>2, <2>2, <2>4 DEF Effects, RequestEffect, StoreEffect
<1>5. QED
  BY <1>3, <1>4 DEF CallUpdate

LEMMA AnswerEffects ==
  ASSUME Typed, NEW c \in Client, RetryUpdate(c) \/ AnswerUpdate(c) \/ Crash(c)
  PROVE  Effects
<1>1. User(c) \in Request /\ hdl[c].pc # "idle" /\ UNCHANGED store
  BY NestedIsNotUser DEF RetryUpdate, AnswerUpdate, Crash
<1>2. \A d \in Client : HandlerEffect(d)
  <2>1. \A d \in Client : d = c \/ hdl'[d] = hdl[d]
    BY DEF Typed, RetryUpdate, AnswerUpdate, Crash
  <2>2. QED
    BY <1>1, <2>1 DEF HandlerEffect
<1>3. \A q \in Request : RequestEffect(q)
  <2>1. \/ req' = req
        \/ req' = Done(User(c))
        \/ /\ req[User(c)].pc = "mutating"
           /\ req' = [req EXCEPT ![User(c)].pc = "validating"]
    BY DEF RetryUpdate, AnswerUpdate, Crash
  <2>2. CASE req' = req
    BY <2>2 DEF RequestEffect, Kept
  <2>3. CASE req' = Done(User(c))
    BY <1>1, <2>3 DEF RequestEffect, Kept, Ended, Done, Typed
  <2>4. CASE /\ req[User(c)].pc = "mutating"
             /\ req' = [req EXCEPT ![User(c)].pc = "validating"]
    <3>1. Mutated(User(c))
      BY <1>1, <2>4, MovedOnly, MovedRequest DEF Mutated
    <3>2. \A q \in Request : q = User(c) \/ Kept(q)
      BY <1>1, <2>4, MovedOnly, OthersKept
    <3>3. QED
      BY <3>1, <3>2 DEF RequestEffect
  <2>5. QED
    BY <2>1, <2>2, <2>3, <2>4
<1>4. QED
  BY <1>1, <1>2, <1>3 DEF Effects, StoreEffect

LEMMA ValidateEffects ==
  ASSUME Typed, NEW r \in Request, Validate(r) \/ SkipValidator(r)
  PROVE  Effects
<1>1. CASE Deny(r)
  BY <1>1, DenyEffects
<1>2. CASE /\ req[r].pc = "validating"
           /\ req' = [req EXCEPT ![r].pc = "writing"]
           /\ UNCHANGED <<store, hdl>>
           /\ \/ unvalidated' /\ "skipValidator" \in Faults
              \/ \E other \in Fetched(Other(req[r].kind)) : Admitted(req[r], other)
  <2>1. Validated(r)
    <3>1. req[r].pc # "idle"
      BY <1>2
    <3>2. req'[r].pc = "writing" /\ req'[r].obj = req[r].obj
      BY <1>2, <3>1, MovedOnly
    <3>3. /\ req'[r].kind = req[r].kind /\ req'[r].op = req[r].op
          /\ req'[r].dry = req[r].dry /\ req'[r].old = req[r].old
      BY <1>2, <3>1, MovedRequest
    <3>4. QED
      BY <1>2, <3>2, <3>3 DEF Validated
  <2>2. \A q \in Request : q = r \/ Kept(q)
    BY <1>2, MovedOnly, OthersKept
  <2>3. QED
    BY <1>2, <2>1, <2>2 DEF Effects, RequestEffect, HandlerEffect, StoreEffect
<1>3. QED
  BY <1>1, <1>2 DEF Validate, SkipValidator

LEMMA WriteEffects ==
  ASSUME Typed, NEW r \in Request, Write(r)
  PROVE  Effects
<1> DEFINE kind == req[r].kind
           answers == {"updated"} \cup IF "lostReply" \in Faults THEN {"failed"} ELSE {}
<1>1. Written(r) /\ UNCHANGED unvalidated
  BY DEF Write, Written
<1>2. Done(r) \in [Request -> RequestState] /\ req' = StaleRequests(Done(r), kind)
  BY RequestTypes DEF Write
<1>3. \A q \in Request : Ended(q) \/ Kept(q)
  <2>1. \A q \in Request : Done(r)[q] = IdleRequest \/ Done(r)[q] = req[q]
    BY DEF Done, Typed
  <2>2. QED
    BY <1>2, <2>1, StaleKeeps DEF Ended, Kept
<1>4. \A c \in Client : hdl'[c].pc = "idle" \/ hdl[c].pc # "idle"
  <2>1. PICK h \in Told(r, answers) : hdl' = StaleHandlers(h, kind)
    BY DEF Write
  <2>2. \A c \in Client : h[c] \in HandlerState
    BY ToldTypes
  <2>3. QED
    BY <2>1, <2>2, ToldHandlers, StaleHandlersKeep
<1>5. QED
  BY <1>1, <1>3, <1>4 DEF Effects, RequestEffect, HandlerEffect, StoreEffect

LEMMA DeleteEffects ==
  ASSUME Typed, NEW kind \in Kinds, Delete(kind)
  PROVE  Effects
<1>1. Deleted(kind) /\ UNCHANGED unvalidated
  BY DEF Delete, Deleted
<1>2. \A q \in Request : Kept(q)
  BY StaleKeeps DEF Kept, Typed, Delete
<1>3. \A c \in Client : hdl'[c].pc = hdl[c].pc
  BY StaleHandlersKeep DEF Typed, Delete
<1>4. QED
  BY <1>1, <1>2, <1>3 DEF Effects, RequestEffect, HandlerEffect, StoreEffect

\* Every step of the specification is one of these.
LEMMA StepEffects == Typed /\ [Next]_vars => Effects
<1> SUFFICES ASSUME Typed, [Next]_vars PROVE Effects
  OBVIOUS
<1>1. ASSUME NEW c \in Client, Submit(c) \/ Handle(c) \/ Crash(c) PROVE Effects
  BY <1>1, SubmitEffects, MutateG8sUpdateEffects, CallUpdateEffects, AnswerEffects DEF Handle
<1>2. ASSUME NEW r \in Request, Serve(r) \/ Fail(r) PROVE Effects
  BY <1>2, MutateEffects, ValidateEffects, WriteEffects, DenyEffects DEF Serve, Fail, Refuse
<1>3. ASSUME NEW kind \in Kinds, Delete(kind) PROVE Effects
  BY <1>3, DeleteEffects
<1>4. CASE UNCHANGED vars
  BY <1>4 DEF vars, Effects, RequestEffect, Kept, HandlerEffect, StoreEffect
<1>5. QED
  BY <1>1, <1>2, <1>3, <1>4 DEF Next

-----------------------------------------------------------------------------
(* Dry runs.                                                               *)

LEMMA DryRunStep == Typed /\ DryRunHasNoSideEffects /\ Effects => DryRunHasNoSideEffects'
<1> SUFFICES ASSUME Typed, DryRunHasNoSideEffects, Effects,
                    NEW c \in Client, hdl'[c].pc # "idle" \/ req'[Nested(c)].pc # "idle"
             PROVE  ~req'[User(c)].dry
  BY DEF DryRunHasNoSideEffects
<1> DEFINE u == User(c)
           n == Nested(c)
<1>1. u \in Request /\ n \in Request /\ u # n
  BY NestedIsNotUser
<1>2. CASE Submitted(c)
  BY <1>2 DEF Submitted
<1>3. CASE ~req[u].dry /\ ~Submitted(c)
  <2>1. \A d \in Client : (u = User(d) => d = c) /\ u # Nested(d)
    BY DEF User, Nested
  <2>2. Kept(u) \/ Ended(u) \/ Mutated(u) \/ Validated(u)
    BY <1>1, <1>3, <2>1 DEF Effects, RequestEffect
  <2>3. QED
    BY <1>3, <2>2 DEF Kept, Ended, Mutated, Validated, IdleRequest
<1>4. CASE req[u].dry
  <2>1. hdl[c].pc = "idle" /\ req[n].pc = "idle"
    BY <1>4 DEF DryRunHasNoSideEffects
  <2>2. hdl'[c].pc = "idle"
    BY <1>4, <2>1 DEF Effects, HandlerEffect
  <2>3. \A d \in Client : (n = Nested(d) => d = c) /\ n # User(d)
    BY DEF User, Nested
  <2>4. Kept(n) \/ Ended(n)
    BY <1>1, <2>1, <2>3 DEF Effects, RequestEffect, Mutated, Validated, Called
  <2>5. QED
    BY <2>1, <2>2, <2>4 DEF Kept, Ended, IdleRequest
<1>5. QED
  BY <1>2, <1>3, <1>4

\* A dry run never leads to an update of the other CR: no handler works for it
\* and no update was sent on its behalf, whatever was skipped, lost or crashed
\* before.  MutateG8sUpdate turns a dry run down before it starts a handler, and
\* a client's next request waits for the handler of the last one.
THEOREM DryRunsAreDry == Spec => []DryRunHasNoSideEffects
<1>1. Init => DryRunHasNoSideEffects
  BY NestedIsNotUser DEF Init, DryRunHasNoSideEffects, IdleRequest, IdleHandler
<1>2. DryRunHasNoSideEffects /\ TypeInv /\ [Next]_vars => DryRunHasNoSideEffects'
  BY DryRunStep, StepEffects DEF TypeInv
<1>3. QED
  BY <1>1, <1>2, InitTypes, NextTypes, PTL DEF Spec

-----------------------------------------------------------------------------
(* What is stored.                                                         *)

\* What the API server holds at the start has been admitted before.
InitiallyAdmissible ==
  \A s \in InitialStores, kind \in Kinds :
    s[kind] # None => AdmissibleObject(kind, s[kind])

\* A request that may be written has passed its validation.
WritesAdmitted ==
  \A r \in Request :
    req[r].pc = "writing" =>
      /\ AdmissibleObject(req[r].kind, req[r].obj)
      /\ req[r].kind = AWS /\ req[r].op = "update"
           => ~OrderChanged(req[r].old.azs, req[r].obj.azs)

StoreAdmitted ==
  \A kind \in Kinds : store[kind] # None => AdmissibleObject(kind, store[kind])

\* An update was built from what was stored at some time.
OldAdmitted ==
  \A r \in Request :
    req[r].pc # "idle" /\ req[r].op = "update" => AdmissibleObject(req[r].kind, req[r].old)

AdmitInv == ~unvalidated => WritesAdmitted /\ StoreAdmitted /\ OldAdmitted

LEMMA WritesAdmittedStep ==
  Typed /\ Effects /\ ~unvalidated' /\ WritesAdmitted => WritesAdmitted'
<1> SUFFICES ASSUME Typed, Effects, ~unvalidated', WritesAdmitted,
                    NEW r \in Request, req'[r].pc = "writing"
             PROVE  /\ AdmissibleObject(req'[r].kind, req'[r].obj)
                    /\ req'[r].kind = AWS /\ req'[r].op = "update"
                         => ~OrderChanged(req'[r].old.azs, req'[r].obj.azs)
  BY DEF WritesAdmitted, AdmissibleObject, ValidZones, AZCount, AZValid, AZUnique, ReplicaCount,
         OrderChanged, Displaced
<1>1. Kept(r) \/ Validated(r)
  <2>1. ~Ended(r) /\ ~Mutated(r)
    BY DEF Ended, Mutated, IdleRequest
  <2>2. ASSUME NEW c \in Client
        PROVE  /\ r = User(c) => ~Submitted(c)
               /\ r = Nested(c) => ~Called(c)
    BY DEF Submitted, Called
  <2>3. QED
    BY <2>1, <2>2 DEF Effects, RequestEffect
<1>2. CASE Kept(r)
  BY <1>2 DEF Kept, WritesAdmitted
<1>3. CASE Validated(r)
  <2>1. PICK other : Admitted(req[r], other)
    BY <1>3 DEF Validated
  <2>2. req[r].kind \in Kinds
    BY <1>3, RequestTypes DEF Validated
  <2>3. CASE req[r].kind = G8s
    BY <1>3, <2>1, <2>3 DEF Validated, Admitted, G8sAdmitted, AdmissibleObject
  <2>4. CASE req[r].kind = AWS
    BY <1>3, <2>1, <2>4 DEF Validated, Admitted, AWSAdmitted, AdmissibleObject, ValidZones
  <2>5. QED
    BY <2>2, <2>3, <2>4
<1>4. QED
  BY <1>1, <1>2, <1>3

LEMMA StoreAdmittedStep ==
  Typed /\ Effects /\ WritesAdmitted /\ StoreAdmitted => StoreAdmitted'
<1> SUFFICES ASSUME Typed, Effects, WritesAdmitted, StoreAdmitted,
                    NEW kind \in Kinds, store'[kind] # None
             PROVE  AdmissibleObject(kind, store'[kind])
  BY DEF StoreAdmitted, AdmissibleObject, ValidZones, AZCount, AZValid, AZUnique, ReplicaCount
<1>1. CASE store'[kind] = store[kind]
  BY <1>1 DEF StoreAdmitted
<1>2. CASE \E k \in Kinds : Deleted(k)
  BY <1>1, <1>2 DEF Deleted, Typed, TypedStores
<1>3. CASE \E r \in Request : Written(r)
  <2>1. PICK r \in Request : Written(r)
    BY <1>3
  <2>2. store'[kind] = store[kind] \/ (kind = req[r].kind /\ store'[kind] = req[r].obj)
    BY <2>1 DEF Written, Typed, TypedStores
  <2>3. AdmissibleObject(req[r].kind, req[r].obj)
    BY <2>1 DEF Written, WritesAdmitted
  <2>4. QED
    BY <1>1, <2>2, <2>3
<1>4. QED
  BY <1>1, <1>2, <1>3 DEF Effects, StoreEffect

LEMMA OldAdmittedStep ==
  Typed /\ Typed' /\ Effects /\ StoreAdmitted /\ OldAdmitted => OldAdmitted'
<1> SUFFICES ASSUME Typed, Typed', Effects, StoreAdmitted, OldAdmitted,
                    NEW r \in Request, req'[r].pc # "idle", req'[r].op = "update"
             PROVE  AdmissibleObject(req'[r].kind, req'[r].old)
  BY DEF OldAdmitted, AdmissibleObject, ValidZones, AZCount, AZValid, AZUnique, ReplicaCount
<1>1. CASE Kept(r) \/ Mutated(r) \/ Validated(r)
  BY <1>1 DEF Kept, Mutated, Validated, OldAdmitted
<1>2. CASE Ended(r)
  BY <1>2 DEF Ended, IdleRequest
<1>3. CASE req'[r].old = store[req'[r].kind]
  <2>1. req'[r].kind \in Kinds /\ req'[r].old \in Object(req'[r].kind)
    BY DEF Typed, RequestState, IdleRequest
  <2>2. req'[r].old # None
    BY <2>1, NoneAssumption DEF Object
  <2>3. QED
    BY <1>3, <2>1, <2>2 DEF StoreAdmitted
<1>4. QED
  BY <1>1, <1>2, <1>3 DEF Effects, RequestEffect, Submitted, Called

LEMMA AdmitStep == AdmitInv /\ TypeInv /\ [Next]_vars => AdmitInv'
<1> SUFFICES ASSUME AdmitInv, TypeInv, [Next]_vars, ~unvalidated'
             PROVE  WritesAdmitted' /\ StoreAdmitted' /\ OldAdmitted'
  BY DEF AdmitInv
<1>1. ~unvalidated
  BY HistoryStep
<1>2. WritesAdmitted /\ StoreAdmitted /\ OldAdmitted
  BY <1>1 DEF AdmitInv
<1>3. Typed /\ Typed' /\ Effects
  BY NextTypes, StepEffects DEF TypeInv
<1>4. QED
  BY <1>2, <1>3, WritesAdmittedStep, StoreAdmittedStep, OldAdmittedStep

LEMMA AdmitInvariant ==
  ASSUME InitiallyAdmissible
  PROVE  Spec => [](AdmitInv /\ ScaleUpInv)
<1>1. Init => AdmitInv
  BY DEF Init, AdmitInv, WritesAdmitted, StoreAdmitted, OldAdmitted, InitiallyAdmissible, IdleRequest
<1>2. AdmitInv /\ ScaleUpInv /\ [Next]_vars => AdmitInv'
  BY AdmitStep DEF ScaleUpInv
<1>3. QED
  BY <1>1, <1>2, ScaleUpInvariant, PTL DEF Spec

\* While no validating call is skipped, only objects with a valid number of
\* masters, in zones of the installation and in as many different ones as there
\* can be, are ever stored: whatever the mutators put in, however many clients
\* write at the same time, and whichever other call fails.
THEOREM OnlyAdmissibleIsStored ==
  ASSUME InitiallyAdmissible
  PROVE  Spec => []StoredAdmissible
<1>1. AdmitInv => StoredAdmissible
  BY DEF AdmitInv, StoreAdmitted, StoredAdmissible
<1>2. QED
  BY <1>1, AdmitInvariant, PTL

-----------------------------------------------------------------------------
(* The masters stay where they are.                                        *)

\* Lists of one or three zones whose order has not changed agree wherever both
\* have a zone that stays.
LEMMA OrderKept ==
  ASSUME NEW old \in Seq(Nat), NEW new \in Seq(Nat), AZCount(old), AZCount(new),
         ~OrderChanged(old, new), NEW i \in DOMAIN old \cap DOMAIN new, old[i] \in Range(new)
  PROVE  new[i] = old[i]
<1>1. Len(old) \in {1, 3} /\ Len(new) \in {1, 3}
  BY DEF AZCount, ValidMasterReplicas
<1>2. CASE Len(old) <= Len(new)
  <2>1. ~Displaced(old, new)
    BY <1>2 DEF OrderChanged
  <2>2. QED
    BY <2>1 DEF Displaced
<1>3. CASE ~(Len(old) <= Len(new))
  <2>1. ~Displaced(new, old)
    BY <1>3 DEF OrderChanged
  <2>2. DOMAIN new = {1} /\ i = 1
    BY <1>1, <1>3
  <2>3. new[1] = old[1]
    <3>1. PICK j \in DOMAIN new : new[j] = old[i]
      BY DEF Range
    <3>2. new[1] \in Range(old)
      BY <2>2, <3>1 DEF Range
    <3>3. QED
      BY <2>1, <2>2, <3>2 DEF Displaced
  <2>4. QED
    BY <2>2, <2>3
<1>4. QED
  BY <1>2, <1>3

\* No master that stays is ever moved: across every write of the
\* AWSControlPlane, by clients and handlers in any order and with any failure
\* but a skipped validation, a zone in use before and after is used by the same
\* master.  The validator compares with the object the request was built from,
\* and a write goes through only while that is still the stored one.
THEOREM MastersAreNotMoved ==
  ASSUME InitiallyAdmissible
  PROVE  Spec => MastersStay
<1> DEFINE Kept1 == ~unvalidated /\ store[AWS] # None /\ store'[AWS] # None =>
              \A i \in DOMAIN store[AWS].azs \cap DOMAIN store'[AWS].azs :
                store[AWS].azs[i] \in Range(store'[AWS].azs)
                  => store'[AWS].azs[i] = store[AWS].azs[i]
<1>1. AdmitInv /\ ScaleUpInv /\ [Next]_vars => Kept1
  <2> SUFFICES ASSUME AdmitInv, TypeInv, [Next]_vars,
                      ~unvalidated, store[AWS] # None, store'[AWS] # None,
                      NEW i \in DOMAIN store[AWS].azs \cap DOMAIN store'[AWS].azs,
                      store[AWS].azs[i] \in Range(store'[AWS].azs)
               PROVE  store'[AWS].azs[i] = store[AWS].azs[i]
    BY DEF ScaleUpInv
  <2>1. Typed /\ CopiesCurrent /\ Effects /\ WritesAdmitted /\ StoreAdmitted
    BY StepEffects DEF TypeInv, AdmitInv
  <2>2. CASE store'[AWS] = store[AWS]
    BY <2>2
  <2>3. CASE \E r \in Request : Written(r) /\ req[r].kind = AWS
    <3>1. PICK r \in Request : Written(r) /\ req[r].kind = AWS
      BY <2>3
    <3> DEFINE old == req[r].old
               new == req[r].obj
    <3>2. /\ req[r].op \in {"create", "update"}
          /\ new \in AWSObject
          /\ req[r].op = "update" => old \in AWSObject
      BY <2>1, <3>1, RequestTypes DEF Written, Object
    <3>3. req[r].op = "update" /\ req[r].fresh
      BY <3>1, <3>2 DEF Written, Writable
    <3>4. old = store[AWS]
      BY <2>1, <3>1, <3>3 DEF CopiesCurrent
    <3>5. store'[AWS] = new
      BY <2>1, <3>1 DEF Written, Typed, TypedStores
    <3>6. AZCount(old.azs) /\ AZCount(new.azs) /\ ~OrderChanged(old.azs, new.azs)
      BY <2>1, <3>1, <3>3, <3>4
         DEF Written, WritesAdmitted, StoreAdmitted, AdmissibleObject, ValidZones
    <3>7. old.azs \in Seq(Nat) /\ new.azs \in Seq(Nat)
      BY <3>2, <3>3 DEF AWSObject
    <3>8. QED
      BY <3>4, <3>5, <3>6, <3>7, OrderKept
  <2>4. CASE \E kind \in Kinds : Deleted(kind)
    BY <2>1, <2>2, <2>4 DEF Deleted, Typed, TypedStores
  <2>5. CASE \E r \in Request : Written(r) /\ req[r].kind # AWS
    BY <2>1, <2>2, <2>5 DEF Written, Typed, TypedStores
  <2>6. QED
    BY <2>1, <2>2, <2>3, <2>4, <2>5 DEF Effects, StoreEffect
<1>2. AdmitInv /\ ScaleUpInv /\ [Next]_vars => [Kept1]_vars
  BY <1>1
<1>3. MastersStay <=> [][Kept1]_vars
  BY DEF MastersStay
<1> HIDE DEF Kept1
<1>4. QED
  BY <1>2, <1>3, AdmitInvariant, PTL DEF Spec

-----------------------------------------------------------------------------
(* The zones of a scale-up are admissible.                                 *)

LEMMA PairCardinality ==
  ASSUME NEW a, NEW b, a # b
  PROVE  IsFiniteSet({a, b}) /\ Cardinality({a, b}) = 2
<1>1. IsFiniteSet({a}) /\ Cardinality({a}) = 1
  BY FS_Singleton
<1>2. {a, b} = {a} \cup {b} /\ b \notin {a}
  OBVIOUS
<1>3. QED
  BY <1>1, <1>2, FS_AddElement

LEMMA TripleCardinality ==
  ASSUME NEW a, NEW b, NEW c, a # b, a # c, b # c
  PROVE  Cardinality({a, b, c}) = 3
<1>1. IsFiniteSet({a, b}) /\ Cardinality({a, b}) = 2
  BY PairCardinality
<1>2. {a, b, c} = {a, b} \cup {c} /\ c \notin {a, b}
  OBVIOUS
<1>3. QED
  BY <1>1, <1>2, FS_AddElement

LEMMA TripleRange ==
  ASSUME NEW a, NEW b, NEW c
  PROVE  Range(<<a, b, c>>) = {a, b, c}
<1>1. DOMAIN <<a, b, c>> = {1, 2, 3}
  OBVIOUS
<1>2. QED
  BY <1>1 DEF Range

\* Zones chosen for HA masters repeat a zone only if there are fewer than three.
LEMMA HAZonesAreValid ==
  ASSUME NEW first \in ValidAZs, NEW azs \in GetHAavailabilityZones(first)
  PROVE  ValidZones(azs)
<1> DEFINE others == ValidAZs \ {first}
<1>1. first \in Nat /\ IsFiniteSet(ValidAZs) /\ Cardinality(ValidAZs) \in Nat
  BY ZonesAssumption, FS_CardinalityType
<1>2. Len(azs) = 3
  BY <1>1, HAZonesLemma
<1>3. Range(azs) \subseteq ValidAZs /\ AZUnique(azs)
  <2>1. CASE Cardinality(ValidAZs) >= 3
    <3>1. PICK a \in others, b \in others : a # b /\ azs = <<first, a, b>>
      BY <2>1 DEF GetHAavailabilityZones
    <3>2. Range(azs) = {first, a, b}
      BY <3>1, TripleRange
    <3>3. Cardinality(Range(azs)) = 3
      <4>1. first # a /\ first # b /\ a # b
        BY <3>1
      <4>2. Cardinality({first, a, b}) = 3
        BY <4>1, TripleCardinality
      <4>3. QED
        BY <3>2, <4>2
    <3>4. QED
      BY <1>2, <3>1, <3>2, <3>3 DEF AZUnique
  <2>2. CASE Cardinality(ValidAZs) = 2
    <3>1. PICK a \in others, b \in ValidAZs : azs = <<first, a, b>>
      BY <2>2 DEF GetHAavailabilityZones
    <3>2. Range(azs) = {first, a, b}
      BY <3>1, TripleRange
    <3>3. Range(azs) \subseteq ValidAZs /\ {first, a} \subseteq Range(azs)
      BY <3>1, <3>2
    <3>4. IsFiniteSet(Range(azs)) /\ Cardinality(Range(azs)) <= 2
      BY <1>1, <2>2, <3>3, FS_Subset
    <3>5. 2 <= Cardinality(Range(azs))
      <4>1. Cardinality({first, a}) = 2
        BY <3>1, PairCardinality
      <4>2. QED
        BY <3>3, <3>4, <4>1, FS_Subset
    <3>6. Cardinality(Range(azs)) \in Nat
      BY <3>4, FS_CardinalityType
    <3>7. QED
      BY <2>2, <3>3, <3>4, <3>5, <3>6 DEF AZUnique
  <2>3. CASE ~(Cardinality(ValidAZs) >= 3) /\ Cardinality(ValidAZs) # 2
    <3>1. azs = <<first, first, first>>
      BY <2>3 DEF GetHAavailabilityZones
    <3>2. Range(azs) = {first}
      BY <3>1, TripleRange
    <3>3. {first} \subseteq ValidAZs /\ Cardinality({first}) = 1
      BY FS_Singleton
    <3>4. 1 <= Cardinality(ValidAZs)
      BY <1>1, <3>3, FS_Subset
    <3>5. QED
      BY <1>1, <2>3, <3>2, <3>3, <3>4 DEF AZUnique
  <2>4. QED
    BY <2>1, <2>2, <2>3
<1>4. QED
  BY <1>2, <1>3, NotEmptyLemma DEF ValidZones, AZCount, AZValid, ValidMasterReplicas

\* The zones the mutator chooses when it scales up are never the reason why the
\* validator of the AWSControlPlane denies that update: for any number of zones
\* in the installation, and for the zone of any master that was admitted.
THEOREM ScaleUpPasses ==
  ASSUME InitiallyAdmissible
  PROVE  Spec => []ScaleUpAdmissible
<1>1. ASSUME AdmitInv, ScaleUpInv, ~unvalidated,
             NEW c \in Client, req[Nested(c)].pc = "validating"
      PROVE  /\ ValidZones(req[Nested(c)].obj.azs)
             /\ ~OrderChanged(req[Nested(c)].old.azs, req[Nested(c)].obj.azs)
  <2> DEFINE r == req[Nested(c)]
             old == r.old.azs
             new == r.obj.azs
  <2>1. r.pc # "idle" /\ Nested(c) \in Request
    BY <1>1, NestedIsNotUser
  <2>2. /\ r.kind = AWS /\ r.op = "update"
        /\ Len(old) = 1
        /\ new \in GetHAavailabilityZones(old[1])
    BY <1>1, <2>1 DEF ScaleUpInv, NestedScalesUp
  <2>3. old \in Seq(Nat) /\ new \in Seq(Nat) /\ Len(new) = 3 /\ new[1] = old[1]
    BY <1>1, <2>1, NestedIsTyped DEF ScaleUpInv, TypeInv, AWSObject
  <2>4. old[1] \in ValidAZs
    <3>1. AZValid(old)
      BY <1>1, <2>1, <2>2 DEF AdmitInv, OldAdmitted, AdmissibleObject, ValidZones
    <3>2. 1 \in DOMAIN old
      BY <2>2, <2>3
    <3>3. QED
      BY <3>1, <3>2 DEF AZValid, Range
  <2>5. ~Displaced(old, new)
    <3>1. \A i \in DOMAIN old : old[i] = new[i]
      BY <2>2, <2>3
    <3>2. QED
      BY <3>1 DEF Displaced
  <2>6. QED
    BY <2>2, <2>3, <2>4, <2>5, HAZonesAreValid DEF OrderChanged
<1>2. AdmitInv /\ ScaleUpInv => ScaleUpAdmissible
  BY <1>1 DEF ScaleUpAdmissible
<1>3. QED
  BY <1>2, AdmitInvariant, PTL

-----------------------------------------------------------------------------
(* The zones are there before the masters.                                 *)

\* Clients leave the zones alone: only a handler writes an AWSControlPlane.
ZonesLeftAlone == <<AWS, "create">> \notin UserOps /\ <<AWS, "update">> \notin UserOps

\* The validators are called and can read the other CR.
ValidatorsSee == "listError" \notin Faults /\ "skipValidator" \notin Faults

InitiallyCovered ==
  \A s \in InitialStores :
    s[G8s] # None /\ s[AWS] # None => s[G8s].replicas <= Len(s[AWS].azs)

HandlersWriteZones ==
  \A r \in Request : req[r].pc # "idle" /\ req[r].kind = AWS => \E c \in Client : r = Nested(c)

\* The masters a request may still write have zones already.
WritesCovered ==
  \A r \in Request :
    req[r].pc = "writing" /\ req[r].kind = G8s /\ store[AWS] # None
      => req[r].obj.replicas <= Len(store[AWS].azs)

CoverInv == HandlersWriteZones /\ WritesCovered /\ MastersNeverExceedZones

LEMMA HandlersWriteZonesStep ==
  ASSUME ZonesLeftAlone
  PROVE  Typed' /\ Effects /\ HandlersWriteZones => HandlersWriteZones'
<1> SUFFICES ASSUME Typed', Effects, HandlersWriteZones,
                    NEW r \in Request, req'[r].pc # "idle", req'[r].kind = AWS
             PROVE  \E c \in Client : r = Nested(c)
  BY DEF HandlersWriteZones
<1>1. CASE Kept(r) \/ Mutated(r) \/ Validated(r)
  BY <1>1 DEF Kept, Mutated, Validated, HandlersWriteZones
<1>2. CASE Ended(r)
  BY <1>2 DEF Ended, IdleRequest
<1>3. ASSUME NEW c \in Client, r = User(c), Submitted(c) PROVE FALSE
  <2>1. req'[r].op \in {"create", "update"}
    BY DEF Typed, RequestState, IdleRequest
  <2>2. QED
    BY <1>3, <2>1 DEF Submitted, ZonesLeftAlone
<1>4. QED
  BY <1>1, <1>2, <1>3 DEF Effects, RequestEffect

\* The store changes only where the zones do not get fewer.
LEMMA ZonesGrow ==
  ASSUME TypeInv, Effects, NestedScalesUp, HandlersWriteZones, store'[AWS] # None
  PROVE  /\ store[AWS] # None
         /\ Len(store[AWS].azs) \in Nat /\ Len(store'[AWS].azs) \in Nat
         /\ Len(store[AWS].azs) <= Len(store'[AWS].azs)
<1> Typed /\ CopiesCurrent
  BY DEF TypeInv
<1>1. store[AWS] \in AWSObject \cup {None}
  BY DEF Typed, TypedStores, Object
<1>2. CASE store'[AWS] = store[AWS]
  <2>1. Len(store[AWS].azs) \in Nat
    BY <1>1, <1>2 DEF AWSObject
  <2>2. QED
    BY <1>2, <2>1
<1>3. CASE \E kind \in Kinds : Deleted(kind)
  BY <1>2, <1>3 DEF Deleted, Typed, TypedStores
<1>4. CASE \E r \in Request : Written(r)
  <2>1. PICK r \in Request : Written(r)
    BY <1>4
  <2>2. CASE req[r].kind # AWS
    BY <1>2, <2>1, <2>2 DEF Written, Typed, TypedStores
  <2>3. CASE req[r].kind = AWS
    <3>1. PICK c \in Client : r = Nested(c)
      BY <2>1, <2>3 DEF Written, HandlersWriteZones
    <3>2. req[Nested(c)].pc # "idle"
      BY <2>1, <3>1 DEF Written
    <3>3. req[r].op = "update" /\ Len(req[r].old.azs) = 1 /\ Len(req[r].obj.azs) = 3
      BY <3>1, <3>2, NestedIsTyped DEF NestedScalesUp
    <3>4. store[AWS] # None /\ req[r].old = store[AWS]
      BY <2>1, <2>3, <3>3 DEF Written, Writable, CopiesCurrent
    <3>5. store'[AWS] = req[r].obj
      BY <2>1, <2>3 DEF Written, Typed, TypedStores
    <3>6. Len(store[AWS].azs) = 1 /\ Len(store'[AWS].azs) = 3
      BY <3>3, <3>4, <3>5
    <3>7. QED
      BY <3>4, <3>6
  <2>4. QED
    BY <2>2, <2>3
<1>5. QED
  BY <1>2, <1>3, <1>4 DEF Effects, StoreEffect

LEMMA WritesCoveredStep ==
  ASSUME ValidatorsSee, TypeInv, TypeInv', Effects, NestedScalesUp, CoverInv
  PROVE  WritesCovered'
<1> SUFFICES ASSUME NEW r \in Request, req'[r].pc = "writing", req'[r].kind = G8s,
                    store'[AWS] # None
             PROVE  req'[r].obj.replicas <= Len(store'[AWS].azs)
  BY DEF WritesCovered
<1>1. /\ store[AWS] # None
      /\ Len(store[AWS].azs) \in Nat /\ Len(store'[AWS].azs) \in Nat
      /\ Len(store[AWS].azs) <= Len(store'[AWS].azs)
  BY ZonesGrow DEF CoverInv
<1>2. req'[r].obj.replicas \in Nat
  <2>1. req'[r].obj \in G8sObject
    BY DEF TypeInv, Typed, RequestState, IdleRequest, Object
  <2>2. QED
    BY <2>1 DEF G8sObject
<1>3. CASE Kept(r)
  <2>1. req'[r].obj.replicas <= Len(store[AWS].azs)
    BY <1>1, <1>3 DEF Kept, CoverInv, WritesCovered
  <2>2. QED
    BY <1>1, <1>2, <2>1
<1>4. CASE Validated(r)
  <2>1. req[r].kind = G8s /\ req'[r].obj = req[r].obj /\ store' = store
    BY <1>4 DEF Validated
  <2>2. \E other \in Fetched(Other(G8s)) : Admitted(req[r], other)
    BY <1>4, <2>1 DEF Validated, ValidatorsSee
  <2>3. Admitted(req[r], store[AWS])
    BY <2>2 DEF Fetched, Other, ValidatorsSee
  <2>4. req[r].obj.replicas = Len(store[AWS].azs)
    BY <1>1, <2>1, <2>3 DEF Admitted, G8sAdmitted, Matches
  <2>5. QED
    BY <1>1, <2>1, <2>4
<1>5. Kept(r) \/ Validated(r)
  <2>1. ~Ended(r) /\ ~Mutated(r)
    BY DEF Ended, Mutated, IdleRequest
  <2>2. ASSUME NEW c \in Client
        PROVE  /\ r = User(c) => ~Submitted(c)
               /\ r = Nested(c) => ~Called(c)
    BY DEF Submitted, Called
  <2>3. QED
    BY <2>1, <2>2 DEF Effects, RequestEffect
<1>6. QED
  BY <1>3, <1>4, <1>5

LEMMA CoveredStep ==
  ASSUME TypeInv, Effects, NestedScalesUp, CoverInv
  PROVE  MastersNeverExceedZones'
<1> SUFFICES ASSUME store'[G8s] # None, store'[AWS] # None
             PROVE  store'[G8s].replicas <= Len(store'[AWS].azs)
  BY DEF MastersNeverExceedZones
<1> Typed
  BY DEF TypeInv
<1>1. /\ store[AWS] # None
      /\ Len(store[AWS].azs) \in Nat /\ Len(store'[AWS].azs) \in Nat
      /\ Len(store[AWS].azs) <= Len(store'[AWS].azs)
  BY ZonesGrow DEF CoverInv
<1>2. CASE store'[G8s] = store[G8s]
  <2>1. store[G8s].replicas <= Len(store[AWS].azs)
    BY <1>1, <1>2 DEF CoverInv, MastersNeverExceedZones
  <2>2. store[G8s].replicas \in Nat
    BY <1>2 DEF Typed, TypedStores, Object, G8sObject
  <2>3. QED
    BY <1>1, <1>2, <2>1, <2>2
<1>3. CASE \E kind \in Kinds : Deleted(kind)
  BY <1>2, <1>3 DEF Deleted, Typed, TypedStores
<1>4. CASE \E r \in Request : Written(r)
  <2>1. PICK r \in Request : Written(r)
    BY <1>4
  <2>2. CASE req[r].kind # G8s
    BY <1>2, <2>1, <2>2 DEF Written, Typed, TypedStores
  <2>3. CASE req[r].kind = G8s
    <3>1. store'[G8s] = req[r].obj /\ store'[AWS] = store[AWS]
      BY <2>1, <2>3 DEF Written, Typed, TypedStores
    <3>2. req[r].obj.replicas <= Len(store[AWS].azs)
      BY <1>1, <2>1, <2>3 DEF Written, CoverInv, WritesCovered
    <3>3. QED
      BY <3>1, <3>2
  <2>4. QED
    BY <2>2, <2>3
<1>5. QED
  BY <1>2, <1>3, <1>4 DEF Effects, StoreEffect

\* The zones are there before the masters: while clients leave the zones alone,
\* no failure between the two writes of a scale-up ever leaves more masters than
\* zones, neither a crash of the process in between, nor an answer that is lost
\* after the update, nor a mutator that is skipped while its handler goes on.
THEOREM ZonesComeFirst ==
  ASSUME ZonesLeftAlone, ValidatorsSee, InitiallyCovered
  PROVE  Spec => []MastersNeverExceedZones
<1>1. Init => CoverInv
  BY DEF Init, CoverInv, HandlersWriteZones, WritesCovered, MastersNeverExceedZones,
         InitiallyCovered, IdleRequest
<1>2. CoverInv /\ ScaleUpInv /\ [Next]_vars => CoverInv'
  <2> SUFFICES ASSUME CoverInv, ScaleUpInv, [Next]_vars
               PROVE  CoverInv'
    OBVIOUS
  <2>1. TypeInv /\ TypeInv' /\ NestedScalesUp /\ Effects
    BY NextTypes, StepEffects DEF ScaleUpInv, TypeInv
  <2>2. HandlersWriteZones'
    BY <2>1, HandlersWriteZonesStep DEF CoverInv, TypeInv
  <2>3. QED
    BY <2>1, <2>2, WritesCoveredStep, CoveredStep DEF CoverInv
<1>3. CoverInv => MastersNeverExceedZones
  BY DEF CoverInv
<1>4. QED
  BY <1>1, <1>2, <1>3, ScaleUpInvariant, PTL DEF Spec

-----------------------------------------------------------------------------
(* The two CRs agree.                                                      *)

OneClient == \E c : Client = {c}
NoFaults == Faults = {}
ZonesNotUpdated == <<AWS, "update">> \notin UserOps

InitiallyMatched ==
  \A s \in InitialStores : s[G8s] # None /\ s[AWS] # None => Matches(s[G8s], s[AWS])

\* A handler serves a change from one master to three that waits for it.
HandlerServes ==
  \A c \in Client : hdl[c].pc # "idle" =>
    LET r == req[User(c)] IN
    r.pc = "mutating" /\ r.kind = G8s /\ r.op = "update" /\ ~r.dry /\ r.obj.replicas = 3

\* An update of a handler is in flight only while the handler waits for it.
HandlerWaits == \A c \in Client : req[Nested(c)].pc # "idle" => hdl[c].pc = "calling"

\* A handler that was told of success finds three zones, or none.
UpdateIsStored ==
  \A c \in Client :
    hdl[c].pc = "updated" /\ store[AWS] # None => Len(store[AWS].azs) = 3

\* A client's update is built from what is stored, or that is gone.
UserIsCurrent ==
  \A c \in Client : LET r == req[User(c)] IN
    r.pc # "idle" /\ r.op = "update" => r.kind = G8s /\ (r.fresh \/ store[G8s] = None)

\* What a client may still write matches what is stored.
WritesMatch ==
  \A c \in Client : LET r == req[User(c)] IN
    r.pc = "writing" =>
      /\ r.kind = G8s /\ store[AWS] # None => Matches(r.obj, store[AWS])
      /\ r.kind = AWS /\ store[G8s] # None => Matches(store[G8s], r.obj)

\* The zones of a scale-up are stored and its replicas are about to be.
HalfWay(c) ==
  LET r == req[User(c)] IN
  /\ r.kind = G8s /\ r.op = "update" /\ ~r.dry /\ r.obj.replicas = 3
  /\ r.pc = "mutating" => hdl[c].pc = "updated"
  /\ Len(store[AWS].azs) = 3

PairMatched ==
  store[G8s] # None /\ store[AWS] # None =>
    Matches(store[G8s], store[AWS]) \/ \E c \in Client : HalfWay(c)

PairInv ==
  /\ HandlerServes /\ HandlerWaits /\ UpdateIsStored
  /\ UserIsCurrent /\ WritesMatch /\ PairMatched

\* A step that leaves the store alone, seen by the only client.
LEMMA PairQuiet ==
  ASSUME NEW c, Client = {c}, PairInv, UNCHANGED store,
         hdl'[c].pc # "idle" =>
           LET r == req'[User(c)] IN
           r.pc = "mutating" /\ r.kind = G8s /\ r.op = "update" /\ ~r.dry /\ r.obj.replicas = 3,
         req'[Nested(c)].pc # "idle" => hdl'[c].pc = "calling",
         hdl'[c].pc = "updated" => hdl[c].pc = "updated",
         LET r == req'[User(c)] IN
           r.pc # "idle" /\ r.op = "update" => r.kind = G8s /\ (r.fresh \/ store[G8s] = None),
         LET r == req'[User(c)] IN
           r.pc = "writing" =>
             /\ r.kind = G8s /\ store[AWS] # None => Matches(r.obj, store[AWS])
             /\ r.kind = AWS /\ store[G8s] # None => Matches(store[G8s], r.obj),
         store[G8s] # None /\ store[AWS] # None /\ HalfWay(c)
           => Matches(store[G8s], store[AWS]) \/ HalfWay(c)'
  PROVE  PairInv'
<1>1. HandlerServes'
  BY DEF HandlerServes
<1>2. HandlerWaits'
  BY DEF HandlerWaits
<1>3. UpdateIsStored'
  BY DEF PairInv, UpdateIsStored
<1>4. UserIsCurrent'
  BY DEF UserIsCurrent
<1>5. WritesMatch'
  BY DEF WritesMatch, Matches
<1>6. PairMatched'
  BY DEF PairInv, PairMatched, Matches
<1>7. QED
  BY <1>1, <1>2, <1>3, <1>4, <1>5, <1>6 DEF PairInv

\* The same when the client's request is left alone too.
LEMMA PairQuietUser ==
  ASSUME NEW c, Client = {c}, PairInv, UNCHANGED store, req'[User(c)] = req[User(c)],
         hdl'[c].pc # "idle" =>
           LET r == req[User(c)] IN
           r.pc = "mutating" /\ r.kind = G8s /\ r.op = "update" /\ ~r.dry /\ r.obj.replicas = 3,
         req'[Nested(c)].pc # "idle" => hdl'[c].pc = "calling",
         hdl'[c].pc = "updated" <=> hdl[c].pc = "updated"
  PROVE  PairInv'
<1>1. LET r == req'[User(c)] IN
        r.pc # "idle" /\ r.op = "update" => r.kind = G8s /\ (r.fresh \/ store[G8s] = None)
  BY DEF PairInv, UserIsCurrent
<1>2. LET r == req'[User(c)] IN
        r.pc = "writing" =>
          /\ r.kind = G8s /\ store[AWS] # None => Matches(r.obj, store[AWS])
          /\ r.kind = AWS /\ store[G8s] # None => Matches(store[G8s], r.obj)
  BY DEF PairInv, WritesMatch
<1>3. HalfWay(c) => HalfWay(c)'
  BY DEF HalfWay
<1>4. QED
  BY <1>1, <1>2, <1>3, PairQuiet

\* And when the client's request ends, with its handler.
LEMMA PairQuietEnd ==
  ASSUME NEW c, Client = {c}, PairInv, UNCHANGED store,
         req'[User(c)].pc = "idle" /\ req'[User(c)].op = "create",
         hdl'[c].pc = "idle", req'[Nested(c)].pc = "idle",
         store[G8s] # None /\ store[AWS] # None /\ HalfWay(c) => Matches(store[G8s], store[AWS])
  PROVE  PairInv'
BY PairQuiet

LEMMA SubmitPair ==
  ASSUME NEW c, Client = {c}, ZonesNotUpdated, Typed, PairInv, Submit(c)
  PROVE  PairInv'
<1>1. User(c) \in Request /\ Nested(c) \in Request /\ User(c) # Nested(c)
  BY NestedIsNotUser
<1>2. PICK new :
        /\ req' = [req EXCEPT ![User(c)] = new]
        /\ new.pc = "mutating" /\ new.fresh
        /\ new.op = "update" => new.kind = G8s
  <2>1. PICK kind \in Kinds, op \in {"create", "update"}, dry \in DryRuns :
          /\ <<kind, op>> \in UserOps
          /\ \E obj \in Inputs(kind) :
               req' = [req EXCEPT ![User(c)] =
                 [pc |-> "mutating", kind |-> kind, op |-> op, dry |-> dry, obj |-> obj,
                  old |-> IF op = "update" THEN store[kind] ELSE None, fresh |-> TRUE]]
    BY DEF Submit
  <2>2. PICK obj \in Inputs(kind) :
               req' = [req EXCEPT ![User(c)] =
                 [pc |-> "mutating", kind |-> kind, op |-> op, dry |-> dry, obj |-> obj,
                  old |-> IF op = "update" THEN store[kind] ELSE None, fresh |-> TRUE]]
    BY <2>1
  <2> DEFINE x == [pc |-> "mutating", kind |-> kind, op |-> op, dry |-> dry, obj |-> obj,
                   old |-> IF op = "update" THEN store[kind] ELSE None, fresh |-> TRUE]
  <2>3. /\ x.pc = "mutating" /\ x.fresh
        /\ x.op = "update" => x.kind = G8s
    BY <2>1 DEF ZonesNotUpdated
  <2>4. QED
    BY <2>2, <2>3
<1>3. req'[User(c)] = new /\ req'[Nested(c)] = req[Nested(c)]
  BY <1>1, <1>2 DEF Typed
<1>4. /\ req[User(c)].pc = "idle" /\ req[Nested(c)].pc = "idle" /\ hdl[c].pc = "idle"
      /\ UNCHANGED <<store, hdl>>
  BY DEF Submit
<1>5. ~HalfWay(c)
  <2>1. req[User(c)] = IdleRequest
    BY <1>1, <1>4 DEF Typed, RequestState
  <2>2. QED
    BY <2>1 DEF HalfWay, IdleRequest
<1>6. QED
  BY <1>2, <1>3, <1>4, <1>5, PairQuiet

\* A request that is denied: the client's is not half way, and a handler's
\* leaves its handler with a failure.
LEMMA DenyPair ==
  ASSUME NEW c, Client = {c}, Typed, PairInv, NEW r \in Request, req[r].pc # "idle", Deny(r),
         r = User(c) => hdl[c].pc = "idle",
         r = User(c) /\ store[G8s] # None /\ store[AWS] # None /\ HalfWay(c)
           => Matches(store[G8s], store[AWS])
  PROVE  PairInv'
<1>1. c \in Client /\ User(c) \in Request /\ Nested(c) \in Request /\ User(c) # Nested(c)
  BY NestedIsNotUser
<1>2. UNCHANGED store /\ req'[r] = IdleRequest /\ \A q \in Request : q # r => req'[q] = req[q]
  BY DEF Deny, Done, Typed
<1>3. CASE r = User(c)
  <2>1. r[2] # "nested"
    BY <1>3 DEF User
  <2>2. hdl' = hdl
    BY <2>1 DEF Deny, Told
  <2>3. req[Nested(c)].pc = "idle"
    BY <1>1, <1>3 DEF PairInv, HandlerWaits
  <2>4. req'[Nested(c)].pc = "idle"
    BY <1>1, <1>2, <1>3, <2>3
  <2>5. req'[User(c)].pc = "idle" /\ req'[User(c)].op = "create"
    BY <1>2, <1>3 DEF IdleRequest
  <2>6. QED
    BY <1>2, <1>3, <2>2, <2>4, <2>5, PairQuietEnd
<1>4. CASE r = Nested(c)
  <2>1. hdl[c].pc = "calling"
    BY <1>1, <1>4 DEF PairInv, HandlerWaits
  <2>2. r[1] = c /\ r[2] = "nested"
    BY <1>4 DEF Nested
  <2>3. hdl' = [hdl EXCEPT ![c].pc = "failed"]
    BY <2>1, <2>2 DEF Deny, Told
  <2>4. hdl'[c].pc = "failed"
    BY <1>1, <2>1, <2>3 DEF Typed, HandlerState, IdleHandler
  <2>5. req'[User(c)] = req[User(c)] /\ req'[Nested(c)].pc = "idle"
    BY <1>1, <1>2, <1>4 DEF IdleRequest
  <2>6. LET q == req[User(c)] IN
        q.pc = "mutating" /\ q.kind = G8s /\ q.op = "update" /\ ~q.dry /\ q.obj.replicas = 3
    BY <1>1, <2>1 DEF PairInv, HandlerServes
  <2>7. QED
    BY <1>2, <2>1, <2>4, <2>5, <2>6, PairQuietUser
<1>5. QED
  BY <1>3, <1>4 DEF Request, User, Nested

\* A request that moves on within the webhooks.
LEMMA PatchedPair ==
  ASSUME NEW c, Client = {c}, Typed, PairInv, NEW r \in Request, req[r].pc = "mutating",
         NEW obj, Patched(r, obj),
         r = User(c) => hdl[c].pc = "idle"
  PROVE  PairInv'
<1>1. c \in Client /\ User(c) \in Request /\ Nested(c) \in Request /\ User(c) # Nested(c)
  BY NestedIsNotUser
<1>2. /\ UNCHANGED <<store, hdl>> /\ req[r].pc # "idle"
      /\ req' = [req EXCEPT ![r].pc = "validating", ![r].obj = obj]
  BY DEF Patched
<1>3. /\ req'[r].pc = "validating" /\ req'[r].kind = req[r].kind /\ req'[r].op = req[r].op
      /\ req'[r].fresh = req[r].fresh
      /\ \A q \in Request : q # r => req'[q] = req[q]
  BY <1>2, MovedOnly, MovedRequest
<1>4. CASE r = User(c)
  <2>1. req'[Nested(c)] = req[Nested(c)]
    BY <1>1, <1>3, <1>4
  <2>2. req[Nested(c)].pc = "idle"
    BY <1>1, <1>4 DEF PairInv, HandlerWaits
  <2>3. ~HalfWay(c)
    BY <1>4 DEF HalfWay
  <2>4. LET q == req'[User(c)] IN
           q.pc # "idle" /\ q.op = "update" => q.kind = G8s /\ (q.fresh \/ store[G8s] = None)
    BY <1>1, <1>2, <1>3, <1>4 DEF PairInv, UserIsCurrent
  <2>5. QED
    BY <1>2, <1>3, <1>4, <2>1, <2>2, <2>3, <2>4, PairQuiet
<1>5. CASE r = Nested(c)
  <2>1. req'[User(c)] = req[User(c)]
    BY <1>1, <1>3, <1>5
  <2>2. hdl[c].pc = "calling"
    BY <1>1, <1>2, <1>5 DEF PairInv, HandlerWaits
  <2>3. LET q == req[User(c)] IN
        q.pc = "mutating" /\ q.kind = G8s /\ q.op = "update" /\ ~q.dry /\ q.obj.replicas = 3
    BY <1>1, <2>2 DEF PairInv, HandlerServes
  <2>4. QED
    BY <1>2, <2>1, <2>2, <2>3, PairQuietUser
<1>6. QED
  BY <1>4, <1>5 DEF Request, User, Nested

LEMMA MutatePair ==
  ASSUME NEW c, Client = {c}, Typed, PairInv, NEW r \in Request, Mutate(r)
  PROVE  PairInv'
<1>1. c \in Client
  OBVIOUS
<1>2. req[r].pc = "mutating" /\ req[r].pc # "idle" /\ (Deny(r) \/ \E obj : Patched(r, obj))
  BY DEF Mutate
<1>3. ASSUME r = User(c) PROVE hdl[c].pc = "idle"
  <2>1. req[r].dry \/ req[r].kind # G8s \/ req[r].op # "update"
    BY DEF Mutate
  <2>2. QED
    BY <1>1, <1>3, <2>1 DEF PairInv, HandlerServes
<1>4. r = User(c) => ~HalfWay(c)
  BY <1>2, <1>3 DEF HalfWay
<1>5. QED
  BY <1>2, <1>3, <1>4, DenyPair, PatchedPair

LEMMA MutateG8sUpdatePair ==
  ASSUME NEW c, Client = {c}, Typed, PairInv, MutateG8sUpdate(c)
  PROVE  PairInv'
<1> DEFINE r == req[User(c)]
<1>1. c \in Client /\ User(c) \in Request
  BY NestedIsNotUser
<1>2. r.pc = "mutating" /\ ~r.dry /\ r.kind = G8s /\ r.op = "update" /\ hdl[c].pc = "idle"
  BY DEF MutateG8sUpdate
<1>3. CASE \E obj : Patched(User(c), obj)
  BY <1>1, <1>2, <1>3, PatchedPair
<1>4. CASE /\ r.obj.replicas = 3 /\ UNCHANGED <<store, req>>
           /\ \E cp : hdl' = [hdl EXCEPT ![c] =
                   [pc |-> "update", cp |-> cp, fresh |-> TRUE, tries |-> 0]]
  <2>1. hdl'[c].pc = "update"
    BY <1>1, <1>4 DEF Typed
  <2>2. req[Nested(c)].pc = "idle"
    BY <1>1, <1>2 DEF PairInv, HandlerWaits
  <2>3. QED
    BY <1>2, <1>4, <2>1, <2>2, PairQuietUser
<1>5. QED
  BY <1>3, <1>4 DEF MutateG8sUpdate, IsUpdateFromSingleToHA

LEMMA CallUpdatePair ==
  ASSUME NEW c, Client = {c}, Typed, PairInv, CallUpdate(c) \/ RetryUpdate(c)
  PROVE  PairInv'
<1>1. c \in Client /\ User(c) \in Request /\ Nested(c) \in Request /\ User(c) # Nested(c)
  BY NestedIsNotUser
<1>2. hdl[c].pc \in {"update", "failed"} /\ UNCHANGED store
  BY DEF CallUpdate, RetryUpdate
<1>3. LET q == req[User(c)] IN
      q.pc = "mutating" /\ q.kind = G8s /\ q.op = "update" /\ ~q.dry /\ q.obj.replicas = 3
  BY <1>1, <1>2 DEF PairInv, HandlerServes
<1>4. req[Nested(c)].pc = "idle"
  BY <1>1, <1>2 DEF PairInv, HandlerWaits
<1>5. hdl'[c].pc \in {"update", "calling", "failed"}
  <2>1. "pc" \in DOMAIN hdl[c]
    BY <1>1 DEF Typed, HandlerState, IdleHandler
  <2>2. QED
    BY <1>1, <2>1 DEF Typed, CallUpdate, RetryUpdate
<1>6. req'[User(c)] = req[User(c)]
  BY <1>1 DEF Typed, CallUpdate, RetryUpdate
<1>7. req'[Nested(c)].pc # "idle" => hdl'[c].pc = "calling"
  <2>1. CASE req' = req
    BY <1>4, <2>1
  <2>2. CASE hdl' = [hdl EXCEPT ![c].pc = "calling"]
    <3>1. "pc" \in DOMAIN hdl[c]
      BY <1>1 DEF Typed, HandlerState, IdleHandler
    <3>2. QED
      BY <1>1, <2>2, <3>1 DEF Typed
  <2>3. QED
    BY <2>1, <2>2 DEF CallUpdate, RetryUpdate
<1>8. QED
  BY <1>2, <1>3, <1>5, <1>6, <1>7, PairQuietUser

\* The handler's answer: the client's request goes on half way, or ends where
\* nothing has changed.
LEMMA AnswerPair ==
  ASSUME NEW c, Client = {c}, Typed, PairInv, AnswerUpdate(c)
  PROVE  PairInv'
<1> DEFINE u == req[User(c)]
<1>1. c \in Client /\ User(c) \in Request /\ Nested(c) \in Request /\ User(c) # Nested(c)
  BY NestedIsNotUser
<1>2. /\ hdl[c].pc \in {"failed", "updated"} /\ UNCHANGED store
      /\ hdl' = [hdl EXCEPT ![c] = IdleHandler]
  BY DEF AnswerUpdate
<1>3. u.pc = "mutating" /\ u.kind = G8s /\ u.op = "update" /\ ~u.dry /\ u.obj.replicas = 3
  BY <1>1, <1>2 DEF PairInv, HandlerServes
<1>4. req[Nested(c)].pc = "idle"
  BY <1>1, <1>2 DEF PairInv, HandlerWaits
<1>5. hdl'[c].pc = "idle"
  BY <1>1, <1>2 DEF Typed, IdleHandler
<1>6. CASE hdl[c].pc = "failed"
  <2>1. req' = Done(User(c))
    BY <1>3, <1>6 DEF AnswerUpdate
  <2>2. req'[User(c)] = IdleRequest /\ req'[Nested(c)] = req[Nested(c)]
    BY <1>1, <2>1 DEF Done, Typed
  <2>3. req'[User(c)].pc = "idle" /\ req'[User(c)].op = "create"
    BY <2>2 DEF IdleRequest
  <2>4. ~HalfWay(c)
    BY <1>3, <1>6 DEF HalfWay
  <2>5. QED
    BY <1>2, <1>4, <1>5, <2>2, <2>3, <2>4, PairQuietEnd
<1>7. CASE hdl[c].pc = "updated"
  <2>1. req' = [req EXCEPT ![User(c)].pc = "validating"] /\ u.pc # "idle"
    BY <1>3, <1>7 DEF AnswerUpdate
  <2>2. /\ req'[User(c)].pc = "validating" /\ req'[User(c)].obj = u.obj
        /\ req'[Nested(c)] = req[Nested(c)]
    BY <1>1, <2>1, MovedOnly
  <2>3. /\ req'[User(c)].kind = u.kind /\ req'[User(c)].op = u.op
        /\ req'[User(c)].dry = u.dry /\ req'[User(c)].fresh = u.fresh
    BY <1>1, <2>1, MovedRequest
  <2>4. HalfWay(c) => HalfWay(c)'
    BY <1>2, <2>2, <2>3 DEF HalfWay
  <2>5. LET q == req'[User(c)] IN
           q.pc # "idle" /\ q.op = "update" => q.kind = G8s /\ (q.fresh \/ store[G8s] = None)
    BY <1>1, <1>3, <2>3 DEF PairInv, UserIsCurrent
  <2>6. QED
    BY <1>2, <1>4, <1>5, <2>2, <2>4, <2>5, PairQuiet
<1>8. QED
  BY <1>2, <1>6, <1>7

\* What the only client's validator reads is what is stored when it is written.
LEMMA ValidatePair ==
  ASSUME NEW c, Client = {c}, NoFaults, ZonesNotUpdated, Typed, PairInv,
         NEW r \in Request, Validate(r)
  PROVE  PairInv'
<1>1. c \in Client /\ User(c) \in Request /\ Nested(c) \in Request /\ User(c) # Nested(c)
  BY NestedIsNotUser
<1>2. req[r].pc = "validating" /\ req[r].pc # "idle" /\ req[r].kind \in Kinds
  BY RequestTypes DEF Validate
<1> DEFINE other == store[Other(req[r].kind)]
<1>3. \/ /\ Admitted(req[r], other)
         /\ req' = [req EXCEPT ![r].pc = "writing"]
         /\ UNCHANGED <<store, hdl>>
      \/ ~Admitted(req[r], other) /\ Deny(r)
  BY DEF Validate, Fetched, NoFaults
<1>4. ASSUME r = User(c) PROVE hdl[c].pc = "idle" /\ req[Nested(c)].pc = "idle"
  BY <1>1, <1>2, <1>4 DEF PairInv, HandlerServes, HandlerWaits
<1>5. CASE ~Admitted(req[r], other) /\ Deny(r)
  <2>1. ASSUME r = User(c), store[AWS] # None, HalfWay(c) PROVE FALSE
    <3>1. req[r].kind = G8s /\ req[r].obj.replicas = 3 /\ Len(store[AWS].azs) = 3
      BY <2>1 DEF HalfWay
    <3>2. Admitted(req[r], other)
      BY <3>1 DEF Admitted, G8sAdmitted, Other, Matches, ReplicaCount, ValidMasterReplicas
    <3>3. QED
      BY <1>5, <3>2
  <2>2. QED
    BY <1>2, <1>4, <1>5, <2>1, DenyPair
<1>6. CASE /\ Admitted(req[r], other)
           /\ req' = [req EXCEPT ![r].pc = "writing"]
           /\ UNCHANGED <<store, hdl>>
  <2>1. /\ req'[r].pc = "writing" /\ req'[r].obj = req[r].obj
        /\ \A q \in Request : q # r => req'[q] = req[q]
    BY <1>2, <1>6, MovedOnly
  <2>2. /\ req'[r].kind = req[r].kind /\ req'[r].op = req[r].op
        /\ req'[r].dry = req[r].dry /\ req'[r].fresh = req[r].fresh
    BY <1>2, <1>6, MovedRequest
  <2>3. CASE r = User(c)
    <3>1. hdl'[c].pc = "idle" /\ req'[Nested(c)].pc = "idle"
      BY <1>1, <1>4, <1>6, <2>1, <2>3
    <3>2. HalfWay(c) => HalfWay(c)'
      BY <1>6, <2>1, <2>2, <2>3 DEF HalfWay
    <3>3. LET q == req'[User(c)] IN
           q.pc # "idle" /\ q.op = "update" => q.kind = G8s /\ (q.fresh \/ store[G8s] = None)
      BY <1>1, <1>2, <2>2, <2>3 DEF PairInv, UserIsCurrent
    <3>4. req[r].kind = AWS => req[r].op = "create"
      <4>1. req[r].op \in {"create", "update"}
        BY <1>2, RequestTypes
      <4>2. QED
        BY <1>1, <1>2, <2>3, <4>1 DEF PairInv, UserIsCurrent
    <3>5. LET q == req'[User(c)] IN
           /\ q.kind = G8s /\ store[AWS] # None => Matches(q.obj, store[AWS])
           /\ q.kind = AWS /\ store[G8s] # None => Matches(store[G8s], q.obj)
      BY <1>6, <2>1, <2>2, <2>3, <3>4 DEF Admitted, G8sAdmitted, AWSAdmitted, Other
    <3>6. QED
      BY <1>6, <2>1, <2>3, <3>1, <3>2, <3>3, <3>5, PairQuiet
  <2>4. CASE r = Nested(c)
    <3>1. req'[User(c)] = req[User(c)]
      BY <1>1, <2>1, <2>4
    <3>2. hdl[c].pc = "calling"
      BY <1>1, <1>2, <2>4 DEF PairInv, HandlerWaits
    <3>3. LET q == req[User(c)] IN
        q.pc = "mutating" /\ q.kind = G8s /\ q.op = "update" /\ ~q.dry /\ q.obj.replicas = 3
      BY <1>1, <3>2 DEF PairInv, HandlerServes
    <3>4. QED
      BY <1>6, <3>1, <3>2, <3>3, PairQuietUser
  <2>5. QED
    BY <2>3, <2>4 DEF Request, User, Nested
<1>7. QED
  BY <1>3, <1>5, <1>6

\* Only an object that is gone keeps the only client's request from being written.
LEMMA RefusePair ==
  ASSUME NEW c, Client = {c}, Typed, PairInv, NEW r \in Request, Refuse(r)
  PROVE  PairInv'
<1>1. c \in Client /\ User(c) \in Request
  BY NestedIsNotUser
<1>2. req[r].pc = "writing" /\ req[r].pc # "idle" /\ (~Writable(r) \/ req[r].dry) /\ Deny(r)
  BY DEF Refuse
<1>3. r = User(c) => hdl[c].pc = "idle"
  BY <1>1, <1>2 DEF PairInv, HandlerServes
<1>4. ASSUME r = User(c), store[G8s] # None, HalfWay(c) PROVE FALSE
  <2>1. req[r].kind = G8s /\ req[r].op = "update" /\ ~req[r].dry
    BY <1>4 DEF HalfWay
  <2>2. req[r].fresh
    BY <1>1, <1>2, <1>4, <2>1 DEF PairInv, UserIsCurrent
  <2>3. QED
    BY <1>2, <1>4, <2>1, <2>2 DEF Writable
<1>5. QED
  BY <1>2, <1>3, <1>4, DenyPair

LEMMA WritePair ==
  ASSUME NEW c, Client = {c}, NoFaults, Typed, CopiesCurrent, NestedScalesUp, PairInv,
         NEW r \in Request, Write(r)
  PROVE  PairInv'
<1> DEFINE u == req[User(c)]
           kind == req[r].kind
<1>1. c \in Client /\ User(c) \in Request /\ Nested(c) \in Request /\ User(c) # Nested(c)
  BY NestedIsNotUser
<1>2. /\ req[r].pc = "writing" /\ req[r].pc # "idle" /\ kind \in Kinds
      /\ store' = [store EXCEPT ![kind] = req[r].obj]
      /\ req' = StaleRequests(Done(r), kind)
      /\ \E h \in Told(r, {"updated"}) : hdl' = StaleHandlers(h, kind)
  BY RequestTypes DEF Write, NoFaults
<1>3. PICK h \in Told(r, {"updated"}) : hdl' = StaleHandlers(h, kind)
  BY <1>2
<1>4. h \in [Client -> HandlerState] /\ hdl'[c].pc = h[c].pc
  BY <1>1, <1>3, ToldTypes, StaleHandlersKeep
<1>5. /\ Done(r) \in [Request -> RequestState] /\ Done(r)[r] = IdleRequest
      /\ \A q \in Request : q # r => Done(r)[q] = req[q]
  BY RequestTypes DEF Done, Typed
<1>6. req'[r] = IdleRequest
  BY <1>2, <1>5, StaleKeeps
<1>7. CASE r = User(c)
  <2>1. hdl[c].pc = "idle"
    BY <1>1, <1>2, <1>7 DEF PairInv, HandlerServes
  <2>2. req[Nested(c)].pc = "idle"
    BY <1>1, <2>1 DEF PairInv, HandlerWaits
  <2>3. r[2] # "nested"
    BY <1>7 DEF User
  <2>4. hdl'[c].pc = "idle"
    BY <1>3, <1>4, <2>1, <2>3 DEF Told
  <2>5. req'[Nested(c)].pc = "idle"
    BY <1>1, <1>2, <1>5, <1>7, <2>2, StaleKeeps
  <2>6. req'[User(c)].pc = "idle" /\ req'[User(c)].op = "create"
    BY <1>6, <1>7 DEF IdleRequest
  <2>7. store'[G8s] # None /\ store'[AWS] # None => Matches(store'[G8s], store'[AWS])
    <3>1. CASE kind = G8s
      <4>1. store'[G8s] = u.obj /\ store'[AWS] = store[AWS]
        BY <1>2, <1>7, <3>1 DEF Typed, TypedStores
      <4>2. QED
        BY <1>1, <1>2, <1>7, <3>1, <4>1 DEF PairInv, WritesMatch
    <3>2. CASE kind = AWS
      <4>1. store'[AWS] = u.obj /\ store'[G8s] = store[G8s]
        BY <1>2, <1>7, <3>2 DEF Typed, TypedStores
      <4>2. QED
        BY <1>1, <1>2, <1>7, <3>2, <4>1 DEF PairInv, WritesMatch
    <3>3. QED
      BY <1>2, <3>1, <3>2
  <2>8. PairMatched'
    BY <2>7 DEF PairMatched, Matches
  <2>9. /\ HandlerServes' /\ HandlerWaits' /\ UpdateIsStored'
        /\ UserIsCurrent' /\ WritesMatch'
    BY <2>4, <2>5, <2>6
       DEF HandlerServes, HandlerWaits, UpdateIsStored, UserIsCurrent, WritesMatch
  <2>10. QED
    BY <2>8, <2>9 DEF PairInv
<1>8. CASE r = Nested(c)
  <2>1. hdl[c].pc = "calling"
    BY <1>1, <1>2, <1>8 DEF PairInv, HandlerWaits
  <2>2. u.pc = "mutating" /\ u.kind = G8s /\ u.op = "update" /\ ~u.dry /\ u.obj.replicas = 3
    BY <1>1, <2>1 DEF PairInv, HandlerServes
  <2>3. r[1] = c /\ r[2] = "nested"
    BY <1>8 DEF Nested
  <2>4. hdl'[c].pc = "updated"
    <3>1. h = [hdl EXCEPT ![c].pc = "updated"]
      BY <1>3, <2>1, <2>3 DEF Told
    <3>2. QED
      BY <1>1, <1>4, <2>1, <3>1 DEF Typed, HandlerState, IdleHandler
  <2>5. kind = AWS /\ Len(req[r].obj.azs) = 3
    BY <1>1, <1>2, <1>8, NestedIsTyped DEF NestedScalesUp
  <2>6. store'[AWS] = req[r].obj /\ store'[G8s] = store[G8s]
    BY <1>2, <2>5 DEF Typed, TypedStores
  <2>7. req'[Nested(c)].pc = "idle"
    BY <1>6, <1>8 DEF IdleRequest
  <2>8. Done(r)[User(c)] = u
    BY <1>1, <1>5, <1>8
  <2>9. /\ req'[User(c)].pc = u.pc /\ req'[User(c)].kind = u.kind /\ req'[User(c)].op = u.op
        /\ req'[User(c)].dry = u.dry /\ req'[User(c)].obj = u.obj
    BY <1>1, <1>2, <1>5, <2>8, StaleKeeps
  <2>10. req'[User(c)].fresh = u.fresh
    BY <1>1, <1>2, <2>2, <2>5, <2>8 DEF StaleRequests
  <2>11. HalfWay(c)'
    BY <2>2, <2>4, <2>5, <2>6, <2>9 DEF HalfWay
  <2>12. HandlerServes' /\ HandlerWaits' /\ UpdateIsStored'
    BY <2>2, <2>4, <2>5, <2>6, <2>7, <2>9 DEF HandlerServes, HandlerWaits, UpdateIsStored
  <2>13. UserIsCurrent'
    BY <1>1, <2>2, <2>6, <2>9, <2>10 DEF PairInv, UserIsCurrent
  <2>14. WritesMatch' /\ PairMatched'
    BY <1>1, <2>2, <2>9, <2>11 DEF WritesMatch, PairMatched
  <2>15. QED
    BY <2>12, <2>13, <2>14 DEF PairInv
<1>9. QED
  BY <1>7, <1>8 DEF Request, User, Nested

LEMMA DeletePair ==
  ASSUME NEW c, Client = {c}, Typed, PairInv, NEW kind \in Kinds, Delete(kind)
  PROVE  PairInv'
<1> DEFINE u == req[User(c)]
<1>1. c \in Client /\ User(c) \in Request /\ Nested(c) \in Request
  BY NestedIsNotUser
<1>2. /\ store'[kind] = None /\ \A k \in Kinds : k # kind => store'[k] = store[k]
      /\ req' = StaleRequests(req, kind) /\ hdl' = StaleHandlers(hdl, kind)
  BY DEF Delete, Typed, TypedStores
<1>3. hdl'[c].pc = hdl[c].pc
  BY <1>1, <1>2, StaleHandlersKeep DEF Typed
<1>4. \A q \in Request :
        /\ req'[q].pc = req[q].pc /\ req'[q].kind = req[q].kind /\ req'[q].op = req[q].op
        /\ req'[q].dry = req[q].dry /\ req'[q].obj = req[q].obj
  BY <1>2, StaleKeeps DEF Typed
<1>5. req'[User(c)].fresh = u.fresh \/ kind = u.kind
  BY <1>1, <1>2 DEF StaleRequests
<1>6. HandlerServes' /\ HandlerWaits'
  BY <1>1, <1>3, <1>4 DEF PairInv, HandlerServes, HandlerWaits
<1>7. UpdateIsStored'
  BY <1>1, <1>2, <1>3 DEF PairInv, UpdateIsStored
<1>8. UserIsCurrent'
  BY <1>1, <1>2, <1>4, <1>5 DEF PairInv, UserIsCurrent
<1>9. WritesMatch'
  BY <1>1, <1>2, <1>4 DEF PairInv, WritesMatch, Matches
<1>10. PairMatched'
  BY <1>2 DEF PairMatched
<1>11. QED
  BY <1>6, <1>7, <1>8, <1>9, <1>10 DEF PairInv

LEMMA PairStep ==
  ASSUME OneClient, NoFaults, ZonesNotUpdated, ScaleUpInv, PairInv, [Next]_vars
  PROVE  PairInv'
<1> PICK c : Client = {c}
  BY DEF OneClient
<1> Typed /\ CopiesCurrent /\ NestedScalesUp
  BY DEF ScaleUpInv, TypeInv
<1>1. CASE Submit(c) \/ Handle(c)
  BY <1>1, SubmitPair, MutateG8sUpdatePair, CallUpdatePair, AnswerPair DEF Handle
<1>2. ASSUME NEW r \in Request, Serve(r) PROVE PairInv'
  BY <1>2, MutatePair, ValidatePair, WritePair, RefusePair DEF Serve
<1>3. ASSUME NEW kind \in Kinds, Delete(kind) PROVE PairInv'
  BY <1>3, DeletePair
<1>4. CASE UNCHANGED vars
  BY <1>4 DEF vars, PairInv, HandlerServes, HandlerWaits, UpdateIsStored, UserIsCurrent,
              WritesMatch, PairMatched, HalfWay, Matches
<1>5. \A d \in Client : ~Crash(d)
  BY DEF NoFaults, Crash
<1>6. \A r \in Request : ~Fail(r)
  BY DEF NoFaults, Fail, SkipMutator, SkipValidator
<1>7. QED
  BY <1>1, <1>2, <1>3, <1>4, <1>5, <1>6 DEF Next

\* Once no request is in flight the two CRs agree, when one client at a time
\* creates, scales and deletes them and nothing fails: the only mismatch is
\* between the handler's update and the request it belongs to, which is then
\* always admitted and written.  Each hypothesis is needed: with two clients, a
\* fault, or an update of the zones, the validators let a mismatch through.
THEOREM PairAgrees ==
  ASSUME OneClient, NoFaults, ZonesNotUpdated, InitiallyMatched
  PROVE  Spec => []PairConsistent
<1>1. Init => PairInv
  BY NestedIsNotUser
     DEF Init, PairInv, HandlerServes, HandlerWaits, UpdateIsStored, UserIsCurrent,
         WritesMatch, PairMatched, InitiallyMatched, IdleRequest, IdleHandler
<1>2. PairInv /\ ScaleUpInv /\ [Next]_vars => PairInv'
  BY PairStep
<1>3. PairInv /\ ScaleUpInv => PairConsistent
  <2> SUFFICES ASSUME PairMatched, Typed, \A r \in Request : req[r].pc = "idle",
                      store[G8s] # None, store[AWS] # None
               PROVE  Matches(store[G8s], store[AWS])
    BY DEF PairInv, PairConsistent, ScaleUpInv, TypeInv
  <2>1. \A r \in Request : req[r] = IdleRequest
    BY DEF Typed, RequestState
  <2>2. \A c \in Client : ~HalfWay(c)
    BY <2>1, NestedIsNotUser DEF HalfWay, IdleRequest
  <2>3. QED
    BY <2>2 DEF PairMatched
<1>4. QED
  BY <1>1, <1>2, <1>3, ScaleUpInvariant, PTL DEF Spec
=============================================================================
