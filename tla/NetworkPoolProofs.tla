------------------------- MODULE NetworkPoolProofs -------------------------
(***************************************************************************)
(* Theorems about NetworkPool, for any clients, names, CIDR blocks and     *)
(* failures.                                                               *)
(***************************************************************************)
EXTENDS NetworkPool, TLAPS

RequestState ==
  {IdleRequest} \cup
  [pc : {"validating", "writing"}, op : {"create", "update"}, name : Name,
   cidr : CIDR \cup {Malformed}, fresh : BOOLEAN]

TypeOK ==
  /\ pools \in [Name -> CIDR \cup {Malformed, None}]
  /\ req \in [Client -> RequestState]

\* intersect compares only the first addresses of the two blocks, and that is
\* enough.
LEMMA IntersectLemma ==
  ASSUME NEW n1 \in CIDR, NEW n2 \in CIDR, ~Intersect(n1, n2)
  PROVE  Disjoint(n1, n2)
BY BlocksNest DEF Intersect, Contains, Disjoint

-----------------------------------------------------------------------------
(* What each step does to the pools and to the requests.                   *)

Allowed(cidr) == cidr \in CIDR /\ \A net \in Reserved : ~Intersect(cidr, net)

\* A request that is being written, in the state before.
Writing(c) == req[c].pc = "writing"
Same(c) == req'[c].name = req[c].name /\ req'[c].cidr = req[c].cidr

\* A step that writes no pool: the requests that are being written afterwards
\* are those that were, and those the validator let through or that skipped it.
Quiet ==
  /\ pools' = pools
  /\ lapses \subseteq lapses'
  /\ \A c \in Client : Writing(c)' =>
       /\ Same(c)
       /\ \/ Writing(c)
          \/ "skipValidator" \in lapses'
          \/ /\ req[c].pc = "validating"
             /\ \E listed : /\ NetworkPoolAllowed(req[c].cidr, listed)
                            /\ listed = Others(req[c].name) \/ "listError" \in lapses'

\* A write by c, and a delete.
Written(c) ==
  /\ Writing(c) /\ req[c].name \in Name
  /\ pools' = [pools EXCEPT ![req[c].name] = req[c].cidr]
  /\ lapses' = IF Overtakes(c) THEN lapses \cup {"overtaken"} ELSE lapses
  /\ \A d \in Client : Writing(d)' => Writing(d) /\ Same(d)
Deleted(name) ==
  /\ pools' = [pools EXCEPT ![name] = None]
  /\ lapses' = lapses
  /\ \A d \in Client : Writing(d)' => Writing(d) /\ Same(d)

LEMMA StaleLemma ==
  ASSUME NEW reqs \in [Client -> RequestState], NEW name
  PROVE  /\ Stale(reqs, name) \in [Client -> RequestState]
         /\ \A c \in Client : /\ Stale(reqs, name)[c].pc = reqs[c].pc
                              /\ Stale(reqs, name)[c].name = reqs[c].name
                              /\ Stale(reqs, name)[c].cidr = reqs[c].cidr
<1>1. ASSUME NEW r \in RequestState, r.fresh
      PROVE  /\ [r EXCEPT !.fresh = FALSE] \in RequestState
             /\ [r EXCEPT !.fresh = FALSE].pc = r.pc
             /\ [r EXCEPT !.fresh = FALSE].name = r.name
             /\ [r EXCEPT !.fresh = FALSE].cidr = r.cidr
  <2>1. r # IdleRequest
    BY <1>1 DEF IdleRequest
  <2>2. QED
    BY <1>1, <2>1 DEF RequestState
<1>2. QED
  BY <1>1 DEF Stale

\* The types, and the effect, of every step.
LEMMA Steps ==
  ASSUME TypeOK, [Next]_vars
  PROVE  /\ TypeOK'
         /\ \/ Quiet
            \/ \E c \in Client : Written(c)
            \/ \E name \in Name : Deleted(name)
<1> DEFINE Effect == \/ Quiet
                     \/ \E c \in Client : Written(c)
                     \/ \E name \in Name : Deleted(name)
<1>0. IdleRequest.pc = "idle" /\ IdleRequest \in RequestState
  BY DEF IdleRequest, RequestState
<1>1. ASSUME NEW c \in Client, Submit(c) PROVE TypeOK' /\ Effect
  <2>1. PICK op \in {"create", "update"}, name \in Name, cidr \in UserCIDRs :
          req' = [req EXCEPT ![c] = [pc |-> "validating", op |-> op, name |-> name,
                                     cidr |-> cidr, fresh |-> TRUE]]
    BY <1>1 DEF Submit
  <2>2. cidr \in CIDR \cup {Malformed}
    BY NetworksAssumption
  <2>3. TypeOK'
    BY <1>1, <2>1, <2>2 DEF Submit, TypeOK, RequestState
  <2>4. \A d \in Client : Writing(d)' => req'[d] = req[d]
    BY <2>1 DEF TypeOK, Writing
  <2>5. Quiet
    BY <1>1, <2>4 DEF Submit, Quiet, Writing, Same
  <2>6. QED
    BY <2>3, <2>5
<1>2. ASSUME NEW c \in Client, Finish(c), lapses \subseteq lapses' PROVE TypeOK' /\ Effect
  <2>1. TypeOK'
    BY <1>0, <1>2 DEF Finish, TypeOK
  <2>2. \A d \in Client : Writing(d)' => req'[d] = req[d]
    BY <1>0, <1>2 DEF Finish, TypeOK, Writing
  <2>3. Quiet
    BY <1>2, <2>2 DEF Finish, Quiet, Writing, Same
  <2>4. QED
    BY <2>1, <2>3
<1>3. ASSUME NEW c \in Client, req[c].pc = "validating",
             req' = [req EXCEPT ![c].pc = "writing"], pools' = pools
      PROVE  /\ TypeOK' /\ Same(c)
             /\ \A d \in Client \ {c} : req'[d] = req[d]
  <2>1. req[c] \in RequestState /\ req[c] # IdleRequest
    BY <1>3, <1>0 DEF TypeOK
  <2>2. [req[c] EXCEPT !.pc = "writing"] \in RequestState
    BY <2>1 DEF RequestState
  <2>3. Same(c)
    BY <1>3, <2>1 DEF TypeOK, RequestState, Same
  <2>4. QED
    BY <1>3, <2>2, <2>3 DEF TypeOK
<1>4. ASSUME NEW c \in Client, Validate(c) PROVE TypeOK' /\ Effect
  <2>1. PICK listed \in Listed(req[c].name) :
          /\ lapses' = IF listed = Others(req[c].name) THEN lapses
                       ELSE lapses \cup {"listError"}
          /\ \/ /\ NetworkPoolAllowed(req[c].cidr, listed)
                /\ req' = [req EXCEPT ![c].pc = "writing"]
                /\ UNCHANGED pools
             \/ Finish(c)
    BY <1>4 DEF Validate
  <2>2. CASE Finish(c)
    BY <1>2, <2>1, <2>2
  <2>3. CASE /\ NetworkPoolAllowed(req[c].cidr, listed)
             /\ req' = [req EXCEPT ![c].pc = "writing"]
             /\ UNCHANGED pools
    <3>1. req[c].pc = "validating"
      BY <1>4 DEF Validate
    <3>2. /\ TypeOK' /\ Same(c)
          /\ \A d \in Client \ {c} : req'[d] = req[d]
      BY <1>3, <2>3, <3>1
    <3>3. listed = Others(req[c].name) \/ "listError" \in lapses'
      BY <2>1
    <3>4. Quiet
      BY <2>1, <2>3, <3>1, <3>2, <3>3 DEF Quiet, Same, Writing
    <3>5. QED
      BY <3>2, <3>4
  <2>4. QED
    BY <2>1, <2>2, <2>3
<1>5. ASSUME NEW c \in Client, SkipValidator(c) PROVE TypeOK' /\ Effect
  <2>1. /\ TypeOK' /\ Same(c)
        /\ \A d \in Client \ {c} : req'[d] = req[d]
    BY <1>3, <1>5 DEF SkipValidator
  <2>2. Quiet
    BY <1>5, <2>1 DEF SkipValidator, Quiet, Same, Writing
  <2>3. QED
    BY <2>1, <2>2
<1>6. ASSUME NEW c \in Client, Write(c) PROVE TypeOK' /\ Effect
  <2> DEFINE idle == [req EXCEPT ![c] = IdleRequest]
  <2>1. /\ req[c].name \in Name /\ req[c].cidr \in CIDR \cup {Malformed}
        /\ Writing(c)
    BY <1>6, <1>0 DEF Write, TypeOK, RequestState, Writing
  <2>2. idle \in [Client -> RequestState] /\ req' = Stale(idle, req[c].name)
    BY <1>6, <1>0 DEF Write, TypeOK
  <2>3. /\ req' \in [Client -> RequestState]
        /\ \A d \in Client : /\ req'[d].pc = idle[d].pc /\ req'[d].name = idle[d].name
                             /\ req'[d].cidr = idle[d].cidr
    BY <2>2, StaleLemma
  <2>4. \A d \in Client : Writing(d)' => d # c
    BY <2>3, <1>0 DEF Writing, TypeOK
  <2>5. \A d \in Client : d # c => idle[d] = req[d]
    BY DEF TypeOK
  <2>6. \A d \in Client : Writing(d)' => Writing(d) /\ Same(d)
    BY <2>3, <2>4, <2>5 DEF Writing, Same
  <2>7. Written(c)
    BY <1>6, <2>1, <2>6 DEF Written, Write
  <2>8. TypeOK'
    BY <1>6, <2>1, <2>3 DEF Write, TypeOK
  <2>9. QED
    BY <2>7, <2>8
<1>7. ASSUME NEW name \in Name, Delete(name) PROVE TypeOK' /\ Effect
  <2>1. /\ req' \in [Client -> RequestState]
        /\ \A d \in Client : /\ req'[d].pc = req[d].pc /\ req'[d].name = req[d].name
                             /\ req'[d].cidr = req[d].cidr
    BY <1>7, StaleLemma DEF Delete, TypeOK
  <2>2. Deleted(name)
    BY <1>7, <2>1 DEF Deleted, Delete, Writing, Same
  <2>3. TypeOK'
    BY <1>7, <2>1 DEF Delete, TypeOK
  <2>4. QED
    BY <2>2, <2>3
<1>8. CASE UNCHANGED vars
  <2>1. Quiet
    BY <1>8 DEF vars, Quiet, Same, Writing
  <2>2. QED
    BY <1>8, <2>1 DEF vars, TypeOK
<1>9. ASSUME NEW c \in Client, Refuse(c) PROVE TypeOK' /\ Effect
  BY <1>2, <1>9 DEF Refuse
<1>10. QED
  BY <1>1, <1>4, <1>5, <1>6, <1>7, <1>8, <1>9 DEF Next

LEMMA InitTypes == Init => TypeOK
BY DEF Init, TypeOK, RequestState, IdleRequest

\* A request for which the validator goes on is allowed.
LEMMA ValidatedIsAllowed ==
  ASSUME TypeOK, NEW c \in Client, req[c].pc = "validating",
         NEW listed, NetworkPoolAllowed(req[c].cidr, listed)
  PROVE  Allowed(req[c].cidr)
<1>1. req[c].cidr \in CIDR \cup {Malformed}
  BY DEF TypeOK, RequestState, IdleRequest
<1>2. QED
  BY <1>1 DEF NetworkPoolAllowed, Allowed

-----------------------------------------------------------------------------
(* The networks of the installation.                                       *)

\* What was validated is allowed, and so is what is stored.
ReservedInv ==
  "skipValidator" \notin lapses =>
    /\ \A c \in Client : Writing(c) => Allowed(req[c].cidr)
    /\ \A name \in Name : pools[name] # None => Allowed(pools[name])

LEMMA ReservedStep ==
  ASSUME TypeOK, ReservedInv, [Next]_vars
  PROVE  ReservedInv'
<1> SUFFICES ASSUME "skipValidator" \notin lapses'
             PROVE  /\ \A c \in Client : Writing(c)' => Allowed(req'[c].cidr)
                    /\ \A name \in Name : pools'[name] # None => Allowed(pools'[name])
  BY DEF ReservedInv, Writing, Allowed, Intersect, Contains
<1>1. CASE Quiet
  <2>1. /\ \A c \in Client : Writing(c) => Allowed(req[c].cidr)
        /\ \A name \in Name : pools[name] # None => Allowed(pools[name])
    BY <1>1 DEF ReservedInv, Quiet
  <2>2. \A c \in Client : Writing(c)' => Allowed(req'[c].cidr)
    BY <1>1, <2>1, ValidatedIsAllowed DEF Quiet, Same
  <2>3. QED
    BY <1>1, <2>1, <2>2 DEF Quiet
<1>2. ASSUME NEW c \in Client, Written(c)
      PROVE  /\ \A d \in Client : Writing(d)' => Allowed(req'[d].cidr)
             /\ \A name \in Name : pools'[name] # None => Allowed(pools'[name])
  <2>1. /\ \A d \in Client : Writing(d) => Allowed(req[d].cidr)
        /\ \A name \in Name : pools[name] # None => Allowed(pools[name])
    BY <1>2 DEF ReservedInv, Written
  <2>2. QED
    BY <1>2, <2>1 DEF Written, Same, TypeOK
<1>3. ASSUME NEW name \in Name, Deleted(name)
      PROVE  /\ \A d \in Client : Writing(d)' => Allowed(req'[d].cidr)
             /\ \A other \in Name : pools'[other] # None => Allowed(pools'[other])
  BY <1>3 DEF ReservedInv, Deleted, Same, TypeOK
<1>4. QED
  BY <1>1, <1>2, <1>3, Steps

\* No pool that is stored overlaps a Docker, tenant cluster or Kubernetes
\* network, however many clients create pools at the same time and even when
\* the list of pools cannot be fetched, until a validating call is skipped.
THEOREM ReservedSafe == Spec => []ReservedUntouched
<1>1. Init => TypeOK /\ ReservedInv
  BY InitTypes DEF Init, ReservedInv, Writing, IdleRequest
<1>2. TypeOK /\ ReservedInv /\ [Next]_vars => TypeOK' /\ ReservedInv'
  BY Steps, ReservedStep
<1>3. TypeOK /\ ReservedInv => ReservedUntouched
  <2> SUFFICES ASSUME ReservedInv, "skipValidator" \notin lapses,
                      NEW name \in Name, pools[name] # None
               PROVE  /\ pools[name] # Malformed
                      /\ \A net \in Reserved : Disjoint(pools[name], net)
    BY DEF ReservedUntouched
  <2>1. Allowed(pools[name])
    BY DEF ReservedInv
  <2>2. QED
    BY <2>1, NetworksAssumption, IntersectLemma DEF Allowed
<1>4. QED
  BY <1>1, <1>2, <1>3, PTL DEF Spec

-----------------------------------------------------------------------------
(* The other pools.                                                        *)

\* As long as no lapse occurred, a request that has been validated stays clear
\* of the other pools until it is written: a write that could change that is a
\* lapse.
ClearOfOthers(c) ==
  \A other \in Name \ {req[c].name} :
    pools[other] # None => Disjoint(req[c].cidr, pools[other])
DisjointInv ==
  /\ PoolsDisjoint
  /\ lapses = {} => \A c \in Client : Writing(c) => ClearOfOthers(c)

LEMMA QuietDisjoint ==
  ASSUME TypeOK, ReservedInv, DisjointInv, Quiet
  PROVE  DisjointInv'
<1> SUFFICES ASSUME lapses' = {} PROVE DisjointInv'
  BY DEF DisjointInv, PoolsDisjoint
<1>1. lapses = {} /\ pools' = pools
  BY DEF Quiet
<1>2. ASSUME NEW c \in Client, Writing(c)',
             NEW other \in Name \ {req'[c].name}, pools'[other] # None
      PROVE  Disjoint(req'[c].cidr, pools'[other])
  <2>1. other # req[c].name /\ pools[other] # None /\ req'[c].cidr = req[c].cidr
    BY <1>1, <1>2 DEF Quiet, Same
  <2>2. CASE Writing(c)
    BY <1>1, <2>1, <2>2 DEF DisjointInv, ClearOfOthers
  <2>3. CASE ~Writing(c)
    <3>1. /\ req[c].pc = "validating"
          /\ NetworkPoolAllowed(req[c].cidr, Others(req[c].name))
      BY <1>2, <2>3 DEF Quiet
    <3>2. pools[other] \in Others(req[c].name) /\ pools[other] \in CIDR
      BY <1>1, <2>1 DEF Others, ReservedInv, Allowed
    <3>3. ~Intersect(req[c].cidr, pools[other])
      BY <3>1, <3>2 DEF NetworkPoolAllowed
    <3>4. req[c].cidr \in CIDR
      BY <3>1, ValidatedIsAllowed DEF Allowed
    <3>5. Disjoint(req[c].cidr, pools[other])
      BY <3>2, <3>3, <3>4, IntersectLemma
    <3>6. QED
      BY <1>1, <2>1, <3>5
  <2>4. QED
    BY <2>2, <2>3
<1>3. PoolsDisjoint'
  BY <1>1 DEF DisjointInv, PoolsDisjoint
<1>4. \A c \in Client : Writing(c)' => ClearOfOthers(c)'
  BY <1>2 DEF ClearOfOthers
<1>5. QED
  BY <1>3, <1>4 DEF DisjointInv

LEMMA WrittenDisjoint ==
  ASSUME TypeOK, DisjointInv, NEW c \in Client, Written(c)
  PROVE  DisjointInv'
<1> SUFFICES ASSUME lapses' = {} PROVE DisjointInv'
  BY DEF DisjointInv, PoolsDisjoint
<1> DEFINE name == req[c].name
<1>1. lapses = {} /\ ~Overtakes(c)
  BY DEF Written
<1>2. \A other \in Name : pools'[other] = IF other = name THEN req[c].cidr ELSE pools[other]
  BY DEF Written, TypeOK
<1>3. ASSUME NEW n \in Name, NEW m \in Name, n # m, pools'[n] # None, pools'[m] # None
      PROVE  Disjoint(pools'[n], pools'[m])
  <2>1. \A other \in Name \ {name} : pools[other] # None => Disjoint(req[c].cidr, pools[other])
    BY <1>1 DEF DisjointInv, ClearOfOthers, Written
  <2>2. CASE n # name /\ m # name
    BY <1>1, <1>2, <1>3, <2>2 DEF DisjointInv, PoolsDisjoint
  <2>3. CASE n = name
    BY <1>2, <1>3, <2>1, <2>3
  <2>4. CASE m = name
    BY <1>2, <1>3, <2>1, <2>4 DEF Disjoint
  <2>5. QED
    BY <2>2, <2>3, <2>4
<1>4. ASSUME NEW d \in Client, Writing(d)',
             NEW other \in Name \ {req'[d].name}, pools'[other] # None
      PROVE  Disjoint(req'[d].cidr, pools'[other])
  <2>1. Writing(d) /\ Same(d)
    BY <1>4 DEF Written
  <2>2. req[d].name = name
    BY <1>1, <2>1 DEF Overtakes, Writing
  <2>3. pools'[other] = pools[other] /\ other \in Name \ {req[d].name}
    BY <1>2, <1>4, <2>1, <2>2 DEF Same
  <2>4. Disjoint(req[d].cidr, pools[other])
    BY <1>1, <1>4, <2>1, <2>3 DEF DisjointInv, ClearOfOthers
  <2>5. QED
    BY <2>1, <2>3, <2>4 DEF Same
<1>5. PoolsDisjoint'
  BY <1>3 DEF PoolsDisjoint, Disjoint
<1>6. \A d \in Client : Writing(d)' => ClearOfOthers(d)'
  BY <1>4 DEF ClearOfOthers
<1>7. QED
  BY <1>5, <1>6 DEF DisjointInv

LEMMA DeletedDisjoint ==
  ASSUME TypeOK, DisjointInv, NEW name \in Name, Deleted(name)
  PROVE  DisjointInv'
<1>1. \A other \in Name : pools'[other] # None => pools'[other] = pools[other]
  BY DEF Deleted, TypeOK
<1>2. PoolsDisjoint'
  BY <1>1 DEF Deleted, DisjointInv, PoolsDisjoint
<1>3. ASSUME lapses' = {}, NEW d \in Client, Writing(d)'
      PROVE  ClearOfOthers(d)'
  BY <1>1, <1>3 DEF Deleted, DisjointInv, ClearOfOthers, Same
<1>4. QED
  BY <1>2, <1>3 DEF DisjointInv

\* The inductive invariant.
Inv == TypeOK /\ ReservedInv /\ DisjointInv

LEMMA InvInit == Init => Inv
BY InitTypes
   DEF Init, Inv, ReservedInv, DisjointInv, PoolsDisjoint, Writing, IdleRequest

LEMMA InvStep == Inv /\ [Next]_vars => Inv'
<1> SUFFICES ASSUME Inv, [Next]_vars PROVE Inv'
  OBVIOUS
<1> USE DEF Inv
<1>1. TypeOK' /\ ReservedInv'
  BY Steps, ReservedStep
<1>2. DisjointInv'
  BY Steps, QuietDisjoint, WrittenDisjoint, DeletedDisjoint
<1>3. QED
  BY <1>1, <1>2

\* For any number of clients, no two stored pools share an address until the
\* list of pools cannot be fetched, a validating call is skipped, or a pool is
\* written between the validation and the write of another one.
THEOREM PoolsStayDisjoint == Spec => []PoolsDisjoint
<1>1. Inv => PoolsDisjoint
  BY DEF Inv, DisjointInv
<1>2. QED
  BY <1>1, InvInit, InvStep, PTL DEF Spec

\* Under the same conditions the validator never denies a pool the addresses
\* it already has: neither another pool nor a network of the installation is
\* in the way.
THEOREM OwnersKeepTheirRange == Spec => []OwnRangeAllowed
<1>1. ASSUME Inv, lapses = {}, NEW name \in Name, NEW cidr \in UserCIDRs \ {Malformed},
             pools[name] # None, cidr.addrs \subseteq pools[name].addrs
      PROVE  NetworkPoolAllowed(cidr, Others(name))
  <2>1. cidr \in CIDR
    BY <1>1, NetworksAssumption
  <2>2. \A n \in Name : pools[n] # None => Allowed(pools[n])
    BY <1>1 DEF Inv, ReservedInv
  <2>3. ASSUME NEW other \in CIDR, Disjoint(pools[name], other)
        PROVE  ~Intersect(cidr, other)
    BY <1>1, <2>1, <2>3, BlocksNest DEF Intersect, Contains, Disjoint
  <2>4. ASSUME NEW other \in Others(name)
        PROVE  other # Malformed /\ ~Intersect(cidr, other)
    <3>1. other \in CIDR /\ Disjoint(pools[name], other)
      BY <1>1, <2>2, <2>4 DEF Inv, DisjointInv, PoolsDisjoint, Others, Allowed
    <3>2. QED
      BY <2>3, <3>1, NetworksAssumption
  <2>5. ASSUME NEW net \in Reserved
        PROVE  net # Malformed /\ ~Intersect(cidr, net)
    <3>1. net \in CIDR /\ Disjoint(pools[name], net)
      BY <1>1, <2>2, NetworksAssumption, IntersectLemma DEF Allowed
    <3>2. QED
      BY <2>3, <3>1, NetworksAssumption
  <2>6. QED
    BY <1>1, <2>4, <2>5 DEF NetworkPoolAllowed
<1>2. Inv => OwnRangeAllowed
  BY <1>1 DEF OwnRangeAllowed
<1>3. QED
  BY <1>2, InvInit, InvStep, PTL DEF Spec

-----------------------------------------------------------------------------
(* The abstract specification.                                             *)

Degree(l) == IF l = {} THEN "all" ELSE IF "skipValidator" \notin l THEN "reserved" ELSE "none"

LEMMA DegreeWeakens ==
  ASSUME lapses \subseteq lapses'
  PROVE  Plan!Weaken
BY DEF Plan!Weaken, Plan!Degrees

\* A pool that is written fits what is stored at that moment.
LEMMA WrittenFits ==
  ASSUME Inv, NEW c \in Client, Written(c)
  PROVE  Plan!Put
<1> DEFINE name == req[c].name
           block == req[c].cidr
<1>1. /\ name \in Name /\ Writing(c) /\ lapses \subseteq lapses'
      /\ pools' = [pools EXCEPT ![name] = block] /\ pools'[name] = block
  BY DEF Written, Inv, TypeOK
<1>2. ASSUME "skipValidator" \notin lapses'
      PROVE  block # Malformed /\ \A net \in Reserved : Plan!ClearOf(block, net)
  <2>1. Allowed(block)
    BY <1>1, <1>2 DEF Inv, ReservedInv
  <2>2. QED
    BY <2>1, NetworksAssumption, IntersectLemma DEF Allowed, Disjoint, Plan!ClearOf
<1>3. ASSUME lapses' = {}
      PROVE  \A other \in Name \ {name} :
               pools[other] # None => Plan!ClearOf(block, pools[other])
  BY <1>1, <1>3 DEF Inv, DisjointInv, ClearOfOthers, Disjoint, Plan!ClearOf
<1>4. Plan!Fits(name, pools'[name], Degree(lapses'))
  BY <1>1, <1>2, <1>3 DEF Plan!Fits, Degree
<1>5. QED
  BY <1>1, <1>4 DEF Plan!Put, Degree

\* The requests, Lists and late writes of NetworkPool implement a store into
\* which a pool is only ever put if it fits at that moment, to the degree that
\* the lapses leave.
THEOREM ImplementsAddressPlan == Spec => KeepsAddressPlan
<1>1. Init => Plan!Init
  BY DEF Init, Plan!Init
<1>2. Inv /\ [Next]_vars => [Plan!Next]_<<pools, Degree(lapses)>>
  <2> SUFFICES ASSUME Inv, [Next]_vars PROVE Plan!Next
    OBVIOUS
  <2>1. CASE Quiet
    BY <2>1, DegreeWeakens DEF Quiet, Plan!Next
  <2>2. ASSUME NEW c \in Client, Written(c) PROVE Plan!Next
    <3>1. lapses \subseteq lapses'
      BY <2>2 DEF Written
    <3>2. QED
      BY <2>2, <3>1, DegreeWeakens, WrittenFits DEF Plan!Next
  <2>3. ASSUME NEW name \in Name, Deleted(name) PROVE Plan!Next
    <3>1. Plan!Put
      BY <2>3 DEF Deleted, Plan!Put, Inv, TypeOK
    <3>2. QED
      BY <2>3, <3>1, DegreeWeakens DEF Deleted, Plan!Next
  <2>4. QED
    BY <2>1, <2>2, <2>3, Steps DEF Inv
<1>3. QED
  BY <1>1, <1>2, InvInit, InvStep, PTL DEF Spec, KeepsAddressPlan, Plan!Spec, Degree
=============================================================================
