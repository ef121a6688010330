---------------------------- MODULE NetworkPool ----------------------------
(***************************************************************************)
(* Admission of NetworkPool CRs.  The validating webhook lists all         *)
(* NetworkPools, and denies a pool whose CIDR block overlaps one of them   *)
(* or one of the networks the installation reserves.  There is no mutating *)
(* webhook.  The API server (external) writes the pool in a later step: it *)
(* checks the copy of an update, but nothing about other pools.            *)
(***************************************************************************)
EXTENDS FiniteSets

CONSTANTS
  Client,     \* clients, each with at most one request in flight
  Name,       \* namespaces and names of NetworkPools
  CIDR,       \* the CIDR blocks: [ip |-> the masked address, addrs |-> all of them]
  UserCIDRs,  \* the blocks clients write, or Malformed
  Reserved,   \* Docker, tenant cluster (IPAM) and Kubernetes service networks
  Malformed,  \* a string that is no CIDR block
  None,       \* no pool
  Faults      \* the failures that may happen, a subset of FaultKinds

FaultKinds == {"listError", "skipValidator"}

ASSUME NetworksAssumption ==
  /\ UserCIDRs \subseteq CIDR \cup {Malformed}
  /\ Reserved \subseteq CIDR
  /\ Malformed \notin CIDR
  /\ None \notin CIDR \cup {Malformed}
  /\ Faults \subseteq FaultKinds

\* A block contains its masked address, and two blocks that share an address
\* are nested: a prefix either extends the other or differs from it.
ASSUME BlocksNest ==
  /\ \A n \in CIDR : n.ip \in n.addrs
  /\ \A n1, n2 \in CIDR :
       \/ n1.addrs \cap n2.addrs = {}
       \/ n1.addrs \subseteq n2.addrs
       \/ n2.addrs \subseteq n1.addrs

VARIABLES
  pools,  \* [Name -> the CIDR block of the stored pool or None]
  req,    \* the request of each client
  lapses  \* history: what has happened that the validator cannot make up for

vars == <<pools, req, lapses>>

\* A failed List, a skipped validating call, and a pool written between the
\* validation and the write of another one.
LapseKinds == FaultKinds \cup {"overtaken"}

IdleRequest == [pc |-> "idle", op |-> "create", name |-> None, cidr |-> None, fresh |-> FALSE]

Init ==
  /\ pools = [name \in Name |-> None]
  /\ req = [c \in Client |-> IdleRequest]
  /\ lapses = {}

-----------------------------------------------------------------------------
(* The validator.                                                          *)

\* net.IPNet.Contains.
Contains(n, ip) == ip \in n.addrs

\* Mutant: a block that lies inside the new one goes unnoticed.
IntersectOneSided(n1, n2) == Contains(n2, n1.ip)

Intersect(n1, n2) == Contains(n2, n1.ip) \/ Contains(n1, n2.ip)

\* Mutant: the pool itself is compared too.
OthersAndOwn(name) == {pools[other] : other \in Name} \ {None}

\* The blocks of all other pools.  A List that fails four times is reported
\* as notFoundError, and the validator goes on without any.
Others(name) == {pools[other] : other \in Name \ {name}} \ {None}
Listed(name) == {Others(name)} \cup IF "listError" \in Faults THEN {{}} ELSE {}

\* Mutant: the networks of the installation are not compared.
NetworkPoolAllowedAmongPools(cidr, listed) ==
  /\ cidr # Malformed
  /\ \A other \in listed : other # Malformed /\ ~Intersect(cidr, other)

\* A block that cannot be parsed denies the request, whosever it is.
NetworkPoolAllowed(cidr, listed) ==
  /\ cidr # Malformed
  /\ \A other \in listed \cup Reserved : other # Malformed /\ ~Intersect(cidr, other)

-----------------------------------------------------------------------------
(* The API server.                                                         *)

Submit(c) ==
  /\ req[c].pc = "idle"
  /\ \E op \in {"create", "update"}, name \in Name, cidr \in UserCIDRs :
       /\ op = "update" => pools[name] # None
       /\ req' = [req EXCEPT ![c] = [pc |-> "validating", op |-> op, name |-> name,
                                     cidr |-> cidr, fresh |-> TRUE]]
  /\ UNCHANGED <<pools, lapses>>

Finish(c) == req' = [req EXCEPT ![c] = IdleRequest] /\ UNCHANGED pools

Validate(c) ==
  /\ req[c].pc = "validating"
  /\ \E listed \in Listed(req[c].name) :
       /\ lapses' = IF listed = Others(req[c].name) THEN lapses
                    ELSE lapses \cup {"listError"}
       /\ \/ /\ NetworkPoolAllowed(req[c].cidr, listed)
             /\ req' = [req EXCEPT ![c].pc = "writing"]
             /\ UNCHANGED pools
          \/ /\ ~NetworkPoolAllowed(req[c].cidr, listed)
             /\ Finish(c)

\* failurePolicy Ignore: a validating call that fails is skipped.
SkipValidator(c) ==
  /\ "skipValidator" \in Faults
  /\ req[c].pc = "validating"
  /\ req' = [req EXCEPT ![c].pc = "writing"]
  /\ lapses' = lapses \cup {"skipValidator"}
  /\ UNCHANGED pools

Writable(c) ==
  /\ req[c].op = "create" => pools[req[c].name] = None
  /\ req[c].op = "update" => pools[req[c].name] # None /\ req[c].fresh

\* After a write the other requests for the pool hold an old copy.
Stale(reqs, name) ==
  [c \in Client |-> IF reqs[c].name = name /\ reqs[c].fresh
                      THEN [reqs[c] EXCEPT !.fresh = FALSE] ELSE reqs[c]]

\* A request for another pool has been validated, but not written.
Overtakes(c) ==
  \E d \in Client : req[d].pc = "writing" /\ req[d].name # req[c].name

Write(c) ==
  /\ req[c].pc = "writing" /\ Writable(c)
  /\ pools' = [pools EXCEPT ![req[c].name] = req[c].cidr]
  /\ req' = Stale([req EXCEPT ![c] = IdleRequest], req[c].name)
  /\ lapses' = IF Overtakes(c) THEN lapses \cup {"overtaken"} ELSE lapses

Refuse(c) ==
  req[c].pc = "writing" /\ ~Writable(c) /\ Finish(c) /\ UNCHANGED lapses

\* No webhook is called for a delete.
Delete(name) ==
  /\ pools[name] # None
  /\ pools' = [pools EXCEPT ![name] = None]
  /\ req' = Stale(req, name)
  /\ UNCHANGED lapses

Next ==
  \/ \E c \in Client :
       Submit(c) \/ Validate(c) \/ SkipValidator(c) \/ Write(c) \/ Refuse(c)
  \/ \E name \in Name : Delete(name)

Spec == Init /\ [][Next]_vars

-----------------------------------------------------------------------------
(* Properties.                                                             *)

Disjoint(n1, n2) == n1.addrs \cap n2.addrs = {}

\* No stored pool overlaps a network of the installation, however requests
\* interleave and even when the list of pools cannot be fetched, unless a
\* validating call has been skipped.
ReservedUntouched ==
  "skipValidator" \notin lapses => \A name \in Name :
    pools[name] # None =>
      pools[name] # Malformed /\ \A net \in Reserved : Disjoint(pools[name], net)

\* No two stored pools share an address, unless the list could not be fetched,
\* a validating call was skipped, or another pool was written after the
\* validator had listed them.
PoolsDisjoint ==
  lapses = {} => \A name, other \in Name :
    name # other /\ pools[name] # None /\ pools[other] # None =>
      Disjoint(pools[name], pools[other])

\* A pool that keeps its address range, or only shrinks it, can always be
\* updated: the stored pools never make the validator deny their own owner,
\* unless one of the three lapses has let in a pool that overlaps.
OwnRangeAllowed ==
  lapses = {} => \A name \in Name : \A cidr \in UserCIDRs \ {Malformed} :
    pools[name] # None /\ cidr.addrs \subseteq pools[name].addrs =>
      NetworkPoolAllowed(cidr, Others(name))

\* The validator, which answers before the write and from a list, keeps the
\* promise of AddressPlan about the moment of the write: as long as there is
\* no lapse, every pool fits all others when it is written; until a validating
\* call is skipped, it fits the networks of the installation.
Plan == INSTANCE AddressPlan WITH
  trust <- IF lapses = {} THEN "all"
           ELSE IF "skipValidator" \notin lapses THEN "reserved" ELSE "none"
KeepsAddressPlan == Plan!Spec
=============================================================================
