---------------------------- MODULE AddressPlan ----------------------------
(***************************************************************************)
(* What the NetworkPool webhook promises of the stored pools: a pool is    *)
(* only written if, at the moment it is written, it shares no address with *)
(* the networks of the installation nor with any other pool.  There are no *)
(* requests, Lists or webhooks here.                                       *)
(*                                                                         *)
(* The promise has three degrees and never gets stronger again: "all" as   *)
(* above; "reserved", where pools may overlap each other; "none".          *)
(***************************************************************************)
CONSTANTS
  Name,       \* namespaces and names of NetworkPools
  Reserved,   \* the networks of the installation
  Malformed,  \* a string that is no CIDR block
  None        \* no pool

VARIABLES
  pools,  \* [Name -> the CIDR block of the stored pool or None]
  trust   \* the degree of the promise

Degrees == {"all", "reserved", "none"}

Init ==
  /\ pools = [name \in Name |-> None]
  /\ trust = "all"

ClearOf(block, net) == block.addrs \cap net.addrs = {}

\* The block may be written for a pool at some degree of the promise.
Fits(name, block, degree) ==
  /\ degree # "none" => block # Malformed /\ \A net \in Reserved : ClearOf(block, net)
  /\ degree = "all" => \A other \in Name \ {name} :
                         pools[other] # None => ClearOf(block, pools[other])

Weaken ==
  /\ trust' \in Degrees
  /\ trust = "all" \/ (trust = "reserved" /\ trust' # "all") \/ trust' = "none"

\* One pool is written, or removed.
Put ==
  \E name \in Name :
    /\ pools' = [pools EXCEPT ![name] = pools'[name]]
    /\ pools'[name] # None => Fits(name, pools'[name], trust')

Next == Weaken /\ (UNCHANGED pools \/ Put)

Spec == Init /\ [][Next]_<<pools, trust>>
=============================================================================
