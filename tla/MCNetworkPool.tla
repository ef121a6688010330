--------------------------- MODULE MCNetworkPool ---------------------------
(***************************************************************************)
(* Instances of NetworkPool for TLC, with addresses of 4 bits.             *)
(***************************************************************************)
EXTENDS NetworkPool, Integers, TLC

Bits == 4
Size(prefix) == 2 ^ (Bits - prefix)
Net(ip, prefix) == [ip |-> ip, addrs |-> ip .. ip + Size(prefix) - 1]

\* The blocks of every size: the bits after the prefix are clear.
AllBlocks ==
  UNION {{Net(ip, prefix) : ip \in {a \in 0 .. 2 ^ Bits - 1 : a % Size(prefix) = 0}} :
           prefix \in 0 .. Bits}

ClientSymmetry == Permutations(Client) \cup Permutations(Name)

\* A block that contains a reserved one, one that is inside a reserved one,
\* one that contains another, one beside them, and a string that is none.
SomeCIDRs == {Net(0, 1), Net(13, 4), Net(4, 2), Net(6, 3), Net(8, 3), Malformed}
\* A Docker network, a larger tenant cluster network and a service network.
Networks == {Net(0, 3), Net(12, 2), Net(11, 4)}
=============================================================================
