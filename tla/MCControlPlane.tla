--------------------------- MODULE MCControlPlane ---------------------------
(***************************************************************************)
(* Instances of ControlPlane for TLC.                                      *)
(***************************************************************************)
EXTENDS ControlPlane, TLC

ClientSymmetry == Permutations(Client)

G8sObj(n) == [replicas |-> n, label |-> CPName]
AWSObj(azs) == [azs |-> azs, label |-> CPName]
Pair(g8s, awscp) == (G8s :> g8s) @@ (AWS :> awscp)

\* Nothing is stored yet.
EmptyStore == {Pair(None, None)}
\* A control plane with one master, the usual start of a scale-up.
SingleMaster == {Pair(G8sObj(1), AWSObj(<<1>>))}
\* A single master or an HA control plane.
SingleOrHA == {Pair(G8sObj(1), AWSObj(<<2>>)), Pair(G8sObj(3), AWSObj(<<1, 2, 3>>))}

\* The operations of clients.
Lifecycle == {<<G8s, "create">>, <<AWS, "create">>, <<G8s, "update">>,
              <<G8s, "delete">>, <<AWS, "delete">>}
ScaleOps == {<<G8s, "update">>}
ZoneOps == {<<G8s, "update">>, <<AWS, "update">>, <<AWS, "delete">>, <<AWS, "create">>}

\* Zone lists: nil, one zone, three zones, a zone in another place, a zone
\* repeated, a zone the installation does not have.
SomeZones == {<< >>, <<1>>, <<3>>, <<1, 2, 3>>, <<2, 1, 3>>, <<1, 1, 2>>, <<4>>, <<1, 2>>}
UpdateZones == {<<2>>, <<3>>, <<1, 2, 3>>, <<2, 3, 1>>, <<1, 1, 2>>}
NoZones == {<< >>}
=============================================================================
