---------------------------- MODULE MCLifecycle ----------------------------
(***************************************************************************)
(* Instances of Lifecycle for TLC: the CRs whose webhooks look at each     *)
(* other, a few of one cluster at a time.                                  *)
(***************************************************************************)
EXTENDS Lifecycle, TLC

AWSClusterOf(release) ==
  [release |-> release, zone |-> None, credential |-> None, batch |-> None,
   alpha |-> None, unhealthy |-> None]
MasterOf(release, n, zone) == [release |-> release, id |-> "a", n |-> n, zone |-> zone]
G8sOf(n) == [release |-> 150, id |-> "a", n |-> n]
Pool(release) == [release |-> release, id |-> "a"]

\* The two CRs of a control plane with HA masters.
ControlPlanes ==
  {[manifest |-> (G8s :> G8sOf(n)) @@ (AWS :> MasterOf(150, 0, None)),
    edits |-> {"label", "zones"}, faults |-> {"skipMutator"}] : n \in {1, 3}}
    \cup {[manifest |-> (G8s :> G8sOf(1)) @@ (AWS :> MasterOf(150, 0, None)),
           edits |-> {"organization"}, faults |-> FaultKinds]}

\* An AWSCluster and its master before there were HA masters.
PreHA ==
  {[manifest |-> (AWSCluster :> AWSClusterOf(110)) @@ (AWS :> MasterOf(110, 0, None)),
    edits |-> {"upgrade", e}, faults |-> {"skipMutator", "skipValidator"}] :
     e \in {"organization", "replace"}}

\* An AWSCluster alone.
AWSClusters ==
  {[manifest |-> AWSCluster :> AWSClusterOf(110),
    edits |-> {"upgrade", "unhealthy", "secret"}, faults |-> {"skipMutator"}],
   [manifest |-> AWSCluster :> AWSClusterOf(150),
    edits |-> {"unhealthy", "batch", "replace", "secret"}, faults |-> {"skipValidator"}]}

\* A Cluster and a node pool.
NodePools ==
  {[manifest |-> (Cluster :> [release |-> None]) @@ (MD :> Pool(None)) @@
                   (AWSMD :> [id |-> "a", min |-> 1, max |-> 2]),
    edits |-> p.edits, faults |-> p.faults] :
     p \in {[edits |-> {"label", "organization"}, faults |-> {"skipMutator"}],
           [edits |-> {"scaling"}, faults |-> {"skipValidator", "readError"}]}}

Families == ControlPlanes \cup PreHA \cup AWSClusters \cup NodePools
=============================================================================
