----------------------------- MODULE MCCreation -----------------------------
(***************************************************************************)
(* Instances of Creation for TLC.                                          *)
(***************************************************************************)
EXTENDS Creation, TLC

\* A manifest that leaves out what it may.
Bare == [release |-> None, operator |-> None, infraRef |-> FALSE, zones |-> FALSE, id |-> "a"]
Released == [Bare EXCEPT !.release = 190]
Complete == [release |-> 190, operator |-> 190, infraRef |-> TRUE, zones |-> TRUE, id |-> "a"]
Referring == [Bare EXCEPT !.infraRef = TRUE]
Zoned == [Bare EXCEPT !.zones = TRUE]
Foreign == [Bare EXCEPT !.release = 250, !.id = "b"]

\* All six in any order; nothing is set but what the G8sControlPlane needs.
Orders ==
  {[manifest |-> (Cluster :> cluster) @@ (AWSCluster :> Bare) @@ (G8s :> g8s) @@ (AWS :> Bare)
                   @@ (MD :> md) @@ (AWSMD :> awsmd),
    meanwhile |-> {}] :
     cluster \in {Bare, Released}, g8s \in {Referring, Released},
     md \in {Bare, Complete}, awsmd \in {Bare, Zoned}}

\* Those that copy labels from the Cluster alone, with a MachineDeployment that
\* may be of a CAPI release.
FromCluster ==
  {[manifest |-> (Cluster :> Released) @@ (G8s :> g8s) @@ (MD :> md), meanwhile |-> Happenings] :
     g8s \in {Bare, Referring}, md \in {Bare, Foreign}}

\* Those that copy from the AWSCluster too, and the two CRs of a node pool.
FromBoth ==
  {[manifest |-> (Cluster :> Released) @@ (AWSCluster :> aws) @@ (AWS :> aws)
                   @@ (MD :> md) @@ (AWSMD :> Complete), meanwhile |-> Happenings] :
     aws \in {Bare, Complete}, md \in {Complete, Foreign}}

\* All six while the Cluster is upgraded.
Upgraded ==
  {[p EXCEPT !.meanwhile = {"upgrade"}] : p \in {q \in Orders : q.manifest[Cluster] = Released}}

AllPlans == Orders \cup Upgraded \cup FromCluster \cup FromBoth
=============================================================================
