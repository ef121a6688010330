----------------------------- MODULE MCCluster -----------------------------
(***************************************************************************)
(* Instances of Cluster for TLC.                                           *)
(***************************************************************************)
EXTENDS Cluster, TLC

ClientSymmetry == Permutations(Client)

\* A Cluster of a release, with nothing special about it.
Plain(v) == [release |-> v, operator |-> v, cidr |-> None, mode |-> None,
             disableKubeProxy |-> FALSE, flux |-> FALSE, org |-> "org1",
             target |-> None, time |-> None, deleting |-> FALSE]

\* What clients write: the fields that vary.
Edits(releasesOf, cidrs, modes, orgs, targets, times, fluxes) ==
  [release : releasesOf, operator : {None}, cidr : cidrs, mode : modes,
   disableKubeProxy : {FALSE}, flux : fluxes, org : orgs, target : targets,
   time : times, deleting : {FALSE}]

AWSCluster(v) == [release |-> v, transitioned |-> TRUE, pods |-> "pods", pool |-> None]

OrgOf == [ns \in Namespace |-> IF ns = "ns1" THEN "org1" ELSE "org2"]
NoClusters == {[ns \in Namespace |-> None]}
Stored(v) == {[ns \in Namespace |-> IF ns = "ns1" THEN Plain(v) ELSE None]}
OneOf15 == Stored(150)
OneOf18 == Stored(180)
NoAWS == {[ns \in Namespace |-> None]}
AWSOf(v) == [ns \in Namespace |-> IF ns = "ns1" THEN AWSCluster(v) ELSE None]
AWSOf18 == {AWSOf(180)}
AWSOf15 == {AWSOf(150)}
AnyAWSOf18 ==
  NoAWS \cup
  {[AWSOf(180) EXCEPT !["ns1"].pods = pods, !["ns1"].pool = pool] :
     pods \in {"pods", "otherPods"}, pool \in {None, "pool"}}

\* Pod networks: the default one, one inside the network of the nodes or of a
\* NetworkPool, one inside the pods of a cluster, a malformed one.
Clashes == {<<"inIPAM", "ipam">>, <<"inPods", "pods">>, <<"inPool", "pool">>,
            <<"default", "otherPods">>}

CreateEdits == Edits({None, 160}, {None}, {None}, {None, "org1"}, {None}, {None}, {FALSE})
               \cup Edits({250}, {None}, {None}, {"org1"}, {None}, {None}, {FALSE})
               \cup Edits({150}, {None}, {None, "bogus"}, {"org2"}, {None}, {None}, {FALSE})
UpgradeEdits == Edits({180, 190, 200}, {"default"}, {None, "eni"}, {"org1"},
                      {None}, {None}, {FALSE})
\* A change of CNI, with a Kustomization or without, or of the schedule.
CNIEdits == Edits({180, 190}, {None, "default", "inPods", "inPool", "bad"}, {None, "eni"},
                  {"org1"}, {None}, {None}, {FALSE})
            \cup Edits({190}, {Empty, "default", "inIPAM"}, {None}, {"org1"}, {None}, {None}, BOOLEAN)
ScheduleEdits == Edits({180, 190}, {"default"}, {None}, {"org1"}, {None, 190, 200},
                       {None, 1, 3}, {FALSE})
CNIAndScheduleEdits == CNIEdits \cup ScheduleEdits
=============================================================================
