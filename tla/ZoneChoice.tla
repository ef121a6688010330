----------------------------- MODULE ZoneChoice -----------------------------
(***************************************************************************)
(* The zones a mutator may choose for the masters of a control plane.      *)
(* ControlPlane takes them to be chosen in one step; AvailabilityZonePool  *)
(* says when the code does so.                                             *)
(***************************************************************************)
EXTENDS Integers, FiniteSets

CONSTANT ValidAZs  \* the zones of the installation, numbered in their sort order

\* GetNavailabilityZones: the pool is repeated until it has n entries,
\* shuffled, cut to n and sorted.
GetNavailabilityZones(n) ==
  LET copies == (n + Cardinality(ValidAZs) - 1) \div Cardinality(ValidAZs)
  IN  {azs \in [1..n -> ValidAZs] :
         /\ \A i, j \in 1..n : i < j => azs[i] <= azs[j]
         /\ \A z \in ValidAZs : Cardinality({i \in 1..n : azs[i] = z}) <= copies}

\* Mutant: the zone of the running master may be drawn again.
GetHAavailabilityZonesAgain(first) ==
  {<<first, p[1], p[2]>> : p \in {q \in ValidAZs \X ValidAZs :
                                    Cardinality(ValidAZs) >= 3 => q[1] # q[2]}}

\* getHAavailabilityZones: the zone of the running master first, then two
\* others if there are that many.
GetHAavailabilityZones(first) ==
  LET others == ValidAZs \ {first}
  IN  IF Cardinality(ValidAZs) >= 3
        THEN {<<first, p[1], p[2]>> : p \in {q \in others \X others : q[1] # q[2]}}
      ELSE IF Cardinality(ValidAZs) = 2
        THEN {<<first, p[1], p[2]>> : p \in others \X ValidAZs}
      ELSE {<<first, first, first>>}
=============================================================================
