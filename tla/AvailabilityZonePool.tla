------------------------ MODULE AvailabilityZonePool ------------------------
(***************************************************************************)
(* The list of zones of one mutator (validAvailabilityZones), as the       *)
(* goroutines that serve its requests use it.  GetNavailabilityZones and,  *)
(* with two zones, getHAavailabilityZones shuffle and sort it in place:    *)
(* `randomAZs := azs` copies no entries, unless the list must be repeated. *)
(* No lock guards the list, so every load and store of an entry is a step. *)
(* Zones have names of one length (eu-central-1a), and an entry is not     *)
(* torn: a load sees one of the zones stored there.                        *)
(*                                                                         *)
(* ControlPlane takes an answer to be any element of GetNavailabilityZones *)
(* or GetHAavailabilityZones (ZoneChoice); AnswersAsPromised says when     *)
(* that is so.                                                             *)
(***************************************************************************)
EXTENDS Integers, Sequences, FiniteSets, Functions

CONSTANTS
  Caller,    \* the goroutines that serve requests
  Zones,     \* the zones of the installation, numbered in their sort order
  Counts,    \* how many zones callers ask GetNavailabilityZones for
  FirstAZs,  \* the zones getHAavailabilityZones is called with
  NoZone     \* the empty string

ASSUME ZonesAreNumbers == IsFiniteSet(Zones) /\ Zones \subseteq Nat /\ Zones # {}
ASSUME CountsArePositive == Counts \subseteq Nat \ {0}
ASSUME NoZoneIsNoZone == NoZone \notin Zones
ASSUME ScaleUpInTwoZones ==
  FirstAZs # {} => FirstAZs \subseteq Zones /\ Cardinality(Zones) = 2

VARIABLES
  pool,  \* validAvailabilityZones
  call,  \* the call each goroutine is in
  disturbed  \* history: a call that works on the shared list overlapped another one

vars == <<pool, call, disturbed>>

N == Cardinality(Zones)

\* n: the zones asked for; first: the zone of the running master, or NoZone
\* in GetNavailabilityZones; temp: tempAZ; list: the private repeated list;
\* stage: what the loads are for; i: the loop variable; p, q, x, y: the two
\* positions at hand and what was loaded from them; out: the answer.
IdleCall == [pc |-> "idle", n |-> 0, first |-> NoZone, temp |-> NoZone, list |-> << >>,
             stage |-> "shuffle", i |-> 0, p |-> 0, q |-> 0, x |-> NoZone, y |-> NoZone,
             out |-> << >>]

\* The list a call works on: its own when the zones had to be repeated.
Private(c) == call[c].n > N /\ call[c].first = NoZone
Slice(c) == IF Private(c) THEN call[c].list ELSE pool

Init ==
  /\ pool \in {s \in [1..N -> Zones] : Range(s) = Zones}
  /\ call = [c \in Caller |-> IdleCall]
  /\ disturbed = FALSE

\* A call starts.  Two calls that work on lists of their own only read the
\* shared one, and do not disturb each other.
Start(c, started) ==
  /\ call' = [call EXCEPT ![c] = started]
  /\ disturbed' = (disturbed \/ \E d \in Caller \ {c} :
                     call[d].pc # "idle" /\ ~(Private(c)' /\ Private(d)))

\* The call goes on at pc with the loop at i.
Go(c, pc, i) ==
  [call EXCEPT ![c].pc = pc, ![c].i = i, ![c].x = NoZone, ![c].y = NoZone]

\* Mutant: the zones are not sorted.
ShufflingOnly(c, i) == IF i > 1 THEN Go(c, "draw", i) ELSE Go(c, "answer", 1)

\* Shuffling ends with i = 1; an HA call then takes the first entry, another
\* one sorts its first n entries.
Shuffling(c, i) ==
  IF i > 1 THEN Go(c, "draw", i)
  ELSE IF call[c].first # NoZone \/ call[c].n = 1 THEN Go(c, "answer", 1)
  ELSE [Go(c, "loadP", 2) EXCEPT ![c].stage = "compare", ![c].p = 2, ![c].q = 1]

\* The insertion sort takes up entry i.
Sorting(c, i) ==
  IF i > call[c].n THEN Go(c, "answer", 1)
  ELSE [Go(c, "loadP", i) EXCEPT ![c].stage = "compare", ![c].p = i, ![c].q = i - 1]

StartDefault(c) ==
  /\ call[c].pc = "idle"
  /\ \E n \in Counts :
       Start(c, [IdleCall EXCEPT !.n = n, !.i = N,
                                 !.pc = IF n > N THEN "copy"
                                        ELSE IF N > 1 THEN "draw" ELSE "answer"])
  /\ UNCHANGED pool

\* One entry of `append(randomAZs, azs...)`, repeated until there are n.
Copy(c) ==
  LET list == Append(call[c].list, pool[1 + (Len(call[c].list) % N)])
      full == Len(list) % N = 0 /\ Len(list) >= call[c].n
  IN  /\ call[c].pc = "copy"
      /\ call' = [call EXCEPT ![c].list = list, ![c].i = Len(list),
                              ![c].pc = IF full THEN "draw" ELSE "copy"]
      /\ UNCHANGED <<pool, disturbed>>

StartScaleUp(c) ==
  /\ call[c].pc = "idle"
  /\ \E first \in FirstAZs :
       Start(c, [IdleCall EXCEPT !.first = first, !.n = 3, !.i = 1, !.pc = "scan"])
  /\ UNCHANGED pool

\* One iteration of the loop that looks for the other zone.
Scan(c) ==
  LET az == pool[call[c].i] IN
  /\ call[c].pc = "scan"
  /\ call' = [call EXCEPT ![c].temp = IF az # call[c].first THEN az ELSE @,
                          ![c].i = IF @ < N THEN @ + 1 ELSE N,
                          ![c].pc = IF call[c].i < N THEN "scan" ELSE "draw"]
  /\ UNCHANGED <<pool, disturbed>>

\* rand.Shuffle swaps entry i with a random one up to i.
Draw(c) ==
  /\ call[c].pc = "draw"
  /\ \E j \in 1..call[c].i :
       call' = [call EXCEPT ![c].pc = "loadP", ![c].p = call[c].i, ![c].q = j]
  /\ UNCHANGED <<pool, disturbed>>

LoadP(c) ==
  /\ call[c].pc = "loadP"
  /\ call' = [call EXCEPT ![c].x = Slice(c)[call[c].p], ![c].pc = "loadQ"]
  /\ UNCHANGED <<pool, disturbed>>

\* The second load completes a comparison, or begins a swap.
LoadQ(c) ==
  LET y == Slice(c)[call[c].q] IN
  /\ call[c].pc = "loadQ"
  /\ call' = IF call[c].stage # "compare"
               THEN [call EXCEPT ![c].y = y, ![c].pc = "storeP"]
             ELSE IF call[c].x < y
               THEN [Go(c, "loadP", call[c].i) EXCEPT ![c].stage = "exchange"]
             ELSE Sorting(c, call[c].i + 1)
  /\ UNCHANGED <<pool, disturbed>>

\* A store to the list; calls is call as the step leaves it otherwise.
Store(c, k, zone, calls) ==
  /\ IF Private(c)
       THEN /\ call' = [calls EXCEPT ![c].list[k] = zone]
            /\ UNCHANGED pool
       ELSE /\ pool' = [pool EXCEPT ![k] = zone]
            /\ call' = calls
  /\ UNCHANGED disturbed

StoreP(c) ==
  /\ call[c].pc = "storeP"
  /\ Store(c, call[c].p, call[c].y, [call EXCEPT ![c].pc = "storeQ"])

\* Mutant: the swap forgets the entry it overwrote.
StoreQAgain(c) ==
  /\ call[c].pc = "storeQ"
  /\ Store(c, call[c].q, call[c].y,
           IF call[c].stage = "shuffle" THEN Shuffling(c, call[c].i - 1)
           ELSE Sorting(c, call[c].i + 1))

StoreQ(c) ==
  /\ call[c].pc = "storeQ"
  /\ Store(c, call[c].q, call[c].x,
           IF call[c].stage = "shuffle" THEN Shuffling(c, call[c].i - 1)
           ELSE IF call[c].q > 1
             THEN [Go(c, "loadP", call[c].i) EXCEPT
                     ![c].stage = "compare", ![c].p = @ - 1, ![c].q = @ - 1]
           ELSE Sorting(c, call[c].i + 1))

\* The answer: an HA call has three entries and loads only the last one; the
\* n entries of the other one are loaded when the patch is marshalled.
Answer(c) ==
  LET out == IF call[c].first # NoZone
               THEN <<call[c].first, call[c].temp, pool[1]>>
               ELSE Append(call[c].out, Slice(c)[call[c].i])
  IN  /\ call[c].pc = "answer"
      /\ call' = [call EXCEPT ![c].out = out, ![c].i = @ + 1,
                              ![c].pc = IF Len(out) = call[c].n THEN "done" ELSE "answer"]
      /\ UNCHANGED <<pool, disturbed>>

Return(c) ==
  /\ call[c].pc = "done"
  /\ call' = [call EXCEPT ![c] = IdleCall]
  /\ UNCHANGED <<pool, disturbed>>

Next ==
  \E c \in Caller :
    \/ StartDefault(c) \/ Copy(c) \/ StartScaleUp(c) \/ Scan(c)
    \/ Draw(c) \/ LoadP(c) \/ LoadQ(c) \/ StoreP(c) \/ StoreQ(c)
    \/ Answer(c) \/ Return(c)

Spec == Init /\ [][Next]_vars

-----------------------------------------------------------------------------
(* Properties.                                                             *)

\* Between calls the list has every zone: shuffling and sorting loses none, as
\* the comment in GetNavailabilityZones says ("We shuffle the AZs, pick the
\* first n and sort them alphabetically").
PoolHasZones == (\A c \in Caller : call[c].pc = "idle") => Range(pool) = Zones

\* The same, unless a call that works on the shared list overlapped another
\* one.
PoolKeepsZones == ~disturbed => PoolHasZones

\* Every answer is one that ControlPlane assumes, chosen by nobody but the
\* call, until a call that works on the shared list overlaps another one; calls
\* that repeat the list into one of their own may overlap.  Even then the
\* answers of GetNavailabilityZones have as many zones as were asked for, and
\* only zones of the installation.
Draws == INSTANCE ZoneDraws WITH
  ValidAZs <- Zones,
  asked <- [c \in Caller |-> [n |-> call[c].n, first |-> call[c].first]],
  answer <- [c \in Caller |-> IF call[c].pc = "done" THEN call[c].out ELSE << >>],
  calm <- ~disturbed
AnswersAsPromised == Draws!Spec
=============================================================================
