--------------------------- MODULE ZonePoolProofs ---------------------------
(***************************************************************************)
(* Theorem about AvailabilityZonePool, for any number of goroutines and of *)
(* zones: the shared list loses no zone while no call that works on it     *)
(* overlaps another one, between any two of the loads and stores of which  *)
(* shuffling and sorting consist.                                          *)
(***************************************************************************)
EXTENDS AvailabilityZonePool, FiniteSetTheorems, TLAPS

-----------------------------------------------------------------------------
(* The invariant.                                                          *)

\* A record with the fields of a call.
IsCall(r) ==
  r = [pc |-> r.pc, n |-> r.n, first |-> r.first, temp |-> r.temp, list |-> r.list,
       stage |-> r.stage, i |-> r.i, p |-> r.p, q |-> r.q, x |-> r.x, y |-> r.y,
       out |-> r.out]

Shape == call = [c \in Caller |-> call[c]] /\ \A c \in Caller : IsCall(call[c])

Active(c) == call[c].pc # "idle"

\* c works on the shared list.
Shares(c) == Active(c) /\ ~Private(c)

\* A call that works on the shared list has no company.
Alone ==
  \A c, d \in Caller : c # d /\ Active(c) /\ Active(d) => Private(c) /\ Private(d)

\* Where the loops and the two loads and stores of a swap are.
Positions(c) ==
  LET r == call[c] IN
  /\ r.pc \in {"scan", "draw", "loadP", "loadQ", "storeP", "storeQ", "answer", "done"}
  /\ r.first = NoZone => r.n \in 1..N
  /\ r.pc \in {"scan", "draw"} => r.stage = "shuffle" /\ r.i \in 1..N
  /\ r.pc \in {"loadP", "loadQ", "storeP", "storeQ"} =>
       /\ r.i \in 1..N /\ r.p \in 1..N /\ r.q \in 1..N
       /\ \/ r.stage = "shuffle"
          \/ /\ r.stage \in {"compare", "exchange"}
             /\ r.first = NoZone /\ r.i <= r.n /\ r.p = r.q + 1

\* What was loaded is still there, and once the first entry of a swap is
\* overwritten the second store is all that is missing.
Contents(c) ==
  LET r == call[c] IN
  /\ r.pc \in {"loadQ", "storeP"} => r.x = pool[r.p]
  /\ r.pc = "storeP" => r.y = pool[r.q]
  /\ r.pc = "storeQ" => r.x \in Zones /\ Range([pool EXCEPT ![r.q] = r.x]) = Zones
  /\ r.pc # "storeQ" => Range(pool) = Zones

SharedInv ==
  /\ pool \in [1..N -> Zones]
  /\ Alone
  /\ \A c \in Caller : Shares(c) => Positions(c) /\ Contents(c)
  /\ (\A c \in Caller : ~Shares(c)) => Range(pool) = Zones

PoolInv == ~disturbed => SharedInv

-----------------------------------------------------------------------------
(* Records of calls.                                                       *)

\* The value of call when only c's changes, to new.
With(c, new) == [call EXCEPT ![c] = new]

LEMMA WithShape ==
  ASSUME Shape, NEW c \in Caller, NEW new, IsCall(new)
  PROVE  /\ With(c, new)[c] = new
         /\ \A d \in Caller : d # c => With(c, new)[d] = call[d]
         /\ With(c, new) = [d \in Caller |-> With(c, new)[d]]
         /\ \A d \in Caller : IsCall(With(c, new)[d])
<1>1. call = [d \in Caller |-> call[d]] /\ \A d \in Caller : IsCall(call[d])
  BY Zenon DEF Shape
<1>2. /\ With(c, new)[c] = new
      /\ \A d \in Caller : d # c => With(c, new)[d] = call[d]
      /\ With(c, new) = [d \in Caller |-> With(c, new)[d]]
  BY <1>1, SMT DEF With
<1>3. ASSUME NEW d \in Caller PROVE IsCall(With(c, new)[d])
  <2>1. CASE d = c
    BY <1>2, <2>1, Zenon
  <2>2. CASE d # c
    <3>1. With(c, new)[d] = call[d] /\ IsCall(call[d])
      BY <1>1, <1>2, <2>2
    <3>2. QED
      BY <3>1, Zenon
  <2>3. QED
    BY <2>1, <2>2
<1>4. QED
  BY <1>2, <1>3

\* A step of c that keeps what was asked for.
Step(c) ==
  /\ Shape'
  /\ \A d \in Caller : d # c => call'[d] = call[d]
  /\ call'[c].n = call[c].n /\ call'[c].first = call[c].first

\* The zone found, the own list and the answer stay.
SameData(s, r) == s.temp = r.temp /\ s.list = r.list /\ s.out = r.out

\* One after which the loops and what was loaded are these.
Moves(c, pc, stage, i, p, q, x, y) ==
  LET s == call'[c] IN
  /\ Step(c)
  /\ s.pc = pc /\ s.stage = stage /\ s.i = i
  /\ s.p = p /\ s.q = q /\ s.x = x /\ s.y = y
Change(c, pc, stage, i, p, q, x, y) ==
  Moves(c, pc, stage, i, p, q, x, y) /\ SameData(call'[c], call[c])

\* The record r with such values.
Moved(s, r, pc, stage, i, p, q, x, y) ==
  /\ IsCall(s)
  /\ s.n = r.n /\ s.first = r.first
  /\ s.pc = pc /\ s.stage = stage /\ s.i = i
  /\ s.p = p /\ s.q = q /\ s.x = x /\ s.y = y
Becomes(s, r, pc, stage, i, p, q, x, y) ==
  Moved(s, r, pc, stage, i, p, q, x, y) /\ SameData(s, r)

LEMMA MoveLemma ==
  ASSUME Shape, NEW c \in Caller, NEW s, NEW pc, NEW stage, NEW i, NEW p, NEW q, NEW x, NEW y,
         call' = With(c, s), Moved(s, call[c], pc, stage, i, p, q, x, y)
  PROVE  Moves(c, pc, stage, i, p, q, x, y) /\ call'[c] = s
<1>1. IsCall(s)
  BY DEF Moved
<1>2. /\ call'[c] = s
      /\ \A d \in Caller : d # c => call'[d] = call[d]
      /\ call' = [d \in Caller |-> call'[d]]
      /\ \A d \in Caller : IsCall(call'[d])
  BY <1>1, WithShape
<1>3. Shape'
  BY <1>2, Zenon DEF Shape, IsCall
<1>4. QED
  BY <1>2, <1>3, Zenon DEF Moves, Step, Moved

LEMMA ChangeLemma ==
  ASSUME Shape, NEW c \in Caller, NEW s, NEW pc, NEW stage, NEW i, NEW p, NEW q, NEW x, NEW y,
         call' = With(c, s), Becomes(s, call[c], pc, stage, i, p, q, x, y)
  PROVE  Change(c, pc, stage, i, p, q, x, y)
<1>1. Moves(c, pc, stage, i, p, q, x, y) /\ call'[c] = s
  BY MoveLemma DEF Becomes
<1>2. QED
  BY <1>1 DEF Becomes, Change

LEMMA HasShape ==
  ASSUME Shape, NEW c \in Caller
  PROVE  call = [d \in Caller |-> call[d]] /\ IsCall(call[c])
BY Zenon DEF Shape

\* The records the steps leave behind.
LEMMA GoneFields ==
  ASSUME NEW r, IsCall(r), NEW pc, NEW i, NEW s,
         s = [r EXCEPT !.pc = pc, !.i = i, !.x = NoZone, !.y = NoZone]
  PROVE  Becomes(s, r, pc, r.stage, i, r.p, r.q, NoZone, NoZone)
BY Zenon DEF IsCall, Becomes, Moved, SameData

LEMMA StagedFields ==
  ASSUME NEW r, IsCall(r), NEW stage, NEW p, NEW q, NEW s,
         s = [r EXCEPT !.stage = stage, !.p = p, !.q = q]
  PROVE  Becomes(s, r, r.pc, stage, r.i, p, q, r.x, r.y)
BY Zenon DEF IsCall, Becomes, Moved, SameData

LEMMA StageFields ==
  ASSUME NEW r, IsCall(r), NEW stage, NEW s, s = [r EXCEPT !.stage = stage]
  PROVE  Becomes(s, r, r.pc, stage, r.i, r.p, r.q, r.x, r.y)
BY Zenon DEF IsCall, Becomes, Moved, SameData

LEMMA DrawnFields ==
  ASSUME NEW r, IsCall(r), NEW pc, NEW p, NEW q, NEW s,
         s = [r EXCEPT !.pc = pc, !.p = p, !.q = q]
  PROVE  Becomes(s, r, pc, r.stage, r.i, p, q, r.x, r.y)
BY Zenon DEF IsCall, Becomes, Moved, SameData

LEMMA LoadedPFields ==
  ASSUME NEW r, IsCall(r), NEW pc, NEW x, NEW s, s = [r EXCEPT !.x = x, !.pc = pc]
  PROVE  Becomes(s, r, pc, r.stage, r.i, r.p, r.q, x, r.y)
BY Zenon DEF IsCall, Becomes, Moved, SameData

LEMMA LoadedQFields ==
  ASSUME NEW r, IsCall(r), NEW pc, NEW y, NEW s, s = [r EXCEPT !.y = y, !.pc = pc]
  PROVE  Becomes(s, r, pc, r.stage, r.i, r.p, r.q, r.x, y)
BY Zenon DEF IsCall, Becomes, Moved, SameData

LEMMA PcFields ==
  ASSUME NEW r, IsCall(r), NEW pc, NEW s, s = [r EXCEPT !.pc = pc]
  PROVE  Becomes(s, r, pc, r.stage, r.i, r.p, r.q, r.x, r.y)
BY Zenon DEF IsCall, Becomes, Moved, SameData

LEMMA ListFields ==
  ASSUME NEW r, IsCall(r), NEW list, NEW s, s = [r EXCEPT !.list = list]
  PROVE  /\ Moved(s, r, r.pc, r.stage, r.i, r.p, r.q, r.x, r.y)
         /\ s.list = list /\ s.temp = r.temp /\ s.out = r.out
BY Zenon DEF IsCall, Moved

IsCopied(s, r, list, i, pc) == s = [r EXCEPT !.list = list, !.i = i, !.pc = pc]
LEMMA CopiedFields ==
  ASSUME NEW r, IsCall(r), NEW list, NEW i, NEW pc, NEW s,
         IsCopied(s, r, list, i, pc)
  PROVE  /\ Moved(s, r, pc, r.stage, i, r.p, r.q, r.x, r.y)
         /\ s.list = list /\ s.temp = r.temp /\ s.out = r.out
BY Zenon DEF IsCall, Moved, IsCopied

IsScanned(s, r, temp, i, pc) == s = [r EXCEPT !.temp = temp, !.i = i, !.pc = pc]
LEMMA ScannedFields ==
  ASSUME NEW r, IsCall(r), NEW temp, NEW i, NEW pc, NEW s,
         IsScanned(s, r, temp, i, pc)
  PROVE  /\ Moved(s, r, pc, r.stage, i, r.p, r.q, r.x, r.y)
         /\ s.temp = temp /\ s.list = r.list /\ s.out = r.out
BY Zenon DEF IsCall, Moved, IsScanned

IsAnswered(s, r, out, i, pc) == s = [r EXCEPT !.out = out, !.i = i, !.pc = pc]
LEMMA AnsweredFields ==
  ASSUME NEW r, IsCall(r), NEW out, NEW i, NEW pc, NEW s,
         IsAnswered(s, r, out, i, pc)
  PROVE  /\ Moved(s, r, pc, r.stage, i, r.p, r.q, r.x, r.y)
         /\ s.out = out /\ s.list = r.list /\ s.temp = r.temp
BY Zenon DEF IsCall, Moved, IsAnswered

LEMMA BecomesTwice ==
  ASSUME NEW r, NEW s, NEW t, NEW pc, NEW stage, NEW i, NEW p, NEW q, NEW x, NEW y,
         NEW pc2, NEW stage2, NEW i2, NEW p2, NEW q2, NEW x2, NEW y2,
         Becomes(s, r, pc, stage, i, p, q, x, y),
         Becomes(t, s, pc2, stage2, i2, p2, q2, x2, y2)
  PROVE  Becomes(t, r, pc2, stage2, i2, p2, q2, x2, y2)
BY Zenon DEF Becomes, Moved, SameData

\* A second change of c's record.
LEMMA ExceptTwice ==
  ASSUME NEW f, f = [d \in Caller |-> f[d]], NEW c \in Caller, NEW s, NEW t
  PROVE  [[f EXCEPT ![c] = s] EXCEPT ![c] = t] = [f EXCEPT ![c] = t]
OBVIOUS

LEMMA WithAgain ==
  ASSUME Shape, NEW c \in Caller, NEW s, NEW t
  PROVE  [With(c, s) EXCEPT ![c] = t] = With(c, t)
BY HasShape, ExceptTwice, Zenon DEF With

\* The same for a change of some of its fields.
StageSet(calls, c, stage) == [calls EXCEPT ![c].stage = stage]
IsStaged(t, s, stage, p, q) == t = [s EXCEPT !.stage = stage, !.p = p, !.q = q]
StageAndPairSet(calls, c, stage, p, q) ==
  [calls EXCEPT ![c].stage = stage, ![c].p = p, ![c].q = q]

LEMMA StagedAgain ==
  ASSUME Shape, NEW c \in Caller, NEW s, IsCall(s), NEW stage
  PROVE  StageSet(With(c, s), c, stage) = With(c, [s EXCEPT !.stage = stage])
<1> DEFINE calls == With(c, s)
<1>1. calls = [d \in Caller |-> calls[d]] /\ calls[c] = s
  BY WithShape
<1> HIDE DEF calls
<1> DEFINE t == [s EXCEPT !.stage = stage]
<1>2. [calls EXCEPT ![c].stage = stage] = [calls EXCEPT ![c] = t]
  BY <1>1, Zenon
<1> HIDE DEF t
<1>3. [calls EXCEPT ![c] = t] = With(c, t)
  BY WithAgain DEF calls
<1>4. QED
  BY <1>2, <1>3 DEF t, calls, StageSet

LEMMA StagedPairAgain ==
  ASSUME Shape, NEW c \in Caller, NEW s, IsCall(s), NEW stage, NEW p, NEW q,
         NEW t, IsStaged(t, s, stage, p, q)
  PROVE  StageAndPairSet(With(c, s), c, stage, p, q) = With(c, t)
<1> DEFINE calls == With(c, s)
<1>1. calls = [d \in Caller |-> calls[d]] /\ calls[c] = s
  BY WithShape
<1> HIDE DEF calls
<1>2. [calls EXCEPT ![c].stage = stage, ![c].p = p, ![c].q = q] = [calls EXCEPT ![c] = t]
  BY <1>1, Zenon DEF IsStaged
<1>3. [calls EXCEPT ![c] = t] = With(c, t)
  BY WithAgain DEF calls
<1>4. QED
  BY <1>2, <1>3 DEF calls, StageAndPairSet

LEMMA GoRecord ==
  ASSUME Shape, NEW c \in Caller, NEW pc, NEW i
  PROVE  \E s : /\ Go(c, pc, i) = With(c, s)
                /\ Becomes(s, call[c], pc, call[c].stage, i, call[c].p, call[c].q, NoZone, NoZone)
<1> DEFINE s == [call[c] EXCEPT !.pc = pc, !.i = i, !.x = NoZone, !.y = NoZone]
<1>1. Go(c, pc, i) = With(c, s)
  BY HasShape, Zenon DEF With, Go
<1>2. Becomes(s, call[c], pc, call[c].stage, i, call[c].p, call[c].q, NoZone, NoZone)
  BY HasShape, GoneFields
<1> HIDE DEF s
<1>3. QED
  BY <1>1, <1>2

LEMMA GoStagedRecord ==
  ASSUME Shape, NEW c \in Caller, NEW pc, NEW i, NEW stage, NEW p, NEW q
  PROVE  \E s : /\ [Go(c, pc, i) EXCEPT ![c].stage = stage, ![c].p = p, ![c].q = q] = With(c, s)
                /\ Becomes(s, call[c], pc, stage, i, p, q, NoZone, NoZone)
<1>1. PICK r : /\ Go(c, pc, i) = With(c, r)
               /\ Becomes(r, call[c], pc, call[c].stage, i, call[c].p, call[c].q, NoZone, NoZone)
  BY GoRecord
<1>2. IsCall(r) /\ r.pc = pc /\ r.i = i /\ r.x = NoZone /\ r.y = NoZone
  BY <1>1 DEF Becomes, Moved
<1>s. PICK s : IsStaged(s, r, stage, p, q)
  BY DEF IsStaged
<1>3. [Go(c, pc, i) EXCEPT ![c].stage = stage, ![c].p = p, ![c].q = q] = With(c, s)
  <2>1. [Go(c, pc, i) EXCEPT ![c].stage = stage, ![c].p = p, ![c].q = q]
          = StageAndPairSet(With(c, r), c, stage, p, q)
    <3>1. [Go(c, pc, i) EXCEPT ![c].stage = stage, ![c].p = p, ![c].q = q]
            = StageAndPairSet(Go(c, pc, i), c, stage, p, q)
      BY Zenon DEF StageAndPairSet
    <3>2. QED
      BY <1>1, <3>1, Zenon
  <2>2. StageAndPairSet(With(c, r), c, stage, p, q) = With(c, s)
    BY <1>2, <1>s, StagedPairAgain
  <2>3. QED
    BY <2>1, <2>2, Zenon
<1>4. Becomes(s, r, r.pc, stage, r.i, p, q, r.x, r.y)
  BY <1>2, <1>s, StagedFields DEF IsStaged
<1>5. Becomes(s, r, pc, stage, i, p, q, NoZone, NoZone)
  BY <1>2, <1>4
<1>6. Becomes(s, call[c], pc, stage, i, p, q, NoZone, NoZone)
  BY <1>1, <1>5, BecomesTwice
<1>7. QED
  BY <1>3, <1>6

LEMMA ShufflingRecord ==
  ASSUME Shape, NEW c \in Caller, NEW i
  PROVE  \E s :
    /\ Shuffling(c, i) = With(c, s)
    /\ LET r == call[c] IN
       \/ i > 1 /\ Becomes(s, r, "draw", r.stage, i, r.p, r.q, NoZone, NoZone)
       \/ /\ r.first # NoZone \/ r.n = 1
          /\ Becomes(s, r, "answer", r.stage, 1, r.p, r.q, NoZone, NoZone)
       \/ /\ r.first = NoZone /\ r.n # 1
          /\ Becomes(s, r, "loadP", "compare", 2, 2, 1, NoZone, NoZone)
<1>1. CASE i > 1
  BY <1>1, GoRecord DEF Shuffling
<1>2. CASE ~(i > 1) /\ (call[c].first # NoZone \/ call[c].n = 1)
  BY <1>2, GoRecord DEF Shuffling
<1>3. CASE ~(i > 1) /\ call[c].first = NoZone /\ call[c].n # 1
  <2>1. Shuffling(c, i) = [Go(c, "loadP", 2) EXCEPT ![c].stage = "compare", ![c].p = 2, ![c].q = 1]
    BY <1>3 DEF Shuffling
  <2>2. QED
    BY <1>3, <2>1, GoStagedRecord
<1>4. QED
  BY <1>1, <1>2, <1>3

LEMMA SortingRecord ==
  ASSUME Shape, NEW c \in Caller, NEW i
  PROVE  \E s :
    /\ Sorting(c, i) = With(c, s)
    /\ LET r == call[c] IN
       \/ /\ i > r.n
          /\ Becomes(s, r, "answer", r.stage, 1, r.p, r.q, NoZone, NoZone)
       \/ /\ ~(i > r.n)
          /\ Becomes(s, r, "loadP", "compare", i, i, i - 1, NoZone, NoZone)
<1>1. CASE i > call[c].n
  BY <1>1, GoRecord DEF Sorting
<1>2. CASE ~(i > call[c].n)
  <2>1. Sorting(c, i) = [Go(c, "loadP", i) EXCEPT ![c].stage = "compare", ![c].p = i, ![c].q = i - 1]
    BY <1>2 DEF Sorting
  <2>2. QED
    BY <1>2, <2>1, GoStagedRecord
<1>3. QED
  BY <1>1, <1>2

-----------------------------------------------------------------------------
(* What each step does to the call it belongs to.                          *)

LEMMA DrawChange ==
  ASSUME Shape, NEW c \in Caller, Draw(c)
  PROVE  \E j \in 1..call[c].i :
           Change(c, "loadP", call[c].stage, call[c].i, call[c].i, j, call[c].x, call[c].y)
<1>1. PICK j \in 1..call[c].i :
        call' = [call EXCEPT ![c].pc = "loadP", ![c].p = call[c].i, ![c].q = j]
  BY DEF Draw
<1> DEFINE s == [call[c] EXCEPT !.pc = "loadP", !.p = call[c].i, !.q = j]
<1>2. call' = With(c, s)
  BY <1>1, HasShape, Zenon DEF With
<1>3. Becomes(s, call[c], "loadP", call[c].stage, call[c].i, call[c].i, j, call[c].x, call[c].y)
  BY HasShape, DrawnFields
<1> HIDE DEF s
<1>4. QED
  BY <1>2, <1>3, ChangeLemma

LEMMA LoadPChange ==
  ASSUME Shape, NEW c \in Caller, LoadP(c)
  PROVE  LET r == call[c] IN Change(c, "loadQ", r.stage, r.i, r.p, r.q, Slice(c)[r.p], r.y)
<1> DEFINE x == Slice(c)[call[c].p]
           s == [call[c] EXCEPT !.x = x, !.pc = "loadQ"]
<1> HIDE DEF x
<1>1. call' = [call EXCEPT ![c].x = x, ![c].pc = "loadQ"]
  BY DEF LoadP, x
<1>2. call' = With(c, s)
  BY <1>1, HasShape, Zenon DEF With
<1>3. Becomes(s, call[c], "loadQ", call[c].stage, call[c].i, call[c].p, call[c].q, x, call[c].y)
  BY HasShape, LoadedPFields
<1> HIDE DEF s
<1>4. Change(c, "loadQ", call[c].stage, call[c].i, call[c].p, call[c].q, x, call[c].y)
  BY <1>2, <1>3, ChangeLemma
<1>5. QED
  BY <1>4 DEF x

LEMMA LoadQChange ==
  ASSUME Shape, NEW c \in Caller, LoadQ(c)
  PROVE  LET r == call[c] IN
         \/ /\ r.stage # "compare"
            /\ Change(c, "storeP", r.stage, r.i, r.p, r.q, r.x, Slice(c)[r.q])
         \/ /\ r.stage = "compare" /\ r.x < Slice(c)[r.q]
            /\ Change(c, "loadP", "exchange", r.i, r.p, r.q, NoZone, NoZone)
         \/ /\ r.stage = "compare" /\ ~(r.x < Slice(c)[r.q])
            /\ r.i + 1 > r.n
            /\ Change(c, "answer", r.stage, 1, r.p, r.q, NoZone, NoZone)
         \/ /\ r.stage = "compare" /\ ~(r.x < Slice(c)[r.q])
            /\ \E i : /\ i = r.i + 1 /\ ~(i > r.n)
                      /\ Change(c, "loadP", "compare", i, i, i - 1, NoZone, NoZone)
<1> DEFINE r == call[c]
           y == Slice(c)[r.q]
<1> HIDE DEF y
<1>1. CASE r.stage # "compare" /\ call' = [call EXCEPT ![c].y = y, ![c].pc = "storeP"]
  <2> DEFINE s == [call[c] EXCEPT !.y = y, !.pc = "storeP"]
  <2>1. call' = With(c, s)
    BY <1>1, HasShape, Zenon DEF With
  <2>2. Becomes(s, call[c], "storeP", r.stage, r.i, r.p, r.q, r.x, y)
    BY HasShape, LoadedQFields
  <2> HIDE DEF s
  <2>3. Change(c, "storeP", r.stage, r.i, r.p, r.q, r.x, y)
    BY <2>1, <2>2, ChangeLemma
  <2>4. QED
    BY <1>1, <2>3 DEF y
<1>2. CASE /\ r.stage = "compare" /\ r.x < y
           /\ call' = [Go(c, "loadP", call[c].i) EXCEPT ![c].stage = "exchange"]
  <2>1. PICK t : /\ Go(c, "loadP", r.i) = With(c, t)
                 /\ Becomes(t, r, "loadP", r.stage, r.i, r.p, r.q, NoZone, NoZone)
    BY GoRecord
  <2>2. /\ IsCall(t) /\ t.pc = "loadP" /\ t.i = r.i /\ t.p = r.p /\ t.q = r.q
        /\ t.x = NoZone /\ t.y = NoZone
    BY <2>1 DEF Becomes, Moved
  <2> DEFINE s == [t EXCEPT !.stage = "exchange"]
  <2>3. call' = With(c, s)
    <3>1. call' = StageSet(With(c, t), c, "exchange")
      BY <1>2, <2>1, Zenon DEF StageSet
    <3>2. QED
      BY <2>2, <3>1, StagedAgain
  <2>4. Becomes(s, t, t.pc, "exchange", t.i, t.p, t.q, t.x, t.y)
    BY <2>2, StageFields
  <2> HIDE DEF s
  <2>5. Becomes(s, r, "loadP", "exchange", r.i, r.p, r.q, NoZone, NoZone)
    BY <2>1, <2>2, <2>4, BecomesTwice
  <2>6. Change(c, "loadP", "exchange", r.i, r.p, r.q, NoZone, NoZone)
    BY <2>3, <2>5, ChangeLemma
  <2>7. QED
    BY <1>2, <2>6 DEF y
<1>3. CASE r.stage = "compare" /\ ~(r.x < y) /\ call' = Sorting(c, r.i + 1)
  <2> PICK i : i = r.i + 1
    OBVIOUS
  <2>1. PICK s :
          /\ Sorting(c, i) = With(c, s)
          /\ \/ /\ i > r.n
                /\ Becomes(s, r, "answer", r.stage, 1, r.p, r.q, NoZone, NoZone)
             \/ /\ ~(i > r.n)
                /\ Becomes(s, r, "loadP", "compare", i, i, i - 1, NoZone, NoZone)
    BY SortingRecord
  <2>2. call' = With(c, s)
    BY <1>3, <2>1
  <2>3. CASE i > r.n /\ Becomes(s, r, "answer", r.stage, 1, r.p, r.q, NoZone, NoZone)
    <3>1. Change(c, "answer", r.stage, 1, r.p, r.q, NoZone, NoZone)
      BY <2>2, <2>3, ChangeLemma
    <3>2. QED
      BY <1>3, <2>3, <3>1 DEF y
  <2>4. CASE ~(i > r.n) /\ Becomes(s, r, "loadP", "compare", i, i, i - 1, NoZone, NoZone)
    <3>1. Change(c, "loadP", "compare", i, i, i - 1, NoZone, NoZone)
      BY <2>2, <2>4, ChangeLemma
    <3>2. QED
      BY <1>3, <2>4, <3>1 DEF y
  <2>5. QED
    BY <2>1, <2>3, <2>4
<1>4. QED
  BY <1>1, <1>2, <1>3 DEF LoadQ, y

\* A store: into the shared list, or into the call's own.
Stored(c, k, zone) ==
  /\ pool' = IF Private(c) THEN pool ELSE [pool EXCEPT ![k] = zone]
  /\ call'[c].list = IF Private(c) THEN [call[c].list EXCEPT ![k] = zone] ELSE call[c].list
  /\ call'[c].temp = call[c].temp /\ call'[c].out = call[c].out
  /\ UNCHANGED disturbed

LEMMA StoreChange ==
  ASSUME Shape, NEW c \in Caller, NEW k, NEW zone, NEW calls, NEW s, Store(c, k, zone, calls),
         calls = With(c, s), NEW pc, NEW stage, NEW i, NEW p, NEW q, NEW x, NEW y,
         Becomes(s, call[c], pc, stage, i, p, q, x, y)
  PROVE  Moves(c, pc, stage, i, p, q, x, y) /\ Stored(c, k, zone)
<1>1. CASE ~Private(c)
  <2>1. call' = With(c, s)
    BY <1>1 DEF Store
  <2>2. Change(c, pc, stage, i, p, q, x, y)
    BY <2>1, ChangeLemma
  <2>3. QED
    BY <1>1, <2>2 DEF Store, Stored, Change, SameData
<1>2. CASE Private(c)
  <2>1. call' = [calls EXCEPT ![c].list[k] = zone] /\ UNCHANGED <<pool, disturbed>>
    BY <1>2, Zenon DEF Store
  <2>2. /\ IsCall(s) /\ SameData(s, call[c])
        /\ s.pc = pc /\ s.stage = stage /\ s.i = i /\ s.p = p /\ s.q = q /\ s.x = x /\ s.y = y
    BY DEF Becomes, Moved
  <2>3. calls = [d \in Caller |-> calls[d]] /\ calls[c] = s
    BY <2>2, WithShape
  <2> DEFINE list == [s.list EXCEPT ![k] = zone]
             t == [s EXCEPT !.list = list]
  <2>4. call' = [calls EXCEPT ![c] = t]
    BY <2>1, <2>3, Zenon
  <2>5. /\ Moved(t, s, s.pc, s.stage, s.i, s.p, s.q, s.x, s.y)
        /\ t.list = list /\ t.temp = s.temp /\ t.out = s.out
    <3> HIDE DEF list
    <3>1. QED
      BY <2>2, ListFields
  <2> HIDE DEF t
  <2>6. call' = With(c, t)
    BY <2>4, WithAgain
  <2>7. Moved(t, call[c], pc, stage, i, p, q, x, y)
    BY <2>2, <2>5, Zenon DEF Becomes, Moved
  <2>8. Moves(c, pc, stage, i, p, q, x, y) /\ call'[c] = t
    BY <2>6, <2>7, MoveLemma
  <2>9. Stored(c, k, zone)
    BY <1>2, <2>1, <2>2, <2>5, <2>8 DEF Stored, SameData
  <2>10. QED
    BY <2>8, <2>9
<1>3. QED
  BY <1>1, <1>2

LEMMA StorePChange ==
  ASSUME Shape, NEW c \in Caller, StoreP(c)
  PROVE  LET r == call[c] IN
         Moves(c, "storeQ", r.stage, r.i, r.p, r.q, r.x, r.y) /\ Stored(c, r.p, r.y)
<1> DEFINE r == call[c]
           s == [r EXCEPT !.pc = "storeQ"]
           calls == [call EXCEPT ![c].pc = "storeQ"]
<1>1. calls = With(c, s)
  BY HasShape, Zenon DEF With
<1>2. Becomes(s, r, "storeQ", r.stage, r.i, r.p, r.q, r.x, r.y)
  BY HasShape, PcFields
<1>3. Store(c, r.p, r.y, calls)
  BY DEF StoreP
<1> HIDE DEF s, calls
<1>4. QED
  BY <1>1, <1>2, <1>3, StoreChange

LEMMA StoreQChange ==
  ASSUME Shape, NEW c \in Caller, StoreQ(c)
  PROVE  LET r == call[c] IN
         /\ \/ /\ r.stage = "shuffle"
               /\ \/ /\ r.i - 1 > 1
                     /\ Moves(c, "draw", r.stage, r.i - 1, r.p, r.q, NoZone, NoZone)
                  \/ /\ r.first # NoZone \/ r.n = 1
                     /\ Moves(c, "answer", r.stage, 1, r.p, r.q, NoZone, NoZone)
                  \/ /\ r.first = NoZone /\ r.n # 1
                     /\ Moves(c, "loadP", "compare", 2, 2, 1, NoZone, NoZone)
            \/ /\ r.stage # "shuffle"
               /\ \/ /\ r.q > 1
                     /\ Moves(c, "loadP", "compare", r.i, r.p - 1, r.q - 1, NoZone, NoZone)
                  \/ /\ ~(r.q > 1) /\ r.i + 1 > r.n
                     /\ Moves(c, "answer", r.stage, 1, r.p, r.q, NoZone, NoZone)
                  \/ \E i : /\ i = r.i + 1 /\ ~(i > r.n) /\ ~(r.q > 1)
                            /\ Moves(c, "loadP", "compare", i, i, i - 1, NoZone, NoZone)
         /\ Stored(c, r.q, r.x)
<1> DEFINE r == call[c]
<1>1. CASE r.stage = "shuffle"
  <2>1. Store(c, r.q, r.x, Shuffling(c, r.i - 1))
    BY <1>1 DEF StoreQ
  <2>2. PICK s :
          /\ Shuffling(c, r.i - 1) = With(c, s)
          /\ \/ r.i - 1 > 1 /\ Becomes(s, r, "draw", r.stage, r.i - 1, r.p, r.q, NoZone, NoZone)
             \/ /\ r.first # NoZone \/ r.n = 1
                /\ Becomes(s, r, "answer", r.stage, 1, r.p, r.q, NoZone, NoZone)
             \/ /\ r.first = NoZone /\ r.n # 1
                /\ Becomes(s, r, "loadP", "compare", 2, 2, 1, NoZone, NoZone)
    BY ShufflingRecord
  <2> DEFINE calls == Shuffling(c, r.i - 1)
  <2>3. calls = With(c, s) /\ Store(c, r.q, r.x, calls)
    BY <2>1, <2>2
  <2> HIDE DEF calls
  <2>4. CASE r.i - 1 > 1 /\ Becomes(s, r, "draw", r.stage, r.i - 1, r.p, r.q, NoZone, NoZone)
    BY <1>1, <2>3, <2>4, StoreChange
  <2>5. CASE /\ r.first # NoZone \/ r.n = 1
             /\ Becomes(s, r, "answer", r.stage, 1, r.p, r.q, NoZone, NoZone)
    BY <1>1, <2>3, <2>5, StoreChange
  <2>6. CASE /\ r.first = NoZone /\ r.n # 1
             /\ Becomes(s, r, "loadP", "compare", 2, 2, 1, NoZone, NoZone)
    BY <1>1, <2>3, <2>6, StoreChange
  <2>7. QED
    BY <2>2, <2>4, <2>5, <2>6
<1>2. CASE r.stage # "shuffle" /\ r.q > 1
  <2> DEFINE calls == [Go(c, "loadP", r.i) EXCEPT
                         ![c].stage = "compare", ![c].p = r.p - 1, ![c].q = r.q - 1]
  <2>1. PICK t : /\ Go(c, "loadP", r.i) = With(c, t)
                 /\ Becomes(t, r, "loadP", r.stage, r.i, r.p, r.q, NoZone, NoZone)
    BY GoRecord
  <2>2. Go(c, "loadP", r.i)[c].p = r.p /\ Go(c, "loadP", r.i)[c].q = r.q
    BY <2>1, WithShape DEF Becomes, Moved
  <2>3. Store(c, r.q, r.x, calls)
    BY <1>2, <2>2 DEF StoreQ
  <2>4. PICK s : /\ calls = With(c, s)
                 /\ Becomes(s, r, "loadP", "compare", r.i, r.p - 1, r.q - 1, NoZone, NoZone)
    BY GoStagedRecord
  <2> HIDE DEF calls
  <2>5. QED
    BY <1>2, <2>3, <2>4, StoreChange
<1>3. CASE r.stage # "shuffle" /\ ~(r.q > 1)
  <2> PICK i : i = r.i + 1
    OBVIOUS
  <2>1. Store(c, r.q, r.x, Sorting(c, i))
    BY <1>3 DEF StoreQ
  <2>2. PICK s :
          /\ Sorting(c, i) = With(c, s)
          /\ \/ /\ i > r.n
                /\ Becomes(s, r, "answer", r.stage, 1, r.p, r.q, NoZone, NoZone)
             \/ /\ ~(i > r.n)
                /\ Becomes(s, r, "loadP", "compare", i, i, i - 1, NoZone, NoZone)
    BY SortingRecord
  <2> DEFINE calls == Sorting(c, i)
  <2>3. calls = With(c, s) /\ Store(c, r.q, r.x, calls)
    BY <2>1, <2>2
  <2> HIDE DEF calls
  <2>4. CASE i > r.n /\ Becomes(s, r, "answer", r.stage, 1, r.p, r.q, NoZone, NoZone)
    BY <1>3, <2>3, <2>4, StoreChange
  <2>5. CASE ~(i > r.n) /\ Becomes(s, r, "loadP", "compare", i, i, i - 1, NoZone, NoZone)
    <3>1. Moves(c, "loadP", "compare", i, i, i - 1, NoZone, NoZone) /\ Stored(c, r.q, r.x)
      BY <2>3, <2>5, StoreChange
    <3>2. QED
      BY <1>3, <2>5, <3>1
  <2>6. QED
    BY <2>2, <2>4, <2>5
<1>4. QED
  BY <1>1, <1>2, <1>3

LEMMA ScanChange ==
  ASSUME Shape, NEW c \in Caller, Scan(c)
  PROVE  LET r == call[c] IN
         /\ Moves(c, IF r.i < N THEN "scan" ELSE "draw", r.stage, IF r.i < N THEN r.i + 1 ELSE N,
                  r.p, r.q, r.x, r.y)
         /\ call'[c].temp = IF pool[r.i] # r.first THEN pool[r.i] ELSE r.temp
         /\ call'[c].list = r.list /\ call'[c].out = r.out
<1> DEFINE r == call[c]
           temp == IF pool[r.i] # r.first THEN pool[r.i] ELSE r.temp
           i == IF r.i < N THEN r.i + 1 ELSE N
           pc == IF r.i < N THEN "scan" ELSE "draw"
<1>1. call' = [call EXCEPT ![c].temp = temp, ![c].i = i, ![c].pc = pc]
  BY Zenon DEF Scan
<1> HIDE DEF temp, i, pc
<1>s. PICK s : IsScanned(s, r, temp, i, pc)
  BY DEF IsScanned
<1>2. call' = With(c, s)
  BY <1>1, <1>s, HasShape, Zenon DEF With, IsScanned
<1>3. /\ Moved(s, r, pc, r.stage, i, r.p, r.q, r.x, r.y)
      /\ s.temp = temp /\ s.list = r.list /\ s.out = r.out
  <2>1. IsCall(r)
    BY HasShape
  <2> HIDE DEF r
  <2>2. QED
    BY <1>s, <2>1, ScannedFields
<1>4. Moves(c, pc, r.stage, i, r.p, r.q, r.x, r.y) /\ call'[c] = s
  BY <1>2, <1>3, MoveLemma
<1>5. QED
  BY <1>3, <1>4 DEF pc, i, temp

LEMMA CopyChange ==
  ASSUME Shape, NEW c \in Caller, Copy(c)
  PROVE  \E list, pc :
           LET r == call[c] IN
           /\ list = Append(r.list, pool[1 + (Len(r.list) % N)])
           /\ pc = IF Len(list) % N = 0 /\ Len(list) >= r.n THEN "draw" ELSE "copy"
           /\ Moves(c, pc, r.stage, Len(list), r.p, r.q, r.x, r.y)
           /\ call'[c].list = list /\ call'[c].temp = r.temp /\ call'[c].out = r.out
<1> DEFINE r == call[c]
<1>1. PICK list, pc :
        /\ list = Append(r.list, pool[1 + (Len(r.list) % N)])
        /\ pc = IF Len(list) % N = 0 /\ Len(list) >= r.n THEN "draw" ELSE "copy"
  OBVIOUS
<1>s. PICK s : IsCopied(s, r, list, Len(list), pc)
  BY DEF IsCopied
<1>2. call' = [call EXCEPT ![c].list = list, ![c].i = Len(list), ![c].pc = pc]
  BY <1>1, Zenon DEF Copy
<1>3. call' = With(c, s)
  BY <1>2, <1>s, HasShape, Zenon DEF With, IsCopied
<1>4. /\ Moved(s, r, pc, r.stage, Len(list), r.p, r.q, r.x, r.y)
      /\ s.list = list /\ s.temp = r.temp /\ s.out = r.out
  <2>1. IsCall(r)
    BY HasShape
  <2> HIDE DEF r
  <2>2. QED
    BY <1>s, <2>1, CopiedFields
<1>5. Moves(c, pc, r.stage, Len(list), r.p, r.q, r.x, r.y) /\ call'[c] = s
  BY <1>3, <1>4, MoveLemma
<1>6. QED
  BY <1>1, <1>4, <1>5

LEMMA AnswerChange ==
  ASSUME Shape, NEW c \in Caller, Answer(c)
  PROVE  \E out, pc :
           LET r == call[c] IN
           /\ out = IF r.first # NoZone THEN <<r.first, r.temp, pool[1]>>
                    ELSE Append(r.out, Slice(c)[r.i])
           /\ pc = IF Len(out) = r.n THEN "done" ELSE "answer"
           /\ Moves(c, pc, r.stage, r.i + 1, r.p, r.q, r.x, r.y)
           /\ call'[c].out = out /\ call'[c].list = r.list /\ call'[c].temp = r.temp
<1> DEFINE r == call[c]
<1>1. PICK out, pc :
        /\ out = IF r.first # NoZone THEN <<r.first, r.temp, pool[1]>>
                 ELSE Append(r.out, Slice(c)[r.i])
        /\ pc = IF Len(out) = r.n THEN "done" ELSE "answer"
  OBVIOUS
<1> DEFINE i == r.i + 1
<1>2. call' = [call EXCEPT ![c].out = out, ![c].i = i, ![c].pc = pc]
  BY <1>1, Zenon DEF Answer
<1> HIDE DEF i
<1>s. PICK s : IsAnswered(s, r, out, i, pc)
  BY DEF IsAnswered
<1>3. call' = With(c, s)
  BY <1>2, <1>s, HasShape, Zenon DEF With, IsAnswered
<1>4. /\ Moved(s, r, pc, r.stage, i, r.p, r.q, r.x, r.y)
      /\ s.out = out /\ s.list = r.list /\ s.temp = r.temp
  <2>1. IsCall(r)
    BY HasShape
  <2> HIDE DEF r
  <2>2. QED
    BY <1>s, <2>1, AnsweredFields
<1>5. Moves(c, pc, r.stage, i, r.p, r.q, r.x, r.y) /\ call'[c] = s
  BY <1>3, <1>4, MoveLemma
<1>6. QED
  BY <1>1, <1>4, <1>5 DEF i

\* A call that starts, and one that returns.
LEMMA StartShape ==
  ASSUME Shape, NEW c \in Caller, NEW new, IsCall(new), call' = With(c, new)
  PROVE  Shape' /\ call'[c] = new /\ \A d \in Caller : d # c => call'[d] = call[d]
<1>1. /\ call'[c] = new
      /\ \A d \in Caller : d # c => call'[d] = call[d]
      /\ call' = [d \in Caller |-> call'[d]]
      /\ \A d \in Caller : IsCall(call'[d])
  BY WithShape
<1>2. Shape'
  BY <1>1, Zenon DEF Shape, IsCall
<1>3. QED
  BY <1>1, <1>2

LEMMA IdleFields ==
  /\ IsCall(IdleCall) /\ IdleCall.pc = "idle"
  /\ IdleCall.first = NoZone /\ IdleCall.stage = "shuffle" /\ IdleCall.n = 0
  /\ IdleCall.temp = NoZone /\ IdleCall.list = << >> /\ IdleCall.out = << >>
BY DEF IsCall, IdleCall

\* The records with which calls start.
IsDefault(s, r, n, i, pc) == s = [r EXCEPT !.n = n, !.i = i, !.pc = pc]
IsScaleUp(s, r, first, n, i, pc) ==
  s = [r EXCEPT !.first = first, !.n = n, !.i = i, !.pc = pc]

LEMMA StartDefaultFields ==
  ASSUME NEW r, IsCall(r), NEW n, NEW i, NEW pc, NEW s, IsDefault(s, r, n, i, pc)
  PROVE  /\ IsCall(s) /\ s.n = n /\ s.first = r.first
         /\ s.i = i /\ s.stage = r.stage /\ s.pc = pc /\ SameData(s, r)
BY Zenon DEF IsCall, IsDefault, SameData

LEMMA StartScaleUpFields ==
  ASSUME NEW r, IsCall(r), NEW first, NEW n, NEW i, NEW pc, NEW s,
         IsScaleUp(s, r, first, n, i, pc)
  PROVE  /\ IsCall(s) /\ s.first = first /\ s.n = n
         /\ s.i = i /\ s.stage = r.stage /\ s.pc = pc /\ SameData(s, r)
BY Zenon DEF IsCall, IsScaleUp, SameData

\* A call c starts with the record new, and nothing was disturbed so far.
Starts(c, new) ==
  /\ call[c].pc = "idle"
  /\ Shape'
  /\ call'[c] = new
  /\ \A d \in Caller : d # c => call'[d] = call[d]
  /\ disturbed' = (disturbed \/ \E d \in Caller \ {c} :
                      call[d].pc # "idle" /\ ~(Private(c)' /\ Private(d)))
  /\ pool' = pool

LEMMA StartDefaultChange ==
  ASSUME Shape, NEW c \in Caller, StartDefault(c)
  PROVE  \E n \in Counts : \E new :
           /\ Starts(c, new)
           /\ new.n = n /\ new.first = NoZone /\ new.i = N /\ new.stage = "shuffle"
           /\ new.temp = NoZone /\ new.list = << >> /\ new.out = << >>
           /\ new.pc = IF n > N THEN "copy" ELSE IF N > 1 THEN "draw" ELSE "answer"
<1>1. PICK n \in Counts :
        Start(c, [IdleCall EXCEPT !.n = n, !.i = N,
                                  !.pc = IF n > N THEN "copy"
                                         ELSE IF N > 1 THEN "draw" ELSE "answer"])
  BY DEF StartDefault
<1> DEFINE pc == IF n > N THEN "copy" ELSE IF N > 1 THEN "draw" ELSE "answer"
<1>2. PICK new : IsDefault(new, IdleCall, n, N, pc) /\ Start(c, new)
  BY <1>1 DEF IsDefault
<1> HIDE DEF pc
<1>3. /\ IsCall(new) /\ new.n = n /\ new.first = NoZone /\ new.i = N
      /\ new.stage = "shuffle" /\ new.pc = pc
      /\ new.temp = NoZone /\ new.list = << >> /\ new.out = << >>
  BY <1>2, IdleFields, StartDefaultFields DEF SameData
<1>4. call[c].pc = "idle" /\ pool' = pool
  BY DEF StartDefault
<1>5. /\ call' = With(c, new)
      /\ disturbed' = (disturbed \/ \E d \in Caller \ {c} :
                          call[d].pc # "idle" /\ ~(Private(c)' /\ Private(d)))
  BY <1>2 DEF Start, With
<1>6. Shape' /\ call'[c] = new /\ \A d \in Caller : d # c => call'[d] = call[d]
  BY <1>3, <1>5, StartShape
<1>7. Starts(c, new)
  BY <1>4, <1>5, <1>6 DEF Starts
<1>8. QED
  BY <1>3, <1>7 DEF pc

LEMMA StartScaleUpChange ==
  ASSUME Shape, NEW c \in Caller, StartScaleUp(c)
  PROVE  \E first \in FirstAZs : \E new :
           /\ Starts(c, new)
           /\ new.n = 3 /\ new.first = first
           /\ new.i = 1 /\ new.stage = "shuffle" /\ new.pc = "scan"
           /\ new.temp = NoZone /\ new.list = << >> /\ new.out = << >>
<1>1. PICK first \in FirstAZs :
        Start(c, [IdleCall EXCEPT !.first = first, !.n = 3, !.i = 1, !.pc = "scan"])
  BY DEF StartScaleUp
<1>2. PICK new : IsScaleUp(new, IdleCall, first, 3, 1, "scan") /\ Start(c, new)
  BY <1>1 DEF IsScaleUp
<1>3. /\ IsCall(new) /\ new.first = first /\ new.i = 1
      /\ new.stage = "shuffle" /\ new.pc = "scan" /\ new.n = 3
      /\ new.temp = NoZone /\ new.list = << >> /\ new.out = << >>
  BY <1>2, IdleFields, StartScaleUpFields DEF SameData
<1>4. call[c].pc = "idle" /\ pool' = pool
  BY DEF StartScaleUp
<1>5. /\ call' = With(c, new)
      /\ disturbed' = (disturbed \/ \E d \in Caller \ {c} :
                          call[d].pc # "idle" /\ ~(Private(c)' /\ Private(d)))
  BY <1>2 DEF Start, With
<1>6. Shape' /\ call'[c] = new /\ \A d \in Caller : d # c => call'[d] = call[d]
  BY <1>3, <1>5, StartShape
<1>7. Starts(c, new)
  BY <1>4, <1>5, <1>6 DEF Starts
<1>8. QED
  BY <1>3, <1>7

LEMMA ReturnChange ==
  ASSUME Shape, NEW c \in Caller, Return(c)
  PROVE  /\ Shape' /\ call'[c] = IdleCall /\ call'[c].pc = "idle"
         /\ \A d \in Caller : d # c => call'[d] = call[d]
         /\ UNCHANGED <<pool, disturbed>>
<1>1. call' = With(c, IdleCall) /\ UNCHANGED <<pool, disturbed>>
  BY DEF Return, With
<1>2. QED
  BY <1>1, IdleFields, StartShape

-----------------------------------------------------------------------------
(* Shuffling and sorting exchange entries.                                 *)

LEMMA NPositive == N \in Nat /\ N >= 1
<1>1. N \in Nat
  BY ZonesAreNumbers, FS_CardinalityType DEF N
<1>2. N # 0
  BY ZonesAreNumbers, FS_EmptySet DEF N
<1>3. QED
  BY <1>1, <1>2

IsPool(f) == f \in [1..N -> Zones]

\* g is f after the swap of the entries p and q: x and y were loaded, y was
\* stored, which made h, and then x.
Swapped(g, h, f, p, q, x, y) ==
  /\ x = f[p] /\ y = f[q]
  /\ h = [f EXCEPT ![p] = y]
  /\ g = [h EXCEPT ![q] = x]

LEMMA SwapKeepsRange ==
  ASSUME NEW f, IsPool(f), NEW p \in 1..N, NEW q \in 1..N, NEW x, NEW y, NEW h, NEW g,
         Swapped(g, h, f, p, q, x, y)
  PROVE  Range(g) = Range(f)
<1>1. /\ DOMAIN g = 1..N /\ DOMAIN f = 1..N
      /\ g[p] = f[q] /\ g[q] = f[p]
      /\ \A k \in 1..N : k # p /\ k # q => g[k] = f[k]
  BY DEF Swapped, IsPool
<1>2. ASSUME NEW z \in Range(g) PROVE z \in Range(f)
  <2>1. PICK k \in 1..N : z = g[k]
    BY <1>1, <1>2 DEF Range
  <2>2. z \in {f[p], f[q], f[k]}
    BY <1>1, <2>1
  <2>3. QED
    BY <1>1, <2>2 DEF Range
<1>3. ASSUME NEW z \in Range(f) PROVE z \in Range(g)
  <2>1. PICK k \in 1..N : z = f[k]
    BY <1>1, <1>3 DEF Range
  <2>2. z \in {g[p], g[q], g[k]}
    BY <1>1, <2>1
  <2>3. QED
    BY <1>1, <2>2 DEF Range
<1>4. QED
  BY <1>2, <1>3

-----------------------------------------------------------------------------
(* Every step keeps the invariant.                                         *)

\* A step of a call that works on a list of its own.
LEMMA PrivateStep ==
  ASSUME SharedInv, NEW c \in Caller, Active(c), Private(c), Step(c), pool' = pool
  PROVE  SharedInv'
<1>1. \A d \in Caller : d # c => (Active(d)' <=> Active(d)) /\ (Private(d)' <=> Private(d))
  BY DEF Step, Active, Private
<1>2. Private(c)'
  BY DEF Step, Private
<1>3. \A d \in Caller : ~Shares(d)
  BY DEF SharedInv, Alone, Shares
<1>4. \A d \in Caller : ~Shares(d)'
  BY <1>1, <1>2, <1>3 DEF Shares
<1>5. Range(pool)' = Zones
  BY <1>3 DEF SharedInv
<1>6. Alone'
  BY <1>1, <1>2 DEF SharedInv, Alone
<1>7. QED
  BY <1>4, <1>5, <1>6 DEF SharedInv

\* One of a call that works on the shared list.
LEMMA SharedStep ==
  ASSUME SharedInv, NEW c \in Caller, Shares(c), Step(c), pool' \in [1..N -> Zones],
         Positions(c)', Contents(c)'
  PROVE  SharedInv'
<1>1. \A d \in Caller : d # c => ~Active(d) /\ ~Active(d)'
  BY DEF SharedInv, Alone, Shares, Step, Active
<1>2. Shares(c)'
  BY DEF Step, Shares, Active, Private, Positions
<1>3. Alone'
  BY <1>1 DEF Alone
<1>4. \A d \in Caller : Shares(d)' => d = c
  BY <1>1 DEF Shares
<1>5. QED
  BY <1>2, <1>3, <1>4 DEF SharedInv

LEMMA SharedDraw ==
  ASSUME Shape, SharedInv, NEW c \in Caller, Shares(c), Draw(c)
  PROVE  SharedInv'
<1>1. Positions(c) /\ Contents(c) /\ pool \in [1..N -> Zones]
  BY DEF SharedInv
<1>2. call[c].pc = "draw" /\ pool' = pool
  BY DEF Draw
<1>3. PICK j \in 1..call[c].i :
        Change(c, "loadP", call[c].stage, call[c].i, call[c].i, j, call[c].x, call[c].y)
  BY DrawChange
<1>4. j \in 1..N
  BY <1>1, <1>2, NPositive DEF Positions
<1>5. Positions(c)'
  BY <1>1, <1>2, <1>3, <1>4 DEF Positions, Change, Moves, Step
<1>6. Contents(c)'
  BY <1>1, <1>2, <1>3 DEF Contents, Change, Moves
<1>7. QED
  BY <1>1, <1>2, <1>3, <1>5, <1>6, SharedStep DEF Change, Moves

LEMMA SharedLoadP ==
  ASSUME Shape, SharedInv, NEW c \in Caller, Shares(c), LoadP(c)
  PROVE  SharedInv'
<1>1. Positions(c) /\ Contents(c) /\ pool \in [1..N -> Zones]
  BY DEF SharedInv
<1>2. call[c].pc = "loadP" /\ pool' = pool /\ Slice(c) = pool
  BY DEF LoadP, Slice, Shares
<1>3. Change(c, "loadQ", call[c].stage, call[c].i, call[c].p, call[c].q, pool[call[c].p], call[c].y)
  BY <1>2, LoadPChange
<1>4. Positions(c)'
  BY <1>1, <1>2, <1>3 DEF Positions, Change, Moves, Step
<1>5. Contents(c)'
  BY <1>1, <1>2, <1>3 DEF Contents, Change, Moves
<1>6. QED
  BY <1>1, <1>2, <1>3, <1>4, <1>5, SharedStep DEF Change, Moves

LEMMA SharedLoadQ ==
  ASSUME Shape, SharedInv, NEW c \in Caller, Shares(c), LoadQ(c)
  PROVE  SharedInv'
<1> DEFINE r == call[c]
<1>1. Positions(c) /\ Contents(c) /\ pool \in [1..N -> Zones]
  BY DEF SharedInv
<1>2. r.pc = "loadQ" /\ pool' = pool /\ Slice(c) = pool
  BY DEF LoadQ, Slice, Shares
<1>3. CASE /\ r.stage # "compare"
           /\ Change(c, "storeP", r.stage, r.i, r.p, r.q, r.x, Slice(c)[r.q])
  <2>1. Positions(c)'
    BY <1>1, <1>2, <1>3 DEF Positions, Change, Moves, Step
  <2>2. Contents(c)'
    BY <1>1, <1>2, <1>3 DEF Contents, Change, Moves
  <2>3. QED
    BY <1>1, <1>2, <1>3, <2>1, <2>2, SharedStep DEF Change, Moves
<1>4. CASE r.stage = "compare" /\ Change(c, "loadP", "exchange", r.i, r.p, r.q, NoZone, NoZone)
  <2>1. Positions(c)'
    BY <1>1, <1>2, <1>4 DEF Positions, Change, Moves, Step
  <2>2. Contents(c)'
    BY <1>1, <1>2, <1>4 DEF Contents, Change, Moves
  <2>3. QED
    BY <1>1, <1>2, <1>4, <2>1, <2>2, SharedStep DEF Change, Moves
<1>5. CASE Change(c, "answer", r.stage, 1, r.p, r.q, NoZone, NoZone)
  <2>1. Positions(c)'
    BY <1>1, <1>2, <1>5 DEF Positions, Change, Moves, Step
  <2>2. Contents(c)'
    BY <1>1, <1>2, <1>5 DEF Contents, Change, Moves
  <2>3. QED
    BY <1>1, <1>2, <1>5, <2>1, <2>2, SharedStep DEF Change, Moves
<1>6. CASE /\ r.stage = "compare"
           /\ \E i : /\ i = r.i + 1 /\ ~(i > r.n)
                     /\ Change(c, "loadP", "compare", i, i, i - 1, NoZone, NoZone)
  <2>1. PICK i : /\ i = r.i + 1 /\ ~(i > r.n)
                 /\ Change(c, "loadP", "compare", i, i, i - 1, NoZone, NoZone)
    BY <1>6
  <2>2. r.first = NoZone /\ r.n \in 1..N /\ r.i \in 1..N
    BY <1>1, <1>2, <1>6 DEF Positions
  <2>3. i \in 1..N /\ i - 1 \in 1..N /\ i <= r.n /\ i = i - 1 + 1
    BY <2>1, <2>2, NPositive
  <2>4. Positions(c)'
    BY <2>1, <2>2, <2>3 DEF Positions, Change, Moves, Step
  <2>5. Contents(c)'
    BY <1>1, <1>2, <2>1 DEF Contents, Change, Moves
  <2>6. QED
    BY <1>1, <1>2, <2>1, <2>4, <2>5, SharedStep DEF Change, Moves
<1>7. QED
  BY <1>3, <1>4, <1>5, <1>6, LoadQChange

LEMMA SharedStoreP ==
  ASSUME Shape, SharedInv, NEW c \in Caller, Shares(c), StoreP(c)
  PROVE  SharedInv'
<1> DEFINE r == call[c]
<1>1. Positions(c) /\ Contents(c) /\ pool \in [1..N -> Zones]
  BY DEF SharedInv
<1>2. r.pc = "storeP" /\ ~Private(c)
  BY DEF StoreP, Shares
<1>3. /\ Moves(c, "storeQ", r.stage, r.i, r.p, r.q, r.x, r.y)
      /\ pool' = [pool EXCEPT ![r.p] = r.y]
  BY <1>2, StorePChange DEF Stored
<1>4. /\ r.p \in 1..N /\ r.q \in 1..N
      /\ r.x = pool[r.p] /\ r.y = pool[r.q] /\ Range(pool) = Zones
  BY <1>1, <1>2 DEF Positions, Contents
<1>5. pool' \in [1..N -> Zones] /\ r.x \in Zones
  BY <1>1, <1>3, <1>4
<1>6. Range([pool' EXCEPT ![r.q] = r.x]) = Zones
  <2>1. PICK g : g = [pool' EXCEPT ![r.q] = r.x]
    OBVIOUS
  <2>2. Swapped(g, pool', pool, r.p, r.q, r.x, r.y)
    BY <1>3, <1>4, <2>1 DEF Swapped
  <2>3. IsPool(pool)
    BY <1>1 DEF IsPool
  <2>4. Range(g) = Range(pool)
    BY <1>4, <2>2, <2>3, SwapKeepsRange
  <2>5. QED
    BY <1>4, <2>1, <2>4
<1>7. Positions(c)'
  BY <1>1, <1>2, <1>3 DEF Positions, Change, Moves, Step
<1>8. Contents(c)'
  BY <1>3, <1>5, <1>6 DEF Contents, Change, Moves
<1>9. QED
  BY <1>3, <1>5, <1>7, <1>8, SharedStep DEF Change, Moves

LEMMA SharedStoreQ ==
  ASSUME Shape, SharedInv, NEW c \in Caller, Shares(c), StoreQ(c)
  PROVE  SharedInv'
<1> DEFINE r == call[c]
<1>1. Positions(c) /\ Contents(c) /\ pool \in [1..N -> Zones]
  BY DEF SharedInv
<1>2. r.pc = "storeQ" /\ ~Private(c)
  BY DEF StoreQ, Shares
<1>3. pool' = [pool EXCEPT ![r.q] = r.x]
  BY <1>2, StoreQChange DEF Stored
<1>4. /\ r.i \in 1..N /\ r.p \in 1..N /\ r.q \in 1..N
      /\ r.first = NoZone => r.n \in 1..N
      /\ r.x \in Zones
  BY <1>1, <1>2 DEF Positions, Contents
<1>5. pool' \in [1..N -> Zones] /\ Range(pool)' = Zones
  BY <1>1, <1>2, <1>3, <1>4 DEF Contents
<1>6. ASSUME NEW pc, NEW stage, NEW i, NEW p, NEW q, Moves(c, pc, stage, i, p, q, NoZone, NoZone),
             pc \in {"draw", "loadP", "answer"},
             pc = "draw" => stage = "shuffle" /\ i \in 1..N,
             pc = "loadP" => /\ r.first = NoZone /\ stage = "compare"
                             /\ i \in 1..N /\ p \in 1..N /\ q \in 1..N
                             /\ i <= r.n /\ p = q + 1
      PROVE  SharedInv'
  <2>1. Positions(c)'
    BY <1>4, <1>6 DEF Positions, Moves, Step
  <2>2. Contents(c)'
    BY <1>5, <1>6 DEF Contents, Moves
  <2>3. QED
    BY <1>5, <1>6, <2>1, <2>2, SharedStep DEF Moves
<1>7. CASE r.stage = "shuffle"
  <2>1. CASE r.i - 1 > 1 /\ Moves(c, "draw", r.stage, r.i - 1, r.p, r.q, NoZone, NoZone)
    <3>1. r.i - 1 \in 1..N
      BY <1>4, <2>1, NPositive
    <3>2. QED
      BY <1>6, <1>7, <2>1, <3>1
  <2>2. CASE Moves(c, "answer", r.stage, 1, r.p, r.q, NoZone, NoZone)
    BY <1>6, <2>2
  <2>3. CASE /\ r.first = NoZone /\ r.n # 1
             /\ Moves(c, "loadP", "compare", 2, 2, 1, NoZone, NoZone)
    <3>1. 2 \in 1..N /\ 1 \in 1..N /\ 2 <= r.n /\ 2 = 1 + 1
      BY <1>4, <2>3, NPositive
    <3>2. QED
      BY <1>6, <2>3, <3>1
  <2>4. QED
    BY <1>7, <2>1, <2>2, <2>3, StoreQChange
<1>8. CASE r.stage # "shuffle"
  <2>1. r.first = NoZone /\ r.n \in 1..N /\ r.i <= r.n /\ r.p = r.q + 1
    BY <1>1, <1>2, <1>4, <1>8 DEF Positions
  <2>2. CASE r.q > 1 /\ Moves(c, "loadP", "compare", r.i, r.p - 1, r.q - 1, NoZone, NoZone)
    <3>1. r.p - 1 \in 1..N /\ r.q - 1 \in 1..N /\ r.p - 1 = (r.q - 1) + 1
      BY <1>4, <2>1, <2>2, NPositive
    <3>2. QED
      BY <1>4, <1>6, <2>1, <2>2, <3>1
  <2>3. CASE Moves(c, "answer", r.stage, 1, r.p, r.q, NoZone, NoZone)
    BY <1>6, <2>3
  <2>4. CASE \E i : /\ i = r.i + 1 /\ ~(i > r.n)
                    /\ Moves(c, "loadP", "compare", i, i, i - 1, NoZone, NoZone)
    <3>1. PICK i : /\ i = r.i + 1 /\ ~(i > r.n)
                   /\ Moves(c, "loadP", "compare", i, i, i - 1, NoZone, NoZone)
      BY <2>4
    <3>2. i \in 1..N /\ i - 1 \in 1..N /\ i <= r.n /\ i = (i - 1) + 1
      BY <1>4, <2>1, <3>1, NPositive
    <3>3. QED
      BY <1>6, <2>1, <3>1, <3>2
  <2>5. QED
    BY <1>8, <2>2, <2>3, <2>4, StoreQChange
<1>9. QED
  BY <1>7, <1>8

LEMMA SharedScan ==
  ASSUME Shape, SharedInv, NEW c \in Caller, Shares(c), Scan(c)
  PROVE  SharedInv'
<1> DEFINE r == call[c]
<1>1. Positions(c) /\ Contents(c) /\ pool \in [1..N -> Zones]
  BY DEF SharedInv
<1>2. r.pc = "scan" /\ pool' = pool
  BY DEF Scan
<1>3. PICK pc, i : /\ pc = IF r.i < N THEN "scan" ELSE "draw"
                   /\ i = IF r.i < N THEN r.i + 1 ELSE N
                   /\ Moves(c, pc, r.stage, i, r.p, r.q, r.x, r.y)
  BY ScanChange
<1>4. i \in 1..N /\ pc \in {"scan", "draw"} /\ r.stage = "shuffle"
  BY <1>1, <1>2, <1>3, NPositive DEF Positions
<1>5. Positions(c)'
  BY <1>1, <1>3, <1>4 DEF Positions, Change, Moves, Step
<1>6. Contents(c)'
  BY <1>1, <1>2, <1>3, <1>4 DEF Contents, Change, Moves
<1>7. QED
  BY <1>1, <1>2, <1>3, <1>5, <1>6, SharedStep DEF Change, Moves

LEMMA SharedAnswer ==
  ASSUME Shape, SharedInv, NEW c \in Caller, Shares(c), Answer(c)
  PROVE  SharedInv'
<1>1. Positions(c) /\ Contents(c) /\ pool \in [1..N -> Zones]
  BY DEF SharedInv
<1>2. call[c].pc = "answer" /\ pool' = pool
  BY DEF Answer
<1>3. Step(c) /\ call'[c].pc \in {"answer", "done"}
  BY AnswerChange DEF Moves
<1>4. Positions(c)'
  BY <1>1, <1>3 DEF Positions, Step
<1>5. Contents(c)'
  BY <1>1, <1>2, <1>3 DEF Contents
<1>6. QED
  BY <1>1, <1>2, <1>3, <1>4, <1>5, SharedStep

LEMMA ReturnStep ==
  ASSUME Shape, SharedInv, NEW c \in Caller, Return(c)
  PROVE  SharedInv'
<1>1. /\ call'[c].pc = "idle" /\ pool' = pool
      /\ \A d \in Caller : d # c => call'[d] = call[d]
  BY ReturnChange
<1>2. call[c].pc = "done"
  BY DEF Return
<1>3. \A d \in Caller : d # c => ~Shares(d)
  BY <1>2 DEF SharedInv, Alone, Shares, Active
<1>4. \A d \in Caller : ~Shares(d)'
  BY <1>1, <1>3 DEF Shares, Active, Private
<1>5. Range(pool) = Zones
  BY <1>2, <1>3 DEF SharedInv, Contents
<1>6. Alone'
  BY <1>1 DEF SharedInv, Alone, Active, Private
<1>7. QED
  BY <1>1, <1>4, <1>5, <1>6 DEF SharedInv

\* A call starts: then nobody was working on the shared list, unless the
\* start disturbs.
LEMMA StartStep ==
  ASSUME SharedInv, NEW c \in Caller, NEW new, Starts(c, new), ~disturbed',
         \/ new.first = NoZone /\ new.n > N /\ new.pc # "idle"
         \/ /\ new.first = NoZone /\ new.n \in 1..N
            /\ new.pc \in {"draw", "answer"} /\ new.stage = "shuffle" /\ new.i = N
         \/ /\ new.first # NoZone
            /\ new.pc = "scan" /\ new.stage = "shuffle" /\ new.i = 1
  PROVE  SharedInv'
<1>1. /\ call[c].pc = "idle" /\ call'[c] = new /\ pool' = pool
      /\ \A d \in Caller : d # c => call'[d] = call[d]
      /\ \A d \in Caller : d # c /\ call[d].pc # "idle" => Private(c)' /\ Private(d)
  BY DEF Starts
<1>2. new.pc # "idle"
  OBVIOUS
<1>3. \A d \in Caller : ~Shares(d)
  BY <1>1 DEF Shares, Active
<1>4. Range(pool) = Zones /\ pool \in [1..N -> Zones]
  BY <1>3 DEF SharedInv
<1>5. \A d \in Caller : d # c => ~Shares(d)' /\ (Active(d)' <=> Active(d)) /\ (Private(d)' <=> Private(d))
  BY <1>1, <1>3 DEF Shares, Active, Private
<1>6. Alone'
  BY <1>1, <1>5 DEF SharedInv, Alone, Active
<1>7. Shares(c)' => Positions(c)' /\ Contents(c)'
  <2>1. SUFFICES ASSUME Shares(c)' PROVE Positions(c)' /\ Contents(c)'
    OBVIOUS
  <2>2. ~(new.first = NoZone /\ new.n > N)
    BY <1>1, <2>1 DEF Shares, Private
  <2>3. /\ new.pc \in {"scan", "draw", "answer"} /\ new.stage = "shuffle" /\ new.i \in 1..N
        /\ new.first = NoZone => new.n \in 1..N
    BY <2>2, NPositive
  <2>4. Positions(c)'
    BY <1>1, <2>3, NPositive DEF Positions
  <2>5. Contents(c)'
    BY <1>1, <1>4, <2>3 DEF Contents
  <2>6. QED
    BY <2>4, <2>5
<1>8. QED
  BY <1>1, <1>4, <1>5, <1>6, <1>7 DEF SharedInv

LEMMA StartDefaultStep ==
  ASSUME Shape, SharedInv, NEW c \in Caller, StartDefault(c), ~disturbed'
  PROVE  SharedInv'
<1>0. PICK n \in Counts : \E new :
        /\ Starts(c, new)
        /\ new.n = n /\ new.first = NoZone /\ new.i = N /\ new.stage = "shuffle"
        /\ new.pc = IF n > N THEN "copy" ELSE IF N > 1 THEN "draw" ELSE "answer"
  BY StartDefaultChange
<1>1. PICK new :
        /\ Starts(c, new)
        /\ new.n = n /\ new.first = NoZone /\ new.i = N /\ new.stage = "shuffle"
        /\ new.pc = IF n > N THEN "copy" ELSE IF N > 1 THEN "draw" ELSE "answer"
  BY <1>0
<1>2. n \in Nat \ {0} /\ N \in Nat
  BY CountsArePositive, NPositive
<1>3. CASE n > N
  BY <1>1, <1>3, StartStep
<1>4. CASE ~(n > N)
  <2>1. n \in 1..N /\ new.pc \in {"draw", "answer"}
    BY <1>1, <1>2, <1>4
  <2>2. QED
    BY <1>1, <2>1, StartStep
<1>5. QED
  BY <1>3, <1>4

LEMMA StartScaleUpStep ==
  ASSUME Shape, SharedInv, NEW c \in Caller, StartScaleUp(c), ~disturbed'
  PROVE  SharedInv'
<1>0. PICK first \in FirstAZs : \E new :
        /\ Starts(c, new)
        /\ new.first = first /\ new.i = 1 /\ new.stage = "shuffle" /\ new.pc = "scan"
  BY StartScaleUpChange
<1>1. PICK new :
        /\ Starts(c, new)
        /\ new.first = first /\ new.i = 1 /\ new.stage = "shuffle" /\ new.pc = "scan"
  BY <1>0
<1>2. first # NoZone
  BY ScaleUpInTwoZones, NoZoneIsNoZone
<1>3. QED
  BY <1>1, <1>2, StartStep

\* The invariant is inductive.
LEMMA PoolSteps ==
  ASSUME Shape, PoolInv, [Next]_vars
  PROVE  Shape' /\ PoolInv'
<1>1. CASE UNCHANGED vars
  BY <1>1 DEF vars, Shape, IsCall, PoolInv, SharedInv, Alone, Shares, Positions, Contents,
              Active, Private
<1>2. ASSUME NEW c \in Caller, StartDefault(c) PROVE Shape' /\ PoolInv'
  BY <1>2, StartDefaultChange, StartDefaultStep DEF Starts, PoolInv
<1>3. ASSUME NEW c \in Caller, StartScaleUp(c) PROVE Shape' /\ PoolInv'
  BY <1>3, StartScaleUpChange, StartScaleUpStep DEF Starts, PoolInv
<1>4. ASSUME NEW c \in Caller, Return(c) PROVE Shape' /\ PoolInv'
  BY <1>4, ReturnChange, ReturnStep DEF PoolInv
<1>5. ASSUME NEW c \in Caller,
             \/ Copy(c) \/ Scan(c) \/ Draw(c) \/ LoadP(c) \/ LoadQ(c)
             \/ StoreP(c) \/ StoreQ(c) \/ Answer(c)
      PROVE  Shape' /\ PoolInv'
  <2>1. Active(c)
    BY <1>5 DEF Active, Copy, Scan, Draw, LoadP, LoadQ, StoreP, StoreQ, Answer
  <2>2. Step(c)
    BY <1>5, CopyChange, ScanChange, DrawChange, LoadPChange, LoadQChange, StorePChange,
       StoreQChange, AnswerChange DEF Change, Moves
  <2>3. disturbed' = disturbed
    BY <1>5, StorePChange, StoreQChange DEF Stored, Copy, Scan, Draw, LoadP, LoadQ, Answer
  <2>4. ASSUME Private(c) PROVE pool' = pool
    BY <1>5, <2>4, StorePChange, StoreQChange DEF Stored, Copy, Scan, Draw, LoadP, LoadQ, Answer
  <2>5. ASSUME SharedInv, Shares(c) PROVE SharedInv'
    <3>1. ~Copy(c)
      BY <2>5 DEF SharedInv, Positions, Copy
    <3>2. QED
      BY <1>5, <2>5, <3>1, SharedScan, SharedDraw, SharedLoadP, SharedLoadQ, SharedStoreP,
         SharedStoreQ, SharedAnswer
  <2>6. ASSUME SharedInv PROVE SharedInv'
    BY <2>1, <2>2, <2>4, <2>5, <2>6, PrivateStep DEF Shares
  <2>7. QED
    BY <2>2, <2>3, <2>6 DEF Step, PoolInv
<1>6. QED
  BY <1>1, <1>2, <1>3, <1>4, <1>5 DEF Next

LEMMA PoolInit ==
  ASSUME Init
  PROVE  Shape /\ PoolInv
<1>1. \A c \in Caller : call[c] = IdleCall
  BY DEF Init
<1>2. Shape
  BY <1>1, IdleFields DEF Init, Shape
<1>3. \A c \in Caller : ~Active(c)
  BY <1>1, IdleFields DEF Active
<1>4. SharedInv
  BY <1>3 DEF Init, SharedInv, Alone, Shares
<1>5. QED
  BY <1>2, <1>4 DEF PoolInv

(***************************************************************************)
(* THEOREM: between calls the shared list has every zone of the            *)
(* installation, until a call that works on it overlaps another one: the   *)
(* in-place shuffle and insertion sort of GetNavailabilityZones and        *)
(* getHAavailabilityZones lose no zone in any of their loads and stores,   *)
(* for any zones, counts and number of goroutines.                         *)
(***************************************************************************)
THEOREM PoolKeepsItsZones == Spec => []PoolKeepsZones
<1>1. Shape /\ PoolInv => PoolKeepsZones
  BY DEF PoolInv, SharedInv, PoolKeepsZones, PoolHasZones, Shares, Active
<1>2. Init => Shape /\ PoolInv
  BY PoolInit
<1>3. Shape /\ PoolInv /\ [Next]_vars => Shape' /\ PoolInv'
  BY PoolSteps
<1>4. QED
  BY <1>1, <1>2, <1>3, PTL DEF Spec
=============================================================================
