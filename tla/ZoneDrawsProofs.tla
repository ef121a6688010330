-------------------------- MODULE ZoneDrawsProofs --------------------------
(***************************************************************************)
(* Theorem about AvailabilityZonePool, for any number of goroutines and of *)
(* zones: its loads and stores implement ZoneDraws, in which an answer is  *)
(* chosen in one step.  What a list holds at any time is how often it has  *)
(* each zone, which swaps keep, and how far the insertion sort has come.   *)
(***************************************************************************)
EXTENDS ZonePoolProofs

-----------------------------------------------------------------------------
(* The invariant.                                                          *)

\* Where a zone is in a list, and a list that has each zone at most m times.
Places(f, z) == {k \in DOMAIN f : f[k] = z}
AtMost(f, m) == \A z \in Zones : Cardinality(Places(f, z)) <= m

\* How often the pool is repeated for n zones.
Copies(n) == (n + N - 1) \div N

\* The list L is t times the pool P, and then its first j entries.
Repeated(L, P, t, j) ==
  /\ t \in Nat /\ j \in 0..N-1 /\ Len(L) = t * N + j
  /\ \A z \in Zones :
       Cardinality(Places(L, z)) <= t + IF \E k \in 1..j : P[k] = z THEN 1 ELSE 0

\* The first m entries are sorted; or they are but for one, which may be less
\* than some before it.
Sorted(f, m) == \A a, b \in 1..m : a < b => f[a] <= f[b]
SortedBut(f, m, h) == \A a, b \in 1..m : a < b /\ b # h => f[a] <= f[b]

\* The list once the zone that is held is stored.
Whole(r, L) == IF r.pc = "storeQ" THEN [L EXCEPT ![r.q] = r.x] ELSE L

Asked(r) ==
  \/ r.first = NoZone /\ r.n \in Counts
  \/ r.first \in FirstAZs /\ r.n = 3

\* The loops, the positions at hand and the kinds of what was loaded, of a call
\* r that works on the list L.  Others may write to it in between.
Counters(r, L) ==
  /\ L \in Seq(Zones) /\ Asked(r)
  /\ r.pc \in {"copy", "scan", "draw", "loadP", "loadQ", "storeP", "storeQ", "answer", "done"}
  /\ r.pc # "copy" => Len(L) >= 1
  /\ r.first = NoZone /\ r.pc # "copy" => r.n <= Len(L)
  /\ r.first # NoZone => Len(L) = N
  /\ r.pc = "copy" => r.first = NoZone /\ r.n > N
  /\ r.pc = "scan" => r.first # NoZone /\ r.i \in 1..N
  /\ r.pc \in {"copy", "scan", "draw"} => r.stage = "shuffle"
  /\ r.pc = "draw" => r.i \in 1..Len(L)
  /\ r.pc \in {"loadP", "loadQ", "storeP", "storeQ"} =>
       /\ r.i \in 1..Len(L) /\ r.p \in 1..Len(L) /\ r.q \in 1..Len(L)
       /\ \/ r.stage = "shuffle"
          \/ /\ r.stage \in {"compare", "exchange"}
             /\ r.stage = "compare" => r.pc \in {"loadP", "loadQ"}
             /\ r.first = NoZone /\ r.i <= r.n /\ r.p = r.q + 1 /\ r.p <= r.i
  /\ r.pc \in {"loadQ", "storeP", "storeQ"} => r.x \in Zones
  /\ r.pc = "storeP" => r.y \in Zones
  /\ r.pc \notin {"answer", "done"} => r.out = << >>
  /\ r.pc = "answer" /\ r.first # NoZone => r.out = << >>
  /\ r.pc = "answer" /\ r.first = NoZone =>
       r.i \in 1..r.n /\ r.out \in Seq(Zones) /\ Len(r.out) = r.i - 1
  /\ r.pc = "done" => r.out # << >>

\* What the list L holds while nobody disturbs the call: each zone as often as
\* it may, and in the order to which the insertion sort has come.
Sorts(r, L) ==
  /\ r.first = NoZone /\ r.pc \notin {"copy", "done"} => AtMost(Whole(r, L), Copies(r.n))
  /\ r.pc \in {"loadQ", "storeP"} => r.x = L[r.p]
  /\ r.pc = "storeP" => r.y = L[r.q]
  /\ r.stage = "compare" /\ r.pc \in {"loadP", "loadQ"} => SortedBut(L, r.i, r.p)
  /\ r.stage = "exchange" /\ r.pc \in {"loadP", "loadQ", "storeP"} =>
       SortedBut(L, r.i, r.p) /\ L[r.p] < L[r.q]
  /\ r.stage = "exchange" /\ r.pc = "storeQ" => SortedBut(Whole(r, L), r.i, r.q)
  /\ r.first = NoZone /\ r.pc = "answer" =>
       Sorted(L, r.n) /\ \A k \in 1..r.i - 1 : r.out[k] = L[k]

\* A list of its own is the pool P again and again.
Repeats(r, L, P) ==
  r.pc = "copy" => \E t, j : Repeated(L, P, t, j) /\ t * N < r.n

\* A scale-up has found another zone than that of the running master.
Finds(r, P) ==
  r.first # NoZone =>
    \/ r.temp \in Zones \ {r.first}
    \/ r.pc = "scan" /\ \A k \in 1..r.i - 1 : P[k] = r.first

Own(c) == Counters(call[c], Slice(c))

Calm(c) ==
  Sorts(call[c], Slice(c)) /\ Repeats(call[c], Slice(c), pool) /\ Finds(call[c], pool)

DrawsInv ==
  /\ pool \in [1..N -> Zones]
  /\ \A c \in Caller : ~Active(c) => call[c].n = 0 /\ call[c].first = NoZone
  /\ \A c \in Caller : Active(c) => Own(c)
  /\ ~disturbed => \A c \in Caller : Active(c) => Calm(c)

-----------------------------------------------------------------------------
(* How often a list has each zone.                                         *)

LEMMA Times ==
  ASSUME NEW m \in Nat, NEW n \in Nat, NEW a \in Nat, m + 1 <= n
  PROVE  m * a + a <= n * a
OBVIOUS

LEMMA DivBasic ==
  ASSUME NEW a \in Nat, NEW b \in Nat, b >= 1
  PROVE  /\ a \div b \in Nat /\ a % b \in 0..b-1
         /\ a = (a \div b) * b + (a % b)
OBVIOUS

\* a is t times b, and m is left.
Divided(a, t, b, m) == t \in Nat /\ m \in 0..b-1 /\ a = t * b + m

LEMMA DivUnique ==
  ASSUME NEW b \in Nat, b >= 1, NEW a \in Nat, NEW t, NEW m, Divided(a, t, b, m)
  PROVE  a \div b = t /\ a % b = m
<1> DEFINE d == a \div b
           e == a % b
<1>0. t \in Nat /\ m \in 0..b-1 /\ a = t * b + m
  BY DEF Divided
<1>1. d \in Nat /\ e \in 0..b-1 /\ a = d * b + e
  BY DivBasic
<1> HIDE DEF d, e
<1>2. CASE t + 1 <= d
  BY <1>1, <1>0, <1>2, Times
<1>3. CASE d + 1 <= t
  BY <1>1, <1>0, <1>3, Times
<1>4. d = t
  BY <1>1, <1>0, <1>2, <1>3
<1>5. QED
  BY <1>1, <1>0, <1>4 DEF d, e

LEMMA PlacesFinite ==
  ASSUME NEW f, f \in Seq(Zones), NEW z
  PROVE  IsFiniteSet(Places(f, z)) /\ Cardinality(Places(f, z)) \in Nat
<1>1. DOMAIN f = 1..Len(f) /\ Len(f) \in Nat
  OBVIOUS
<1>2. IsFiniteSet(1..Len(f))
  BY <1>1, FS_Interval
<1>3. Places(f, z) \in SUBSET (1..Len(f))
  BY <1>1 DEF Places
<1>4. QED
  BY <1>2, <1>3, FS_Subset, FS_CardinalityType

\* A swap moves zones from one place to another.
LEMMA SwapKeepsPlaces ==
  ASSUME NEW f, f \in Seq(Zones), NEW p \in 1..Len(f), NEW q \in 1..Len(f),
         NEW x, NEW y, NEW h, NEW g, Swapped(g, h, f, p, q, x, y), NEW z
  PROVE  Cardinality(Places(g, z)) = Cardinality(Places(f, z))
<1>1. /\ DOMAIN g = 1..Len(f) /\ DOMAIN f = 1..Len(f)
      /\ g[p] = f[q] /\ g[q] = f[p]
      /\ \A k \in 1..Len(f) : k # p /\ k # q => g[k] = f[k]
  BY DEF Swapped
<1> DEFINE S == Places(f, z)
           T == Places(g, z)
<1>2. IsFiniteSet(S) /\ Cardinality(S) \in Nat
  BY PlacesFinite
<1>3. CASE f[p] = f[q] \/ z \notin {f[p], f[q]}
  <2>1. S = T
    BY <1>1, <1>3 DEF Places
  <2>2. QED
    BY <2>1
<1>4. ASSUME NEW a \in {p, q}, NEW b \in {p, q}, f[a] = z, f[b] # z
      PROVE  Cardinality(T) = Cardinality(S)
  <2>1. a \in S /\ b \notin S
    BY <1>1, <1>4 DEF Places
  <2>2. T = (S \ {a}) \cup {b}
    BY <1>1, <1>4 DEF Places
  <2> HIDE DEF S, T
  <2>3. IsFiniteSet(S \ {a}) /\ Cardinality(S \ {a}) = Cardinality(S) - 1
    BY <1>2, <2>1, FS_RemoveElement
  <2>4. Cardinality((S \ {a}) \cup {b}) = Cardinality(S \ {a}) + 1
    BY <2>1, <2>3, FS_AddElement
  <2>5. QED
    BY <1>2, <2>2, <2>3, <2>4
<1>5. QED
  BY <1>3, <1>4

Appended(g, f, w) == g = Append(f, w)

LEMMA AppendPlaces ==
  ASSUME NEW f, f \in Seq(Zones), NEW w, w \in Zones, NEW g, Appended(g, f, w), NEW z
  PROVE  /\ Cardinality(Places(f, z)) \in Nat
         /\ z = w => Cardinality(Places(g, z)) = Cardinality(Places(f, z)) + 1
         /\ z # w => Cardinality(Places(g, z)) = Cardinality(Places(f, z))
<1> DEFINE S == Places(f, z)
           T == Places(g, z)
           new == Len(f) + 1
<1>1. /\ DOMAIN f = 1..Len(f) /\ Len(f) \in Nat /\ DOMAIN g = 1..new
      /\ g[new] = w /\ \A k \in 1..Len(f) : g[k] = f[k]
  BY DEF Appended
<1>2. IsFiniteSet(S) /\ Cardinality(S) \in Nat
  BY PlacesFinite
<1>3. ASSUME z = w PROVE Cardinality(T) = Cardinality(S) + 1
  <2>1. T = S \cup {new} /\ new \notin S
    BY <1>1, <1>3 DEF Places
  <2> HIDE DEF S, T, new
  <2>2. QED
    BY <1>2, <2>1, FS_AddElement
<1>4. ASSUME z # w PROVE T = S
  BY <1>1, <1>4 DEF Places
<1>5. QED
  BY <1>2, <1>3, <1>4

\* A list that has every zone, and is as long as there are zones, has each once.
LEMMA FullIsInjective ==
  ASSUME NEW P \in [1..N -> Zones], Range(P) = Zones
  PROVE  \A a, b \in 1..N : P[a] = P[b] => a = b
<1>1. P \in Surjection(1..N, Zones)
  BY DEF Surjection, Range
<1>2. IsFiniteSet(1..N) /\ Cardinality(1..N) = N
  BY NPositive, FS_Interval
<1>3. P \in Injection(1..N, Zones)
  BY <1>1, <1>2, FS_SurjSameCardinalityImpliesInj DEF N
<1>4. QED
  BY <1>3 DEF Injection, IsInjective

LEMMA FullAtMostOnce ==
  ASSUME NEW P \in [1..N -> Zones], Range(P) = Zones
  PROVE  AtMost(P, 1)
<1> SUFFICES ASSUME NEW z \in Zones PROVE Cardinality(Places(P, z)) <= 1
  BY DEF AtMost
<1>1. PICK k \in 1..N : P[k] = z
  BY DEF Range
<1>2. Places(P, z) = {k}
  BY <1>1, FullIsInjective DEF Places
<1>3. Cardinality({k}) = 1
  BY FS_Singleton
<1>4. QED
  BY <1>2, <1>3

\* One entry more of the repeated list.
Copied(M, L, P) == M = Append(L, P[1 + (Len(L) % N)])

LEMMA CopyOne ==
  ASSUME NEW P \in [1..N -> Zones], Range(P) = Zones,
         NEW L, L \in Seq(Zones), NEW t, NEW j, Repeated(L, P, t, j),
         NEW L2, Copied(L2, L, P)
  PROVE  /\ L2 \in Seq(Zones) /\ Len(L2) = Len(L) + 1
         /\ \/ j + 1 < N /\ Repeated(L2, P, t, j + 1)
            \/ j + 1 = N /\ Repeated(L2, P, t + 1, 0)
<1>1. t \in Nat /\ j \in 0..N-1 /\ Len(L) = t * N + j /\ N \in Nat /\ N >= 1
  BY NPositive DEF Repeated
<1>2. Len(L) % N = j
  <2>1. Divided(Len(L), t, N, j)
    BY <1>1 DEF Divided
  <2>2. QED
    BY <1>1, <2>1, DivUnique
<1>3. PICK w \in Zones : 1 + j \in 1..N /\ w = P[1 + j]
  BY <1>1
<1>4. L2 = Append(L, w) /\ Appended(L2, L, w)
  BY <1>2, <1>3 DEF Appended, Copied
<1>5. L2 \in Seq(Zones) /\ Len(L2) = Len(L) + 1
  BY <1>4
<1>6. ASSUME NEW z
      PROVE  /\ Cardinality(Places(L, z)) \in Nat
             /\ z = w => Cardinality(Places(L2, z)) = Cardinality(Places(L, z)) + 1
             /\ z # w => Cardinality(Places(L2, z)) = Cardinality(Places(L, z))
  <2>1. Cardinality(Places(L, z)) \in Nat
    BY PlacesFinite
  <2>2. CASE z = w
    BY <1>4, <2>1, <2>2, AppendPlaces
  <2>3. CASE z # w
    BY <1>4, <2>1, <2>3, AppendPlaces
  <2>4. QED
    BY <2>1, <2>2, <2>3
<1>7. \A k \in 1..j : P[k] # w
  BY <1>1, <1>3, FullIsInjective
<1>8. ASSUME NEW z \in Zones
      PROVE  /\ Cardinality(Places(L, z)) <= t + 1
             /\ (\A k \in 1..j : P[k] # z) => Cardinality(Places(L, z)) <= t
  <2>1. Cardinality(Places(L, z)) <= t + IF \E k \in 1..j : P[k] = z THEN 1 ELSE 0
    BY DEF Repeated
  <2>2. CASE \E k \in 1..j : P[k] = z
    BY <2>1, <2>2
  <2>3. CASE \A k \in 1..j : P[k] # z
    <3>1. Cardinality(Places(L, z)) <= t + 0
      BY <2>1, <2>3
    <3>2. QED
      BY <1>1, <1>6, <3>1
  <2>4. QED
    BY <2>2, <2>3
<1>9. ASSUME NEW z \in Zones
      PROVE  /\ Cardinality(Places(L2, z)) <= t + 1
             /\ (\A k \in 1..j + 1 : P[k] # z) => Cardinality(Places(L2, z)) <= t
  <2>1. CASE z = w
    <3>1. Cardinality(Places(L, z)) <= t
      BY <1>7, <1>8, <2>1
    <3>2. Cardinality(Places(L2, z)) <= t + 1
      BY <1>1, <1>6, <2>1, <3>1
    <3>3. j + 1 \in 1..j + 1 /\ P[j + 1] = z
      BY <1>1, <1>3, <2>1
    <3>4. QED
      BY <3>2, <3>3
  <2>2. CASE z # w
    <3>1. (\A k \in 1..j + 1 : P[k] # z) => \A k \in 1..j : P[k] # z
      BY <1>1
    <3>2. QED
      BY <1>6, <1>8, <2>2, <3>1
  <2>3. QED
    BY <2>1, <2>2
<1>10. CASE j + 1 < N
  <2>1. \A z \in Zones : Cardinality(Places(L2, z)) \in Int
    BY <1>6
  <2>2. ASSUME NEW z \in Zones
        PROVE  Cardinality(Places(L2, z)) <= t + IF \E k \in 1..j + 1 : P[k] = z THEN 1 ELSE 0
    <3>1. CASE \E k \in 1..j + 1 : P[k] = z
      BY <1>9, <3>1
    <3>2. CASE \A k \in 1..j + 1 : P[k] # z
      <4>1. Cardinality(Places(L2, z)) <= t + 0
        BY <1>1, <1>9, <2>1, <3>2
      <4>2. QED
        BY <3>2, <4>1
    <3>3. QED
      BY <3>1, <3>2
  <2>3. Len(L2) = t * N + (j + 1) /\ j + 1 \in 0..N-1
    BY <1>1, <1>5, <1>10
  <2>4. Repeated(L2, P, t, j + 1)
    BY <1>1, <2>2, <2>3 DEF Repeated
  <2>5. QED
    BY <1>5, <1>10, <2>4
<1>11. CASE j + 1 = N
  <2>1. Len(L2) = (t + 1) * N + 0 /\ 0 \in 0..N-1 /\ t + 1 \in Nat
    BY <1>1, <1>5, <1>11
  <2>2. ASSUME NEW z \in Zones
        PROVE  Cardinality(Places(L2, z)) <= (t + 1) + IF \E k \in 1..0 : P[k] = z THEN 1 ELSE 0
    <3>1. ~(\E k \in 1..0 : P[k] = z)
      OBVIOUS
    <3>2. Cardinality(Places(L2, z)) <= (t + 1) + 0
      BY <1>1, <1>6, <1>9
    <3>3. QED
      BY <3>1, <3>2
  <2>3. Repeated(L2, P, t + 1, 0)
    BY <2>1, <2>2 DEF Repeated
  <2>4. QED
    BY <1>5, <1>11, <2>3
<1>12. QED
  BY <1>1, <1>10, <1>11

\* The list that is long enough has each zone as often as it may.
LEMMA CopiesLemma ==
  ASSUME NEW n \in Nat, NEW t \in Nat, t * N < n, n <= (t + 1) * N
  PROVE  Copies(n) = t + 1
<1>1. N \in Nat /\ N >= 1
  BY NPositive
<1> DEFINE m == n - t * N - 1
<1>2. m \in 0..N-1
  BY <1>1
<1>3. PICK a \in Nat : a = n + N - 1 /\ a = (t + 1) * N + m
  BY <1>1
<1>4. Divided(a, t + 1, N, m)
  BY <1>2, <1>3 DEF Divided
<1> HIDE DEF m
<1>5. a \div N = t + 1
  BY <1>1, <1>4, DivUnique
<1>6. QED
  BY <1>3, <1>5 DEF Copies

-----------------------------------------------------------------------------
(* The order of the entries.                                               *)

LEMMA ZoneNumbers ==
  ASSUME NEW f, f \in Seq(Zones)
  PROVE  \A k \in 1..Len(f) : f[k] \in Zones /\ f[k] \in Nat
<1>1. \A k \in 1..Len(f) : f[k] \in Zones
  OBVIOUS
<1>2. QED
  BY <1>1, ZonesAreNumbers

\* The entry that is held is not less than the one before it.
LEMMA InPlace ==
  ASSUME NEW f, f \in Seq(Zones), NEW m \in 1..Len(f), NEW p \in 1..m, NEW q \in 1..m,
         p = q + 1, SortedBut(f, m, p), ~(f[p] < f[q])
  PROVE  Sorted(f, m)
<1>1. \A k \in 1..m : f[k] \in Nat
  BY ZoneNumbers
<1>2. ASSUME NEW a \in 1..m, NEW b \in 1..m, a < b PROVE f[a] <= f[b]
  <2>1. CASE b # p
    BY <1>2, <2>1 DEF SortedBut
  <2>2. CASE b = p /\ a = q
    BY <1>1, <2>2
  <2>3. CASE b = p /\ a # q
    <3>1. a < q /\ q # p
      BY <1>2, <2>3
    <3>2. f[a] <= f[q]
      BY <3>1 DEF SortedBut
    <3>3. QED
      BY <1>1, <2>3, <3>2
  <2>4. QED
    BY <2>1, <2>2, <2>3
<1>3. QED
  BY <1>2 DEF Sorted

\* The next entry is taken up.
LEMMA TakeUp ==
  ASSUME NEW f, NEW m \in Nat, Sorted(f, m), NEW n, n = m + 1
  PROVE  SortedBut(f, n, n)
BY DEF Sorted, SortedBut

\* The first two entries, or a single one.
LEMMA NoneBefore ==
  ASSUME NEW f
  PROVE  SortedBut(f, 2, 2) /\ Sorted(f, 1)
BY DEF Sorted, SortedBut

\* The entry that is held has come to the front.
LEMMA AtTheFront ==
  ASSUME NEW f, NEW m \in Nat, SortedBut(f, m, 1)
  PROVE  Sorted(f, m)
BY DEF Sorted, SortedBut

\* The entry that is held changes places with the one before it.
LEMMA SwapKeepsOrder ==
  ASSUME NEW f, f \in Seq(Zones), NEW m \in 1..Len(f), NEW p \in 1..m, NEW q \in 1..m,
         p = q + 1, SortedBut(f, m, p), f[p] < f[q],
         NEW g, NEW h, NEW x, NEW y, Swapped(g, h, f, p, q, x, y)
  PROVE  SortedBut(g, m, q)
<1>1. \A k \in 1..m : f[k] \in Nat
  BY ZoneNumbers
<1>2. /\ g[p] = f[q] /\ g[q] = f[p]
      /\ \A k \in 1..m : k # p /\ k # q => g[k] = f[k]
  BY DEF Swapped
<1>3. ASSUME NEW a \in 1..m, NEW b \in 1..m, a < b, b # q PROVE g[a] <= g[b]
  <2>1. CASE b = p /\ a = q
    BY <1>1, <1>2, <2>1
  <2>2. CASE b = p /\ a # q
    <3>1. a < q /\ q # p /\ a # p
      BY <1>3, <2>2
    <3>2. f[a] <= f[q]
      BY <3>1 DEF SortedBut
    <3>3. QED
      BY <1>2, <2>2, <3>1, <3>2
  <2>3. CASE b # p /\ b < q
    <3>1. a # p /\ a # q
      BY <1>3, <2>3
    <3>2. f[a] <= f[b]
      BY <1>3, <2>3 DEF SortedBut
    <3>3. QED
      BY <1>2, <1>3, <2>3, <3>1, <3>2
  <2>4. CASE p < b
    <3>1. f[a] <= f[b] /\ f[p] <= f[b] /\ f[q] <= f[b]
      BY <1>3, <2>4 DEF SortedBut
    <3>2. g[a] \in {f[a], f[p], f[q]}
      BY <1>2
    <3>3. g[b] = f[b]
      BY <1>2, <1>3, <2>4
    <3>4. QED
      BY <3>1, <3>2, <3>3
  <2>5. QED
    BY <1>3, <2>1, <2>2, <2>3, <2>4
<1>4. QED
  BY <1>3 DEF SortedBut

-----------------------------------------------------------------------------
(* What one step does to a call r that works on the list L: it becomes s.  *)

\* What was asked for stays, and the loops and what was loaded are these.
Now(s, r, pc, stage, i, p, q, x, y) ==
  /\ s.n = r.n /\ s.first = r.first
  /\ s.pc = pc /\ s.stage = stage /\ s.i = i
  /\ s.p = p /\ s.q = q /\ s.x = x /\ s.y = y

LEMMA NowMoves ==
  ASSUME NEW c, NEW pc, NEW stage, NEW i, NEW p, NEW q, NEW x, NEW y,
         Moves(c, pc, stage, i, p, q, x, y)
  PROVE  Now(call'[c], call[c], pc, stage, i, p, q, x, y)
BY DEF Moves, Step, Now

LEMMA AskedFor ==
  ASSUME NEW r, Asked(r)
  PROVE  /\ r.n \in Nat \ {0}
         /\ r.first = NoZone => r.n \in Counts
         /\ r.first # NoZone =>
              r.first \in FirstAZs /\ r.first \in Zones /\ r.n = 3 /\ N = 2
<1>1. r.first \in FirstAZs => r.first \in Zones /\ N = 2
  BY ScaleUpInTwoZones DEF N
<1>2. CASE r.first = NoZone /\ r.n \in Counts
  BY <1>2, CountsArePositive
<1>3. CASE r.first \in FirstAZs /\ r.n = 3
  <2>1. r.first # NoZone
    BY <1>1, <1>3, NoZoneIsNoZone
  <2>2. QED
    BY <1>1, <1>3, <2>1
<1>4. QED
  BY <1>2, <1>3 DEF Asked

LEMMA DrawKeeps ==
  ASSUME NEW r, NEW s, NEW L, Counters(r, L), r.pc = "draw", NEW j \in 1..r.i,
         Now(s, r, "loadP", r.stage, r.i, r.i, j, r.x, r.y), s.out = r.out
  PROVE  Counters(s, L) /\ (Sorts(r, L) => Sorts(s, L))
<1>1. Counters(s, L)
  BY DEF Counters, Now, Asked
<1>2. r.stage = "shuffle"
  BY DEF Counters
<1>3. ASSUME Sorts(r, L) PROVE Sorts(s, L)
  BY <1>2, <1>3 DEF Sorts, Now, Whole
<1>4. QED
  BY <1>1, <1>3

LEMMA LoadPKeeps ==
  ASSUME NEW r, NEW s, NEW L, Counters(r, L), r.pc = "loadP",
         Now(s, r, "loadQ", r.stage, r.i, r.p, r.q, L[r.p], r.y), s.out = r.out
  PROVE  Counters(s, L) /\ (Sorts(r, L) => Sorts(s, L))
<1>1. L[r.p] \in Zones
  BY ZoneNumbers DEF Counters
<1>2. Counters(s, L)
  BY <1>1 DEF Counters, Now, Asked
<1>3. ASSUME Sorts(r, L) PROVE Sorts(s, L)
  BY <1>3 DEF Sorts, Now, Whole
<1>4. QED
  BY <1>2, <1>3

\* The second load of a swap.
LEMMA LoadQKeeps ==
  ASSUME NEW r, NEW s, NEW L, Counters(r, L), r.pc = "loadQ", r.stage # "compare",
         Now(s, r, "storeP", r.stage, r.i, r.p, r.q, r.x, L[r.q]), s.out = r.out
  PROVE  Counters(s, L) /\ (Sorts(r, L) => Sorts(s, L))
<1>1. L[r.q] \in Zones
  BY ZoneNumbers DEF Counters
<1>2. Counters(s, L)
  BY <1>1 DEF Counters, Now, Asked
<1>3. ASSUME Sorts(r, L) PROVE Sorts(s, L)
  BY <1>3 DEF Sorts, Now, Whole
<1>4. QED
  BY <1>2, <1>3

\* The one of a comparison: the two entries are to be exchanged.
LEMMA LessKeeps ==
  ASSUME NEW r, NEW s, NEW L, Counters(r, L), r.pc = "loadQ", r.stage = "compare",
         r.x < L[r.q],
         Now(s, r, "loadP", "exchange", r.i, r.p, r.q, NoZone, NoZone), s.out = r.out
  PROVE  Counters(s, L) /\ (Sorts(r, L) => Sorts(s, L))
<1>1. Counters(s, L)
  BY DEF Counters, Now, Asked
<1>2. ASSUME Sorts(r, L) PROVE Sorts(s, L)
  BY <1>2 DEF Sorts, Now, Whole
<1>3. QED
  BY <1>1, <1>2

\* The first m entries are sorted, and there is no other one, or the next one
\* is taken up.
LEMMA SortedKeeps ==
  ASSUME NEW r, NEW s, NEW L, Counters(r, L), r.pc \in {"loadQ", "storeQ"},
         r.stage # "shuffle", s.out = r.out,
         \/ /\ r.i + 1 > r.n
            /\ Now(s, r, "answer", r.stage, 1, r.p, r.q, NoZone, NoZone)
         \/ \E i : /\ i = r.i + 1 /\ ~(i > r.n)
                   /\ Now(s, r, "loadP", "compare", i, i, i - 1, NoZone, NoZone)
  PROVE  /\ Counters(s, L)
         /\ Sorted(L, r.i) /\ AtMost(L, Copies(r.n)) => Sorts(s, L)
<1>1. /\ L \in Seq(Zones) /\ Asked(r) /\ r.first = NoZone
      /\ r.n \in Nat \ {0} /\ r.i \in 1..Len(L) /\ r.i <= r.n /\ r.n <= Len(L)
      /\ r.out = << >>
  BY AskedFor DEF Counters
<1>2. CASE /\ r.i + 1 > r.n
           /\ Now(s, r, "answer", r.stage, 1, r.p, r.q, NoZone, NoZone)
  <2>1. Counters(s, L)
    BY <1>1, <1>2 DEF Counters, Now, Asked
  <2>2. r.i = r.n
    BY <1>1, <1>2
  <2>3. Sorted(L, r.i) /\ AtMost(L, Copies(r.n)) => Sorts(s, L)
    BY <1>1, <1>2, <2>2 DEF Sorts, Now, Whole
  <2>4. QED
    BY <2>1, <2>3
<1>3. ASSUME NEW i, i = r.i + 1, ~(i > r.n),
             Now(s, r, "loadP", "compare", i, i, i - 1, NoZone, NoZone)
      PROVE  /\ Counters(s, L)
             /\ Sorted(L, r.i) /\ AtMost(L, Copies(r.n)) => Sorts(s, L)
  <2>1. i \in 1..Len(L) /\ i - 1 \in 1..Len(L) /\ i <= r.n /\ i = (i - 1) + 1
    BY <1>1, <1>3
  <2>2. Counters(s, L)
    BY <1>1, <1>3, <2>1 DEF Counters, Now, Asked
  <2>3. ASSUME Sorted(L, r.i), AtMost(L, Copies(r.n)) PROVE Sorts(s, L)
    <3>1. SortedBut(L, i, i)
      BY <1>1, <1>3, <2>3, TakeUp
    <3>2. QED
      BY <1>1, <1>3, <2>3, <3>1 DEF Sorts, Now, Whole
  <2>4. QED
    BY <2>2, <2>3
<1>4. QED
  BY <1>2, <1>3

LEMMA NotLessKeeps ==
  ASSUME NEW r, NEW s, NEW L, Counters(r, L), r.pc = "loadQ", r.stage = "compare",
         ~(r.x < L[r.q]), s.out = r.out,
         \/ /\ r.i + 1 > r.n
            /\ Now(s, r, "answer", r.stage, 1, r.p, r.q, NoZone, NoZone)
         \/ \E i : /\ i = r.i + 1 /\ ~(i > r.n)
                   /\ Now(s, r, "loadP", "compare", i, i, i - 1, NoZone, NoZone)
  PROVE  Counters(s, L) /\ (Sorts(r, L) => Sorts(s, L))
<1>1. /\ L \in Seq(Zones) /\ r.first = NoZone /\ r.i \in 1..Len(L)
      /\ r.p \in 1..r.i /\ r.q \in 1..r.i /\ r.p = r.q + 1
  BY DEF Counters
<1>2. ASSUME Sorts(r, L) PROVE Sorted(L, r.i) /\ AtMost(L, Copies(r.n))
  <2>1. SortedBut(L, r.i, r.p) /\ r.x = L[r.p] /\ AtMost(L, Copies(r.n))
    BY <1>1, <1>2 DEF Sorts, Whole
  <2>2. QED
    BY <1>1, <2>1, InPlace
<1>3. QED
  BY <1>2, SortedKeeps

\* A zone is stored at the position k: the list becomes M.
IsStored(M, L, k, zone) == M = [L EXCEPT ![k] = zone]

LEMMA StorePKeeps ==
  ASSUME NEW r, NEW s, NEW L, NEW M, Counters(r, L), r.pc = "storeP",
         Now(s, r, "storeQ", r.stage, r.i, r.p, r.q, r.x, r.y), s.out = r.out,
         IsStored(M, L, r.p, r.y)
  PROVE  /\ Counters(s, M) /\ (Sorts(r, L) => Sorts(s, M))
<1>1. /\ L \in Seq(Zones) /\ r.y \in Zones /\ r.x \in Zones
      /\ r.i \in 1..Len(L) /\ r.p \in 1..Len(L) /\ r.q \in 1..Len(L)
  BY DEF Counters
<1>2. M \in Seq(Zones) /\ Len(M) = Len(L)
  BY <1>1 DEF IsStored
<1>3. Counters(s, M)
  BY <1>1, <1>2 DEF Counters, Now, Asked
<1>4. ASSUME Sorts(r, L) PROVE Sorts(s, M)
  <2>1. r.x = L[r.p] /\ r.y = L[r.q]
    BY <1>4 DEF Sorts
  <2>2. PICK g : g = [M EXCEPT ![r.q] = r.x] /\ Swapped(g, M, L, r.p, r.q, r.x, r.y)
    BY <2>1 DEF Swapped, IsStored
  <2>3. Whole(s, M) = g /\ Whole(r, L) = L
    BY <2>2 DEF Whole, Now
  <2>4. ASSUME r.first = NoZone PROVE AtMost(g, Copies(r.n))
    <3>1. AtMost(L, Copies(r.n))
      BY <1>4, <2>3, <2>4 DEF Sorts
    <3>2. QED
      BY <1>1, <2>2, <3>1, SwapKeepsPlaces DEF AtMost
  <2>5. ASSUME r.stage = "exchange" PROVE SortedBut(g, r.i, r.q)
    <3>1. /\ r.p \in 1..r.i /\ r.q \in 1..r.i /\ r.p = r.q + 1
      BY <2>5 DEF Counters
    <3>2. SortedBut(L, r.i, r.p) /\ L[r.p] < L[r.q]
      BY <1>4, <2>5 DEF Sorts
    <3>3. QED
      BY <1>1, <2>2, <3>1, <3>2, SwapKeepsOrder
  <2>6. QED
    BY <2>3, <2>4, <2>5 DEF Sorts, Now
<1>5. QED
  BY <1>3, <1>4

\* A swap ends.
LEMMA StoreQKeeps ==
  ASSUME NEW r, NEW s, NEW L, NEW M, Counters(r, L), r.pc = "storeQ",
         \/ /\ r.stage = "shuffle"
            /\ \/ /\ r.i - 1 > 1
                  /\ Now(s, r, "draw", r.stage, r.i - 1, r.p, r.q, NoZone, NoZone)
               \/ /\ r.first # NoZone \/ r.n = 1
                  /\ Now(s, r, "answer", r.stage, 1, r.p, r.q, NoZone, NoZone)
               \/ /\ r.first = NoZone /\ r.n # 1
                  /\ Now(s, r, "loadP", "compare", 2, 2, 1, NoZone, NoZone)
         \/ /\ r.stage # "shuffle"
            /\ \/ /\ r.q > 1
                  /\ Now(s, r, "loadP", "compare", r.i, r.p - 1, r.q - 1, NoZone, NoZone)
               \/ /\ ~(r.q > 1) /\ r.i + 1 > r.n
                  /\ Now(s, r, "answer", r.stage, 1, r.p, r.q, NoZone, NoZone)
               \/ \E i : /\ i = r.i + 1 /\ ~(i > r.n) /\ ~(r.q > 1)
                         /\ Now(s, r, "loadP", "compare", i, i, i - 1, NoZone, NoZone),
         s.out = r.out, IsStored(M, L, r.q, r.x)
  PROVE  /\ Counters(s, M) /\ (Sorts(r, L) => Sorts(s, M))
<1>1. /\ L \in Seq(Zones) /\ r.x \in Zones /\ Asked(r) /\ r.out = << >>
      /\ r.i \in 1..Len(L) /\ r.p \in 1..Len(L) /\ r.q \in 1..Len(L)
      /\ r.first = NoZone => r.n <= Len(L)
  BY DEF Counters
<1>2. M \in Seq(Zones) /\ Len(M) = Len(L) /\ Len(L) \in Nat /\ r.n \in Nat \ {0}
  BY <1>1, AskedFor DEF IsStored
<1>3. Sorts(r, L) => (r.first = NoZone => AtMost(M, Copies(r.n)))
  BY DEF Sorts, Whole, IsStored
<1>4. CASE /\ r.stage = "shuffle" /\ r.i - 1 > 1
           /\ Now(s, r, "draw", r.stage, r.i - 1, r.p, r.q, NoZone, NoZone)
  <2>1. r.i - 1 \in 1..Len(M)
    BY <1>1, <1>2, <1>4
  <2>2. Counters(s, M)
    BY <1>1, <1>2, <1>4, <2>1 DEF Counters, Now, Asked
  <2>3. Sorts(r, L) => Sorts(s, M)
    BY <1>3, <1>4 DEF Sorts, Now, Whole
  <2>4. QED
    BY <2>2, <2>3
<1>5. CASE /\ r.stage = "shuffle" /\ (r.first # NoZone \/ r.n = 1)
           /\ Now(s, r, "answer", r.stage, 1, r.p, r.q, NoZone, NoZone)
  <2>1. Counters(s, M)
    BY <1>1, <1>2, <1>5 DEF Counters, Now, Asked
  <2>2. Sorted(M, 1)
    BY NoneBefore
  <2>3. Sorts(r, L) => Sorts(s, M)
    BY <1>3, <1>5, <2>2 DEF Sorts, Now, Whole
  <2>4. QED
    BY <2>1, <2>3
<1>6. CASE /\ r.stage = "shuffle" /\ r.first = NoZone /\ r.n # 1
           /\ Now(s, r, "loadP", "compare", 2, 2, 1, NoZone, NoZone)
  <2>1. 2 \in 1..Len(M) /\ 1 \in 1..Len(M) /\ 2 <= r.n
    BY <1>1, <1>2, <1>6
  <2>2. Counters(s, M)
    BY <1>1, <1>2, <1>6, <2>1 DEF Counters, Now, Asked
  <2>3. SortedBut(M, 2, 2)
    BY NoneBefore
  <2>4. Sorts(r, L) => Sorts(s, M)
    BY <1>3, <1>6, <2>3 DEF Sorts, Now, Whole
  <2>5. QED
    BY <2>2, <2>4
<1>7. CASE r.stage # "shuffle"
  <2>1. /\ r.stage = "exchange" /\ r.first = NoZone /\ r.i <= r.n
        /\ r.p = r.q + 1 /\ r.p <= r.i
    BY <1>7 DEF Counters
  <2>2. Sorts(r, L) => SortedBut(M, r.i, r.q)
    BY <2>1 DEF Sorts, Whole, IsStored
  <2>3. CASE r.q > 1 /\ Now(s, r, "loadP", "compare", r.i, r.p - 1, r.q - 1, NoZone, NoZone)
    <3>1. /\ r.p - 1 = r.q /\ r.q - 1 \in 1..Len(M) /\ r.q = (r.q - 1) + 1
          /\ r.q <= r.i
      BY <1>1, <1>2, <2>1, <2>3
    <3>2. Counters(s, M)
      BY <1>1, <1>2, <2>1, <2>3, <3>1 DEF Counters, Now, Asked
    <3>3. Sorts(r, L) => Sorts(s, M)
      BY <1>3, <2>1, <2>2, <2>3, <3>1 DEF Sorts, Now, Whole
    <3>4. QED
      BY <3>2, <3>3
  <2>4. ASSUME ~(r.q > 1),
               \/ /\ r.i + 1 > r.n
                  /\ Now(s, r, "answer", r.stage, 1, r.p, r.q, NoZone, NoZone)
               \/ \E i : /\ i = r.i + 1 /\ ~(i > r.n)
                         /\ Now(s, r, "loadP", "compare", i, i, i - 1, NoZone, NoZone)
        PROVE  Counters(s, M) /\ (Sorts(r, L) => Sorts(s, M))
    <3>1. r.q = 1
      BY <1>1, <2>4
    <3>2. Counters(r, M)
      BY <1>2 DEF Counters
    <3>3. /\ Counters(s, M)
          /\ Sorted(M, r.i) /\ AtMost(M, Copies(r.n)) => Sorts(s, M)
      BY <1>7, <2>4, <3>2, SortedKeeps
    <3>4. Sorts(r, L) => Sorted(M, r.i)
      BY <1>1, <2>2, <3>1, AtTheFront
    <3>5. QED
      BY <1>3, <2>1, <3>3, <3>4
  <2>5. QED
    BY <1>7, <2>3, <2>4
<1>8. QED
  BY <1>4, <1>5, <1>6, <1>7

\* One iteration of the loop that looks for the other zone, in the pool P.
LEMMA ScanKeeps ==
  ASSUME NEW r, NEW s, NEW P, Counters(r, P), r.pc = "scan",
         Now(s, r, IF r.i < N THEN "scan" ELSE "draw", r.stage,
             IF r.i < N THEN r.i + 1 ELSE N, r.p, r.q, r.x, r.y),
         s.out = r.out, s.temp = IF P[r.i] # r.first THEN P[r.i] ELSE r.temp
  PROVE  /\ Counters(s, P) /\ Sorts(s, P)
         /\ Range(P) = Zones /\ Finds(r, P) => Finds(s, P)
<1>1. /\ P \in Seq(Zones) /\ Len(P) = N /\ r.first # NoZone /\ r.i \in 1..N
      /\ r.stage = "shuffle" /\ Asked(r) /\ r.out = << >>
  BY DEF Counters
<1>2. PICK pc, i : /\ pc = IF r.i < N THEN "scan" ELSE "draw"
                   /\ i = IF r.i < N THEN r.i + 1 ELSE N
                   /\ Now(s, r, pc, r.stage, i, r.p, r.q, r.x, r.y)
  OBVIOUS
<1>3. i \in 1..N /\ pc \in {"scan", "draw"}
  BY <1>1, <1>2, NPositive
<1>4. Counters(s, P)
  BY <1>1, <1>2, <1>3 DEF Counters, Now, Asked
<1>5. Sorts(s, P)
  BY <1>1, <1>2, <1>3 DEF Sorts, Now
<1>6. ASSUME Range(P) = Zones, Finds(r, P) PROVE Finds(s, P)
  <2>1. P[r.i] \in Zones
    BY <1>1
  <2>2. s.first = r.first
    BY <1>2 DEF Now
  <2>3. CASE P[r.i] # r.first
    BY <2>1, <2>2, <2>3 DEF Finds
  <2>4. CASE P[r.i] = r.first /\ r.temp \in Zones \ {r.first}
    BY <2>2, <2>4 DEF Finds
  <2>5. CASE P[r.i] = r.first /\ \A k \in 1..r.i - 1 : P[k] = r.first
    <3>1. \A k \in 1..r.i : P[k] = r.first
      BY <1>1, <2>5
    <3>2. CASE r.i < N
      BY <1>1, <1>2, <2>2, <3>1, <3>2 DEF Finds, Now
    <3>3. CASE ~(r.i < N)
      <4>1. \A k \in 1..N : P[k] = r.first
        BY <1>1, <3>1, <3>3, NPositive
      <4>2. Zones = {r.first}
        BY <1>1, <1>6, <4>1, NPositive DEF Range
      <4>3. N = 1
        BY <4>2, FS_Singleton DEF N
      <4>4. QED
        BY <1>1, <4>3, AskedFor
    <3>4. QED
      BY <3>2, <3>3
  <2>6. QED
    BY <1>1, <1>6, <2>3, <2>4, <2>5 DEF Finds
<1>7. QED
  BY <1>4, <1>5, <1>6

\* One entry more of the list that is repeated from the pool P.
LEMMA CopyKeeps ==
  ASSUME NEW P \in [1..N -> Zones], NEW r, NEW s, NEW L, NEW M, NEW pc,
         Counters(r, L), r.pc = "copy",
         M = Append(L, P[1 + (Len(L) % N)]),
         pc = IF Len(M) % N = 0 /\ Len(M) >= r.n THEN "draw" ELSE "copy",
         Now(s, r, pc, r.stage, Len(M), r.p, r.q, r.x, r.y), s.out = r.out
  PROVE  /\ Counters(s, M)
         /\ Range(P) = Zones /\ Repeats(r, L, P) => Sorts(s, M) /\ Repeats(s, M, P)
<1>1. /\ L \in Seq(Zones) /\ r.first = NoZone /\ r.n > N /\ Asked(r) /\ r.out = << >>
      /\ r.stage = "shuffle" /\ r.n \in Nat
  BY AskedFor DEF Counters
<1>2. Len(L) \in Nat /\ N \in Nat /\ N >= 1
  BY <1>1, NPositive
<1>3. Len(L) % N \in 0..N-1
  BY <1>2, DivBasic
<1>4. P[1 + (Len(L) % N)] \in Zones
  BY <1>2, <1>3
<1>5. M \in Seq(Zones) /\ Len(M) \in Nat /\ Len(M) >= 1
  BY <1>1, <1>4
<1>6. Counters(s, M)
  <2>1. CASE pc = "copy"
    BY <1>1, <1>5, <2>1 DEF Counters, Now, Asked
  <2>2. CASE pc = "draw" /\ Len(M) >= r.n
    BY <1>1, <1>5, <2>2 DEF Counters, Now, Asked
  <2>3. QED
    BY <2>1, <2>2
<1>7. ASSUME Range(P) = Zones, Repeats(r, L, P) PROVE Sorts(s, M) /\ Repeats(s, M, P)
  <2>1. PICK t, j : Repeated(L, P, t, j) /\ t * N < r.n
    BY <1>7 DEF Repeats
  <2>2. t \in Nat /\ j \in 0..N-1
    BY <2>1 DEF Repeated
  <2>3. \/ j + 1 < N /\ Repeated(M, P, t, j + 1)
        \/ j + 1 = N /\ Repeated(M, P, t + 1, 0)
    <3>1. Copied(M, L, P)
      BY DEF Copied
    <3>2. QED
      BY <1>1, <1>7, <2>1, <3>1, CopyOne
  <2>4. CASE pc = "copy" /\ \E u, k : Repeated(M, P, u, k) /\ u * N < r.n
    BY <1>1, <2>4 DEF Sorts, Repeats, Now
  <2>5. CASE j + 1 < N /\ Repeated(M, P, t, j + 1)
    <3>1. Len(M) = t * N + (j + 1)
      BY <2>5 DEF Repeated
    <3>2. j + 1 \in 0..N-1
      BY <1>2, <2>2, <2>5
    <3>3. Len(M) % N = j + 1
      <4>1. Divided(Len(M), t, N, j + 1)
        BY <2>2, <3>1, <3>2 DEF Divided
      <4>2. QED
        BY <1>2, <1>5, <4>1, DivUnique
    <3>4. pc = "copy"
      BY <2>2, <3>3
    <3>5. QED
      BY <2>1, <2>4, <2>5, <3>4
  <2>6. CASE j + 1 = N /\ Repeated(M, P, t + 1, 0)
    <3>1. Len(M) = (t + 1) * N + 0
      BY <2>6 DEF Repeated
    <3>2. Len(M) = (t + 1) * N
      BY <1>2, <2>2, <3>1
    <3>3. CASE pc = "copy"
      <4>1. Len(M) % N = 0
        <5>1. Divided(Len(M), t + 1, N, 0)
          BY <1>2, <2>2, <3>1 DEF Divided
        <5>2. QED
          BY <1>2, <1>5, <5>1, DivUnique
      <4>2. Len(M) < r.n
        BY <1>1, <1>5, <3>3, <4>1
      <4>3. QED
        BY <2>4, <2>6, <3>2, <3>3, <4>2
    <3>4. CASE pc = "draw" /\ Len(M) >= r.n
      <4>1. Copies(r.n) = t + 1
        BY <1>1, <2>1, <2>2, <3>2, <3>4, CopiesLemma
      <4>2. AtMost(M, t + 1)
        <5>1. ASSUME NEW z \in Zones PROVE Cardinality(Places(M, z)) <= t + 1
          <6>1. Cardinality(Places(M, z)) <= (t + 1) + IF \E k \in 1..0 : P[k] = z THEN 1 ELSE 0
            BY <2>6 DEF Repeated
          <6>2. Cardinality(Places(M, z)) <= (t + 1) + 0
            BY <6>1
          <6>3. QED
            BY <2>2, <6>2
        <5>2. QED
          BY <5>1 DEF AtMost
      <4>3. QED
        BY <1>1, <3>4, <4>1, <4>2 DEF Sorts, Repeats, Now, Whole
    <3>5. QED
      BY <3>3, <3>4
  <2>7. QED
    BY <2>3, <2>5, <2>6
<1>8. QED
  BY <1>6, <1>7

\* An entry of the answer of GetNavailabilityZones.
Entered(s, r, L) ==
  /\ Appended(s.out, r.out, L[r.i])
  /\ Now(s, r, IF Len(s.out) = r.n THEN "done" ELSE "answer", r.stage, r.i + 1,
         r.p, r.q, r.x, r.y)

LEMMA EntryKeeps ==
  ASSUME NEW r, NEW s, NEW L, Counters(r, L), r.pc = "answer", r.first = NoZone,
         Entered(s, r, L)
  PROVE  /\ Counters(s, L) /\ (Sorts(r, L) => Sorts(s, L))
         /\ s.out \in Seq(Zones) /\ Len(s.out) = r.i
         /\ Sorts(r, L) => \A k \in 1..r.i : s.out[k] = L[k]
<1>0. PICK out, pc :
        /\ s.out = out /\ Appended(out, r.out, L[r.i])
        /\ pc = IF Len(out) = r.n THEN "done" ELSE "answer"
        /\ Now(s, r, pc, r.stage, r.i + 1, r.p, r.q, r.x, r.y)
  BY DEF Entered
<1>1. /\ L \in Seq(Zones) /\ Asked(r) /\ r.n \in Nat \ {0} /\ r.n <= Len(L)
      /\ r.i \in 1..r.n /\ r.out \in Seq(Zones) /\ Len(r.out) = r.i - 1
  BY AskedFor DEF Counters
<1>2. L[r.i] \in Zones
  BY <1>1
<1>3. /\ out \in Seq(Zones) /\ Len(out) = r.i
      /\ out[r.i] = L[r.i] /\ \A k \in 1..r.i - 1 : out[k] = r.out[k]
  BY <1>0, <1>1, <1>2 DEF Appended
<1>4. ASSUME Sorts(r, L) PROVE \A k \in 1..r.i : out[k] = L[k]
  <2>1. \A k \in 1..r.i - 1 : r.out[k] = L[k]
    BY <1>4 DEF Sorts
  <2>2. QED
    BY <1>1, <1>3, <2>1
<1>5. CASE pc = "done"
  <2>1. out # << >>
    BY <1>1, <1>3
  <2>2. Counters(s, L)
    BY <1>0, <1>1, <1>5, <2>1 DEF Counters, Now, Asked
  <2>3. Sorts(r, L) => Sorts(s, L)
    BY <1>0, <1>5 DEF Sorts, Now
  <2>4. QED
    BY <1>0, <1>3, <1>4, <2>2, <2>3
<1>6. CASE pc = "answer" /\ r.i # r.n
  <2>1. r.i + 1 \in 1..r.n /\ Len(out) = (r.i + 1) - 1
    BY <1>1, <1>3, <1>6
  <2>2. Counters(s, L)
    BY <1>0, <1>1, <1>3, <1>6, <2>1 DEF Counters, Now, Asked
  <2>3. ASSUME Sorts(r, L) PROVE Sorts(s, L)
    <3>1. \A k \in 1..(r.i + 1) - 1 : out[k] = L[k]
      BY <1>1, <1>4, <2>3
    <3>2. AtMost(L, Copies(r.n)) /\ Sorted(L, r.n)
      BY <2>3 DEF Sorts, Whole
    <3>3. QED
      BY <1>0, <1>6, <3>1, <3>2 DEF Sorts, Now, Whole
  <2>4. QED
    BY <1>0, <1>3, <1>4, <2>2, <2>3
<1>7. QED
  BY <1>0, <1>3, <1>5, <1>6

LEMMA ScaledUpKeeps ==
  ASSUME NEW r, NEW s, NEW L, NEW out, NEW pc, Counters(r, L), r.pc = "answer",
         r.first # NoZone, out = <<r.first, r.temp, L[1]>>,
         pc = IF Len(out) = r.n THEN "done" ELSE "answer",
         Now(s, r, pc, r.stage, r.i + 1, r.p, r.q, r.x, r.y), s.out = out
  PROVE  pc = "done" /\ Counters(s, L) /\ Sorts(s, L)
<1>1. L \in Seq(Zones) /\ Len(L) = N /\ Len(L) >= 1 /\ Asked(r) /\ r.n = 3
  BY AskedFor DEF Counters
<1>2. Len(out) = 3 /\ out # << >>
  OBVIOUS
<1>3. pc = "done"
  BY <1>1, <1>2
<1>4. Counters(s, L)
  BY <1>1, <1>2, <1>3 DEF Counters, Now, Asked
<1>5. Sorts(s, L)
  BY <1>3 DEF Sorts, Now
<1>6. QED
  BY <1>3, <1>4, <1>5

\* A call starts, in the pool P.
LEMMA DefaultStarts ==
  ASSUME NEW P \in [1..N -> Zones], NEW n \in Counts, NEW s, NEW L,
         s.n = n, s.first = NoZone, s.i = N, s.stage = "shuffle", s.out = << >>,
         s.pc = IF n > N THEN "copy" ELSE IF N > 1 THEN "draw" ELSE "answer",
         L = IF n > N THEN << >> ELSE P
  PROVE  /\ Counters(s, L) /\ Finds(s, P)
         /\ Range(P) = Zones => Sorts(s, L) /\ Repeats(s, L, P)
<1>1. n \in Nat \ {0} /\ N \in Nat /\ N >= 1 /\ P \in Seq(Zones) /\ Len(P) = N
  BY CountsArePositive, NPositive
<1>2. Finds(s, P)
  BY DEF Finds
<1>3. CASE n > N
  <2>1. L \in Seq(Zones) /\ Len(L) = 0 /\ s.pc = "copy"
    BY <1>3
  <2>2. Counters(s, L)
    BY <1>3, <2>1 DEF Counters, Asked
  <2>3. Sorts(s, L)
    BY <2>1 DEF Sorts
  <2>4. Repeats(s, L, P)
    <3>1. ASSUME NEW z \in Zones
          PROVE  Cardinality(Places(L, z)) <= 0 + IF \E k \in 1..0 : P[k] = z THEN 1 ELSE 0
      <4>1. Places(L, z) = {}
        BY <1>3 DEF Places
      <4>2. Cardinality({}) = 0
        BY FS_EmptySet
      <4>3. Cardinality(Places(L, z)) = 0
        BY <4>1, <4>2
      <4>4. QED
        BY <4>3
    <3>2. Len(L) = 0 * N + 0 /\ 0 \in 0..N-1 /\ 0 * N < n
      BY <1>1, <2>1
    <3>3. Repeated(L, P, 0, 0)
      BY <3>1, <3>2 DEF Repeated
    <3>4. QED
      BY <3>2, <3>3 DEF Repeats
  <2>5. QED
    BY <1>2, <2>2, <2>3, <2>4
<1>4. CASE n <= N
  <2>1. L = P /\ s.pc \in {"draw", "answer"} /\ (s.pc = "answer" => N = 1 /\ n = 1)
    BY <1>1, <1>4
  <2>2. Counters(s, L)
    BY <1>1, <1>4, <2>1 DEF Counters, Asked
  <2>3. ASSUME Range(P) = Zones PROVE Sorts(s, L) /\ Repeats(s, L, P)
    <3>1. Copies(n) = 1
      <4>1. PICK a \in Nat : a = n + N - 1
        BY <1>1
      <4>2. Divided(a, 1, N, n - 1)
        BY <1>1, <1>4, <4>1 DEF Divided
      <4>3. a \div N = 1
        BY <1>1, <4>2, DivUnique
      <4>4. QED
        BY <4>1, <4>3 DEF Copies
    <3>2. AtMost(L, Copies(n))
      BY <2>1, <2>3, <3>1, FullAtMostOnce
    <3>3. Sorted(L, 1)
      BY NoneBefore
    <3>4. Sorts(s, L)
      BY <2>1, <3>2, <3>3 DEF Sorts, Whole
    <3>5. QED
      BY <2>1, <3>4 DEF Repeats
  <2>4. QED
    BY <1>2, <2>2, <2>3
<1>5. QED
  BY <1>1, <1>3, <1>4

LEMMA ScaleUpStarts ==
  ASSUME NEW P \in [1..N -> Zones], NEW first \in FirstAZs, NEW s,
         s.n = 3, s.first = first, s.i = 1, s.stage = "shuffle", s.out = << >>, s.pc = "scan"
  PROVE  Counters(s, P) /\ Sorts(s, P) /\ Repeats(s, P, P) /\ Finds(s, P)
<1>1. first # NoZone
  BY ScaleUpInTwoZones, NoZoneIsNoZone
<1>2. N \in Nat /\ N >= 1 /\ P \in Seq(Zones) /\ Len(P) = N
  BY NPositive
<1>3. Counters(s, P)
  BY <1>1, <1>2 DEF Counters, Asked
<1>4. Sorts(s, P) /\ Repeats(s, P, P) /\ Finds(s, P)
  BY <1>1 DEF Sorts, Repeats, Finds
<1>5. QED
  BY <1>3, <1>4

-----------------------------------------------------------------------------
(* Every step keeps the invariant.                                         *)

LEMMA SameSlice ==
  ASSUME NEW c \in Caller, Step(c), pool' = pool, call'[c].list = call[c].list
  PROVE  Slice(c)' = Slice(c)
BY DEF Step, Slice, Private

LEMMA StoredSlice ==
  ASSUME NEW c \in Caller, Step(c), NEW k, NEW zone, Stored(c, k, zone)
  PROVE  Slice(c)' = [Slice(c) EXCEPT ![k] = zone]
<1>1. Private(c)' <=> Private(c)
  BY DEF Step, Private
<1>2. QED
  BY <1>1 DEF Slice, Stored

\* Another call keeps what it has, unless the pool is changed under its hands.
LEMMA OthersKeep ==
  ASSUME DrawsInv, NEW c, pool' \in [1..N -> Zones], disturbed => disturbed',
         \A d \in Caller : d # c => call'[d] = call[d],
         ~disturbed' => \A d \in Caller : d # c /\ Active(d) => pool' = pool,
         NEW d \in Caller, d # c
  PROVE  /\ ~Active(d)' => call'[d].n = 0 /\ call'[d].first = NoZone
         /\ Active(d)' => Own(d)'
         /\ Active(d)' /\ ~disturbed' => Calm(d)'
<1>1. /\ call'[d] = call[d] /\ (Active(d)' <=> Active(d)) /\ (Private(d)' <=> Private(d))
      /\ pool \in [1..N -> Zones]
  BY DEF Active, Private, DrawsInv
<1>2. ASSUME Active(d) PROVE Own(d)'
  <2>1. Counters(call[d], Slice(d))
    BY <1>2 DEF DrawsInv, Own
  <2>2. CASE Private(d)
    BY <1>1, <2>1, <2>2 DEF Own, Slice
  <2>3. CASE ~Private(d)
    <3>1. Slice(d) = pool /\ Slice(d)' = pool'
      BY <1>1, <2>3 DEF Slice
    <3>2. /\ pool \in Seq(Zones) /\ Len(pool) = N
          /\ pool' \in Seq(Zones) /\ Len(pool') = N
      BY <1>1, NPositive
    <3>3. Counters(call[d], pool')
      BY <2>1, <3>1, <3>2 DEF Counters
    <3>4. QED
      BY <1>1, <3>1, <3>3 DEF Own
  <2>4. QED
    BY <2>2, <2>3
<1>3. ASSUME Active(d), ~disturbed' PROVE Calm(d)'
  <2>1. pool' = pool /\ Calm(d)
    BY <1>3 DEF DrawsInv
  <2>2. Slice(d)' = Slice(d)
    BY <1>1, <2>1 DEF Slice
  <2>3. QED
    BY <1>1, <2>1, <2>2 DEF Calm
<1>4. QED
  BY <1>1, <1>2, <1>3 DEF DrawsInv

\* A step of the call of c.
LEMMA OwnKeeps ==
  ASSUME DrawsInv, PoolInv, NEW c \in Caller, Active(c), Step(c), disturbed' = disturbed,
         pool' \in [1..N -> Zones], Private(c) => pool' = pool,
         Own(c)', ~disturbed => Calm(c)'
  PROVE  DrawsInv'
<1>1. Active(c)'
  BY DEF Own, Counters, Active
<1>2. ~disturbed' => \A d \in Caller : d # c /\ Active(d) => pool' = pool
  BY DEF PoolInv, SharedInv, Alone
<1>3. ASSUME NEW d \in Caller, d # c
      PROVE  /\ ~Active(d)' => call'[d].n = 0 /\ call'[d].first = NoZone
             /\ Active(d)' => Own(d)'
             /\ Active(d)' /\ ~disturbed' => Calm(d)'
  BY <1>2, <1>3, OthersKeep DEF Step
<1>4. QED
  BY <1>1, <1>3 DEF DrawsInv

\* One that leaves the lists alone and neither copies nor looks for a zone.
LEMMA QuietKeeps ==
  ASSUME DrawsInv, PoolInv, NEW c \in Caller, Active(c), Step(c),
         UNCHANGED <<pool, disturbed>>, call'[c].list = call[c].list,
         call'[c].temp = call[c].temp, call[c].pc \notin {"copy", "scan"}, call'[c].pc # "copy",
         Counters(call'[c], Slice(c)),
         Sorts(call[c], Slice(c)) => Sorts(call'[c], Slice(c))
  PROVE  DrawsInv'
<1>1. Slice(c)' = Slice(c)
  BY SameSlice
<1>2. Own(c)'
  BY <1>1 DEF Own
<1>3. ASSUME ~disturbed PROVE Calm(c)'
  <2>1. Sorts(call[c], Slice(c)) /\ Finds(call[c], pool)
    BY <1>3 DEF DrawsInv, Calm
  <2>2. Finds(call[c], pool)'
    BY <2>1 DEF Finds, Step
  <2>3. Sorts(call[c], Slice(c))'
    BY <1>1, <2>1
  <2>4. Repeats(call[c], Slice(c), pool)'
    BY DEF Repeats
  <2>5. QED
    BY <2>2, <2>3, <2>4 DEF Calm
<1>4. QED
  BY <1>2, <1>3, OwnKeeps DEF DrawsInv

LEMMA DrawInv ==
  ASSUME Shape, DrawsInv, PoolInv, NEW c \in Caller, Draw(c)
  PROVE  DrawsInv'
<1>1. call[c].pc = "draw" /\ UNCHANGED <<pool, disturbed>>
  BY DEF Draw
<1>2. Counters(call[c], Slice(c)) /\ Active(c)
  BY <1>1 DEF Active, DrawsInv, Own
<1>3. PICK j \in 1..call[c].i :
        Change(c, "loadP", call[c].stage, call[c].i, call[c].i, j, call[c].x, call[c].y)
  BY DrawChange
<1>4. /\ Now(call'[c], call[c], "loadP", call[c].stage, call[c].i, call[c].i, j,
             call[c].x, call[c].y)
      /\ Step(c) /\ SameData(call'[c], call[c])
  BY <1>3, NowMoves DEF Change, Moves
<1>5. /\ Counters(call'[c], Slice(c))
      /\ Sorts(call[c], Slice(c)) => Sorts(call'[c], Slice(c))
  BY <1>1, <1>2, <1>4, DrawKeeps DEF SameData
<1>6. QED
  BY <1>1, <1>2, <1>4, <1>5, QuietKeeps DEF SameData, Now

LEMMA LoadPInv ==
  ASSUME Shape, DrawsInv, PoolInv, NEW c \in Caller, LoadP(c)
  PROVE  DrawsInv'
<1> DEFINE r == call[c]
<1>1. r.pc = "loadP" /\ UNCHANGED <<pool, disturbed>>
  BY DEF LoadP
<1>2. Counters(r, Slice(c)) /\ Active(c)
  BY <1>1 DEF Active, DrawsInv, Own
<1>3. Change(c, "loadQ", r.stage, r.i, r.p, r.q, Slice(c)[r.p], r.y)
  BY LoadPChange
<1>4. /\ Now(call'[c], r, "loadQ", r.stage, r.i, r.p, r.q, Slice(c)[r.p], r.y)
      /\ Step(c) /\ SameData(call'[c], r)
  BY <1>3, NowMoves DEF Change, Moves
<1>5. /\ Counters(call'[c], Slice(c))
      /\ Sorts(r, Slice(c)) => Sorts(call'[c], Slice(c))
  BY <1>1, <1>2, <1>4, LoadPKeeps DEF SameData
<1>6. QED
  BY <1>1, <1>2, <1>4, <1>5, QuietKeeps DEF SameData, Now

LEMMA LoadQInv ==
  ASSUME Shape, DrawsInv, PoolInv, NEW c \in Caller, LoadQ(c)
  PROVE  DrawsInv'
<1> DEFINE r == call[c]
           s == call'[c]
<1>1. r.pc = "loadQ" /\ UNCHANGED <<pool, disturbed>>
  BY DEF LoadQ
<1>2. Counters(r, Slice(c)) /\ Active(c)
  BY <1>1 DEF Active, DrawsInv, Own
<1>3. ASSUME Counters(s, Slice(c)), Sorts(r, Slice(c)) => Sorts(s, Slice(c)),
             Step(c), SameData(s, r), s.pc # "copy"
      PROVE  DrawsInv'
  BY <1>1, <1>2, <1>3, QuietKeeps DEF SameData
<1>4. CASE /\ r.stage # "compare"
           /\ Change(c, "storeP", r.stage, r.i, r.p, r.q, r.x, Slice(c)[r.q])
  <2>1. /\ Now(s, r, "storeP", r.stage, r.i, r.p, r.q, r.x, Slice(c)[r.q])
        /\ Step(c) /\ SameData(s, r)
    BY <1>4, NowMoves DEF Change, Moves
  <2>2. QED
    BY <1>1, <1>2, <1>3, <1>4, <2>1, LoadQKeeps DEF SameData, Now
<1>5. CASE /\ r.stage = "compare" /\ r.x < Slice(c)[r.q]
           /\ Change(c, "loadP", "exchange", r.i, r.p, r.q, NoZone, NoZone)
  <2>1. /\ Now(s, r, "loadP", "exchange", r.i, r.p, r.q, NoZone, NoZone)
        /\ Step(c) /\ SameData(s, r)
    BY <1>5, NowMoves DEF Change, Moves
  <2>2. QED
    BY <1>1, <1>2, <1>3, <1>5, <2>1, LessKeeps DEF SameData, Now
<1>6. CASE /\ r.stage = "compare" /\ ~(r.x < Slice(c)[r.q])
           /\ r.i + 1 > r.n
           /\ Change(c, "answer", r.stage, 1, r.p, r.q, NoZone, NoZone)
  <2>1. /\ Now(s, r, "answer", r.stage, 1, r.p, r.q, NoZone, NoZone)
        /\ Step(c) /\ SameData(s, r)
    BY <1>6, NowMoves DEF Change, Moves
  <2>2. QED
    BY <1>1, <1>2, <1>3, <1>6, <2>1, NotLessKeeps DEF SameData, Now
<1>7. ASSUME r.stage = "compare", ~(r.x < Slice(c)[r.q]), NEW i, i = r.i + 1, ~(i > r.n),
             Change(c, "loadP", "compare", i, i, i - 1, NoZone, NoZone)
      PROVE  DrawsInv'
  <2>1. /\ Now(s, r, "loadP", "compare", i, i, i - 1, NoZone, NoZone)
        /\ Step(c) /\ SameData(s, r)
    BY <1>7, NowMoves DEF Change, Moves
  <2>2. QED
    BY <1>1, <1>2, <1>3, <1>7, <2>1, NotLessKeeps DEF SameData, Now
<1>8. QED
  BY <1>4, <1>5, <1>6, <1>7, LoadQChange

\* A store of the zone at the position k of the list c works on.
LEMMA StoreKeeps ==
  ASSUME DrawsInv, PoolInv, NEW c \in Caller, Active(c), Step(c),
         NEW k \in 1..Len(Slice(c)), NEW zone \in Zones, Stored(c, k, zone),
         call[c].pc \notin {"copy", "scan"}, call'[c].pc # "copy",
         NEW M, IsStored(M, Slice(c), k, zone),
         Counters(call'[c], M), Sorts(call[c], Slice(c)) => Sorts(call'[c], M)
  PROVE  DrawsInv'
<1>1. Slice(c)' = M
  BY StoredSlice DEF IsStored
<1>2. Own(c)'
  BY <1>1 DEF Own
<1>3. pool \in [1..N -> Zones] /\ N \in Nat
  BY NPositive DEF DrawsInv
<1>4. pool' \in [1..N -> Zones]
  <2>1. CASE Private(c)
    BY <1>3, <2>1 DEF Stored
  <2>2. CASE ~Private(c)
    <3>1. Len(Slice(c)) = N
      BY <1>3, <2>2 DEF Slice
    <3>2. pool' = [pool EXCEPT ![k] = zone]
      BY <2>2 DEF Stored
    <3>3. QED
      BY <1>3, <3>1, <3>2
  <2>3. QED
    BY <2>1, <2>2
<1>5. ASSUME ~disturbed PROVE Calm(c)'
  <2>1. Sorts(call[c], Slice(c)) /\ Finds(call[c], pool)
    BY <1>5 DEF DrawsInv, Calm
  <2>2. Finds(call[c], pool)'
    BY <2>1 DEF Finds, Step, Stored
  <2>3. Sorts(call[c], Slice(c))'
    BY <1>1, <2>1
  <2>4. Repeats(call[c], Slice(c), pool)'
    BY DEF Repeats
  <2>5. QED
    BY <2>2, <2>3, <2>4 DEF Calm
<1>6. (Private(c) => pool' = pool) /\ disturbed' = disturbed
  BY DEF Stored
<1>7. QED
  BY <1>2, <1>4, <1>5, <1>6, OwnKeeps

LEMMA StorePInv ==
  ASSUME Shape, DrawsInv, PoolInv, NEW c \in Caller, StoreP(c)
  PROVE  DrawsInv'
<1> DEFINE r == call[c]
           s == call'[c]
<1>1. r.pc = "storeP"
  BY DEF StoreP
<1>2. Counters(r, Slice(c)) /\ Active(c)
  BY <1>1 DEF Active, DrawsInv, Own
<1>3. /\ Now(s, r, "storeQ", r.stage, r.i, r.p, r.q, r.x, r.y)
      /\ Step(c) /\ Stored(c, r.p, r.y) /\ s.out = r.out
  BY StorePChange, NowMoves DEF Moves, Stored
<1>4. r.p \in 1..Len(Slice(c)) /\ r.y \in Zones
  BY <1>1, <1>2 DEF Counters
<1>5. PICK M : IsStored(M, Slice(c), r.p, r.y)
  BY DEF IsStored
<1>6. Counters(s, M) /\ (Sorts(r, Slice(c)) => Sorts(s, M))
  BY <1>1, <1>2, <1>3, <1>5, StorePKeeps
<1>7. s.pc = "storeQ"
  BY <1>3 DEF Now
<1>8. QED
  BY <1>1, <1>2, <1>3, <1>4, <1>5, <1>6, <1>7, StoreKeeps

LEMMA StoreQInv ==
  ASSUME Shape, DrawsInv, PoolInv, NEW c \in Caller, StoreQ(c)
  PROVE  DrawsInv'
<1> DEFINE r == call[c]
           s == call'[c]
<1>1. r.pc = "storeQ"
  BY DEF StoreQ
<1>2. Counters(r, Slice(c)) /\ Active(c)
  BY <1>1 DEF Active, DrawsInv, Own
<1>3. \/ /\ r.stage = "shuffle"
         /\ \/ /\ r.i - 1 > 1
               /\ Now(s, r, "draw", r.stage, r.i - 1, r.p, r.q, NoZone, NoZone)
            \/ /\ r.first # NoZone \/ r.n = 1
               /\ Now(s, r, "answer", r.stage, 1, r.p, r.q, NoZone, NoZone)
            \/ /\ r.first = NoZone /\ r.n # 1
               /\ Now(s, r, "loadP", "compare", 2, 2, 1, NoZone, NoZone)
      \/ /\ r.stage # "shuffle"
         /\ \/ /\ r.q > 1
               /\ Now(s, r, "loadP", "compare", r.i, r.p - 1, r.q - 1, NoZone, NoZone)
            \/ /\ ~(r.q > 1) /\ r.i + 1 > r.n
               /\ Now(s, r, "answer", r.stage, 1, r.p, r.q, NoZone, NoZone)
            \/ \E i : /\ i = r.i + 1 /\ ~(i > r.n) /\ ~(r.q > 1)
                      /\ Now(s, r, "loadP", "compare", i, i, i - 1, NoZone, NoZone)
  BY StoreQChange, NowMoves
<1>4. Step(c) /\ Stored(c, r.q, r.x) /\ s.out = r.out
  BY StoreQChange DEF Moves, Stored
<1>5. r.q \in 1..Len(Slice(c)) /\ r.x \in Zones
  BY <1>1, <1>2 DEF Counters
<1>6. PICK M : IsStored(M, Slice(c), r.q, r.x)
  BY DEF IsStored
<1>7. Counters(s, M) /\ (Sorts(r, Slice(c)) => Sorts(s, M))
  BY <1>1, <1>2, <1>3, <1>4, <1>6, StoreQKeeps
<1>8. s.pc # "copy"
  BY <1>3 DEF Now
<1>9. QED
  BY <1>1, <1>2, <1>4, <1>5, <1>6, <1>7, <1>8, StoreKeeps

LEMMA ScanInv ==
  ASSUME Shape, DrawsInv, PoolInv, NEW c \in Caller, Scan(c)
  PROVE  DrawsInv'
<1> DEFINE r == call[c]
           s == call'[c]
<1>1. r.pc = "scan" /\ UNCHANGED <<pool, disturbed>>
  BY DEF Scan
<1>2. Counters(r, Slice(c)) /\ Active(c)
  BY <1>1 DEF Active, DrawsInv, Own
<1>3. ~Private(c) /\ Slice(c) = pool
  BY <1>1, <1>2 DEF Counters, Private, Slice
<1>4. /\ Now(s, r, IF r.i < N THEN "scan" ELSE "draw", r.stage,
             IF r.i < N THEN r.i + 1 ELSE N, r.p, r.q, r.x, r.y)
      /\ Step(c) /\ s.out = r.out /\ s.list = r.list
      /\ s.temp = IF pool[r.i] # r.first THEN pool[r.i] ELSE r.temp
  BY ScanChange, NowMoves DEF Moves
<1>5. /\ Counters(s, pool) /\ Sorts(s, pool)
      /\ Range(pool) = Zones /\ Finds(r, pool) => Finds(s, pool)
  BY <1>1, <1>2, <1>3, <1>4, ScanKeeps
<1>6. Slice(c)' = pool
  BY <1>1, <1>3, <1>4, SameSlice
<1>7. Own(c)'
  BY <1>5, <1>6 DEF Own
<1>8. ASSUME ~disturbed PROVE Calm(c)'
  <2>1. Range(pool) = Zones
    BY <1>1, <1>2, <1>3, <1>8 DEF PoolInv, SharedInv, Shares, Contents
  <2>2. Finds(r, pool)
    BY <1>2, <1>8 DEF DrawsInv, Calm
  <2>3. Finds(call[c], pool)' /\ Sorts(call[c], Slice(c))'
    BY <1>1, <1>5, <1>6, <2>1, <2>2
  <2>4. Repeats(call[c], Slice(c), pool)'
    BY <1>4 DEF Repeats, Now
  <2>5. QED
    BY <2>3, <2>4 DEF Calm
<1>9. QED
  BY <1>1, <1>2, <1>4, <1>7, <1>8, OwnKeeps DEF DrawsInv

LEMMA CopyInv ==
  ASSUME Shape, DrawsInv, PoolInv, NEW c \in Caller, Copy(c)
  PROVE  DrawsInv'
<1> DEFINE r == call[c]
           s == call'[c]
<1>1. r.pc = "copy" /\ UNCHANGED <<pool, disturbed>> /\ pool \in [1..N -> Zones]
  BY DEF Copy, DrawsInv
<1>2. Counters(r, Slice(c)) /\ Active(c)
  BY <1>1 DEF Active, DrawsInv, Own
<1>3. Private(c) /\ Slice(c) = r.list /\ r.first = NoZone
  BY <1>1, <1>2 DEF Counters, Private, Slice
<1>4. PICK M, pc :
        /\ M = Append(r.list, pool[1 + (Len(r.list) % N)])
        /\ pc = IF Len(M) % N = 0 /\ Len(M) >= r.n THEN "draw" ELSE "copy"
        /\ Moves(c, pc, r.stage, Len(M), r.p, r.q, r.x, r.y)
        /\ s.list = M /\ s.temp = r.temp /\ s.out = r.out
  BY CopyChange
<1>5. Now(s, r, pc, r.stage, Len(M), r.p, r.q, r.x, r.y) /\ Step(c)
  BY <1>4, NowMoves DEF Moves
<1>6. /\ Counters(s, M)
      /\ Range(pool) = Zones /\ Repeats(r, r.list, pool) => Sorts(s, M) /\ Repeats(s, M, pool)
  BY <1>1, <1>2, <1>3, <1>4, <1>5, CopyKeeps
<1>7. Slice(c)' = M
  BY <1>3, <1>4, <1>5 DEF Step, Slice, Private
<1>8. Own(c)'
  BY <1>6, <1>7 DEF Own
<1>9. ASSUME ~disturbed PROVE Calm(c)'
  <2>1. \A d \in Caller : ~Shares(d)
    BY <1>2, <1>3, <1>9 DEF PoolInv, SharedInv, Alone, Shares
  <2>2. Range(pool) = Zones
    BY <1>9, <2>1 DEF PoolInv, SharedInv
  <2>3. Repeats(r, r.list, pool)
    BY <1>2, <1>3, <1>9 DEF DrawsInv, Calm
  <2>4. Sorts(call[c], Slice(c))' /\ Repeats(call[c], Slice(c), pool)'
    BY <1>1, <1>6, <1>7, <2>2, <2>3
  <2>5. Finds(call[c], pool)'
    BY <1>3, <1>5 DEF Finds, Step
  <2>6. QED
    BY <2>4, <2>5 DEF Calm
<1>10. QED
  BY <1>1, <1>2, <1>5, <1>8, <1>9, OwnKeeps

\* What the two functions promise counts zones as this module does.
LEMMA SameCardinality ==
  ASSUME NEW S
  PROVE  Draws!Cardinality(S) = Cardinality(S)
BY DEF Draws!Cardinality, Cardinality

\* The zones of an answer are those it may have.
LEMMA Promise ==
  ASSUME NEW L, L \in Seq(Zones), NEW n \in Nat, n <= Len(L),
         AtMost(L, Copies(n)), Sorted(L, n),
         NEW out, out \in Seq(Zones), Len(out) = n, \A k \in 1..n : out[k] = L[k]
  PROVE  out \in Draws!GetNavailabilityZones(n)
<1>1. out \in [1..n -> Zones]
  OBVIOUS
<1>2. \A i, j \in 1..n : i < j => out[i] <= out[j]
  BY DEF Sorted
<1>3. ASSUME NEW z \in Zones
      PROVE  Cardinality({i \in 1..n : out[i] = z}) <= Copies(n)
  <2> DEFINE S == {i \in 1..n : out[i] = z}
             T == Places(L, z)
  <2>1. S \subseteq T
    BY DEF Places
  <2>2. IsFiniteSet(T) /\ Cardinality(T) \in Nat
    BY PlacesFinite
  <2>3. Cardinality(T) <= Copies(n)
    BY DEF AtMost
  <2>4. n + N - 1 \in Int /\ N >= 1 /\ N \in Nat
    BY NPositive
  <2>5. Copies(n) \in Int
    BY <2>4 DEF Copies
  <2> HIDE DEF S, T
  <2>6. IsFiniteSet(S) /\ Cardinality(S) <= Cardinality(T) /\ Cardinality(S) \in Nat
    BY <2>1, <2>2, FS_Subset, FS_CardinalityType
  <2>7. Cardinality(S) <= Copies(n)
    BY <2>2, <2>3, <2>5, <2>6
  <2>8. QED
    BY <2>7 DEF S
<1>4. \A z \in Zones : Draws!Cardinality({i \in 1..n : out[i] = z}) <= Copies(n)
  BY <1>3, SameCardinality
<1>5. Copies(n) = (n + Draws!Cardinality(Zones) - 1) \div Draws!Cardinality(Zones)
  BY SameCardinality DEF Copies, N
<1>6. QED
  BY <1>1, <1>2, <1>4, <1>5 DEF Draws!GetNavailabilityZones

LEMMA ScaleUpPromise ==
  ASSUME NEW first \in FirstAZs, NEW second \in Zones \ {first}, NEW third \in Zones
  PROVE  <<first, second, third>> \in Draws!GetHAavailabilityZones(first)
<1>1. Draws!Cardinality(Zones) = 2
  BY ScaleUpInTwoZones, SameCardinality
<1>2. PICK p \in (Zones \ {first}) \X Zones : p[1] = second /\ p[2] = third
  <2>1. <<second, third>> \in (Zones \ {first}) \X Zones
    OBVIOUS
  <2>2. QED
    BY <2>1
<1>3. <<first, second, third>> = <<first, p[1], p[2]>>
  BY <1>2
<1>4. QED
  BY <1>1, <1>2, <1>3 DEF Draws!GetHAavailabilityZones

LEMMA AnswerInv ==
  ASSUME Shape, DrawsInv, PoolInv, NEW c \in Caller, Answer(c)
  PROVE  /\ DrawsInv'
         /\ call'[c].pc = "done" =>
              \/ /\ call[c].first = NoZone
                 /\ call'[c].out \in Seq(Zones) /\ Len(call'[c].out) = call[c].n
                 /\ ~disturbed => call'[c].out \in Draws!GetNavailabilityZones(call[c].n)
              \/ /\ call[c].first # NoZone
                 /\ ~disturbed => call'[c].out \in Draws!GetHAavailabilityZones(call[c].first)
<1> DEFINE r == call[c]
           s == call'[c]
           L == Slice(c)
<1>1. r.pc = "answer" /\ UNCHANGED <<pool, disturbed>>
  BY DEF Answer
<1>2. Counters(r, L) /\ Active(c)
  BY <1>1 DEF Active, DrawsInv, Own
<1>3. ~disturbed => Sorts(r, L) /\ Finds(r, pool)
  BY <1>2 DEF DrawsInv, Calm
<1>4. PICK out, pc :
        /\ out = IF r.first # NoZone THEN <<r.first, r.temp, pool[1]>>
                 ELSE Append(r.out, L[r.i])
        /\ pc = IF Len(out) = r.n THEN "done" ELSE "answer"
        /\ Moves(c, pc, r.stage, r.i + 1, r.p, r.q, r.x, r.y)
        /\ s.out = out /\ s.list = r.list /\ s.temp = r.temp
  BY AnswerChange
<1>5. Now(s, r, pc, r.stage, r.i + 1, r.p, r.q, r.x, r.y) /\ Step(c)
  BY <1>4, NowMoves DEF Moves
<1>6. s.pc = pc /\ pc \in {"answer", "done"}
  BY <1>4, <1>5 DEF Now
<1>7. ASSUME Counters(s, L), Sorts(r, L) => Sorts(s, L) PROVE DrawsInv'
  BY <1>1, <1>2, <1>4, <1>5, <1>6, <1>7, QuietKeeps
<1>8. CASE r.first = NoZone
  <2>1. Entered(s, r, L)
    BY <1>4, <1>5, <1>8 DEF Entered, Appended
  <2>2. pc = IF Len(out) = r.n THEN "done" ELSE "answer"
    BY <1>4
  <2>3. s.out = out
    BY <1>4
  <2>4. /\ Counters(s, L) /\ (Sorts(r, L) => Sorts(s, L))
        /\ out \in Seq(Zones) /\ Len(out) = r.i
        /\ Sorts(r, L) => \A k \in 1..r.i : out[k] = L[k]
    BY <1>1, <1>2, <1>8, <2>1, <2>3, EntryKeeps
  <2> HIDE DEF r, s, L
  <2>5. L \in Seq(Zones) /\ r.n \in Nat /\ r.n <= Len(L)
    BY <1>1, <1>2, <1>8, AskedFor DEF Counters, r
  <2>6. ASSUME pc = "done" PROVE Len(out) = r.n
    BY <2>2, <2>6
  <2>7. ASSUME pc = "done", ~disturbed PROVE out \in Draws!GetNavailabilityZones(r.n)
    <3>1. r.i = r.n
      BY <2>4, <2>6, <2>7
    <3>2. AtMost(L, Copies(r.n)) /\ Sorted(L, r.n)
      BY <1>1, <1>3, <1>8, <2>7 DEF Sorts, Whole, r
    <3>3. \A k \in 1..r.n : out[k] = L[k]
      BY <1>3, <2>4, <2>7, <3>1
    <3>4. QED
      BY <2>4, <2>5, <2>6, <2>7, <3>2, <3>3, Promise
  <2>8. DrawsInv'
    BY <1>7, <2>4
  <2>9. QED
    BY <1>6, <1>8, <2>3, <2>4, <2>6, <2>7, <2>8 DEF r, s
<1>9. CASE r.first # NoZone
  <2>1. L = pool /\ r.first \in FirstAZs
    <3>1. ~Private(c)
      BY <1>9 DEF Private
    <3>2. Asked(r)
      BY <1>2 DEF Counters
    <3> HIDE DEF r
    <3>3. r.first \in FirstAZs
      BY <1>9, <3>2, AskedFor
    <3>4. QED
      BY <3>1, <3>3 DEF Slice
  <2>2. out = <<r.first, r.temp, L[1]>>
    BY <1>4, <1>9, <2>1
  <2>3. pc = (IF Len(out) = r.n THEN "done" ELSE "answer") /\ s.out = out
    BY <1>4
  <2> HIDE DEF r, s, L
  <2>4. Counters(s, L) /\ Sorts(s, L)
    BY <1>1, <1>2, <1>5, <1>9, <2>2, <2>3, ScaledUpKeeps DEF r
  <2>5. DrawsInv'
    BY <1>7, <2>4
  <2>6. ASSUME ~disturbed PROVE out \in Draws!GetHAavailabilityZones(r.first)
    <3>1. r.temp \in Zones \ {r.first}
      BY <1>1, <1>3, <1>9, <2>6 DEF Finds, r
    <3>2. L[1] \in Zones
      BY <2>1, NPositive DEF DrawsInv
    <3>3. QED
      BY <2>1, <2>2, <3>1, <3>2, ScaleUpPromise
  <2>7. QED
    BY <1>9, <2>3, <2>5, <2>6 DEF r, s
<1>10. QED
  BY <1>8, <1>9

\* A call starts with the record new, which works on the list L.
LEMMA StartKeeps ==
  ASSUME DrawsInv, NEW c \in Caller, NEW new, Starts(c, new), new.pc # "idle",
         Own(c)', ~disturbed' => Calm(c)'
  PROVE  DrawsInv'
<1>1. /\ call'[c] = new /\ pool' = pool /\ pool \in [1..N -> Zones]
      /\ \A d \in Caller : d # c => call'[d] = call[d]
      /\ disturbed => disturbed'
  BY DEF Starts, DrawsInv
<1>2. ASSUME NEW d \in Caller, d # c
      PROVE  /\ ~Active(d)' => call'[d].n = 0 /\ call'[d].first = NoZone
             /\ Active(d)' => Own(d)'
             /\ Active(d)' /\ ~disturbed' => Calm(d)'
  BY <1>1, <1>2, OthersKeep
<1>3. Active(c)'
  BY <1>1 DEF Active
<1>4. QED
  BY <1>1, <1>2, <1>3 DEF DrawsInv

LEMMA StartDefaultInv ==
  ASSUME Shape, DrawsInv, PoolInv, NEW c \in Caller, StartDefault(c)
  PROVE  /\ DrawsInv'
         /\ \E n \in Counts : call'[c].n = n /\ call'[c].first = NoZone
         /\ call'[c].pc # "done" /\ (disturbed => disturbed')
<1>1. PICK n \in Counts : \E new :
        /\ Starts(c, new)
        /\ new.n = n /\ new.first = NoZone /\ new.i = N /\ new.stage = "shuffle"
        /\ new.temp = NoZone /\ new.list = << >> /\ new.out = << >>
        /\ new.pc = IF n > N THEN "copy" ELSE IF N > 1 THEN "draw" ELSE "answer"
  BY StartDefaultChange
<1>2. PICK new :
        /\ Starts(c, new)
        /\ new.n = n /\ new.first = NoZone /\ new.i = N /\ new.stage = "shuffle"
        /\ new.temp = NoZone /\ new.list = << >> /\ new.out = << >>
        /\ new.pc = IF n > N THEN "copy" ELSE IF N > 1 THEN "draw" ELSE "answer"
  BY <1>1
<1>3. call'[c] = new /\ pool' = pool /\ pool \in [1..N -> Zones] /\ (disturbed => disturbed')
  BY <1>2 DEF Starts, DrawsInv
<1>4. new.pc \notin {"idle", "done"}
  BY <1>2
<1>5. PICK L : L = IF n > N THEN << >> ELSE pool
  OBVIOUS
<1>6. Slice(c)' = L
  BY <1>2, <1>3, <1>5 DEF Slice, Private
<1>7. /\ Counters(new, L) /\ Finds(new, pool)
      /\ Range(pool) = Zones => Sorts(new, L) /\ Repeats(new, L, pool)
  BY <1>2, <1>3, <1>5, DefaultStarts
<1>8. Own(c)'
  BY <1>3, <1>6, <1>7 DEF Own
<1>9. ASSUME ~disturbed' PROVE Calm(c)'
  <2>1. Range(pool) = Zones
    BY <1>2, <1>9 DEF PoolInv, SharedInv, Starts, Shares, Active
  <2>2. QED
    BY <1>3, <1>6, <1>7, <2>1 DEF Calm
<1>10. DrawsInv'
  BY <1>2, <1>4, <1>8, <1>9, StartKeeps
<1>11. QED
  BY <1>2, <1>3, <1>4, <1>10

LEMMA StartScaleUpInv ==
  ASSUME Shape, DrawsInv, PoolInv, NEW c \in Caller, StartScaleUp(c)
  PROVE  /\ DrawsInv'
         /\ \E first \in FirstAZs : call'[c].n = 3 /\ call'[c].first = first
         /\ call'[c].pc # "done" /\ (disturbed => disturbed')
<1>1. PICK first \in FirstAZs : \E new :
        /\ Starts(c, new)
        /\ new.n = 3 /\ new.first = first
        /\ new.i = 1 /\ new.stage = "shuffle" /\ new.pc = "scan"
        /\ new.temp = NoZone /\ new.list = << >> /\ new.out = << >>
  BY StartScaleUpChange
<1>2. PICK new :
        /\ Starts(c, new)
        /\ new.n = 3 /\ new.first = first
        /\ new.i = 1 /\ new.stage = "shuffle" /\ new.pc = "scan"
        /\ new.temp = NoZone /\ new.list = << >> /\ new.out = << >>
  BY <1>1
<1>3. call'[c] = new /\ pool' = pool /\ pool \in [1..N -> Zones] /\ (disturbed => disturbed')
  BY <1>2 DEF Starts, DrawsInv
<1>4. first # NoZone
  BY ScaleUpInTwoZones, NoZoneIsNoZone
<1>5. Slice(c)' = pool
  BY <1>2, <1>3, <1>4 DEF Slice, Private
<1>6. Counters(new, pool) /\ Sorts(new, pool) /\ Repeats(new, pool, pool) /\ Finds(new, pool)
  BY <1>2, <1>3, ScaleUpStarts
<1>7. Own(c)' /\ Calm(c)'
  BY <1>3, <1>5, <1>6 DEF Own, Calm
<1>8. DrawsInv'
  BY <1>2, <1>7, StartKeeps
<1>9. QED
  BY <1>2, <1>3, <1>8

LEMMA ReturnInv ==
  ASSUME Shape, DrawsInv, NEW c \in Caller, Return(c)
  PROVE  DrawsInv'
<1>1. /\ call'[c] = IdleCall /\ UNCHANGED <<pool, disturbed>> /\ pool \in [1..N -> Zones]
      /\ \A d \in Caller : d # c => call'[d] = call[d]
  BY ReturnChange DEF DrawsInv
<1>2. ~Active(c)' /\ call'[c].n = 0 /\ call'[c].first = NoZone
  BY <1>1, IdleFields DEF Active
<1>3. ASSUME NEW d \in Caller, d # c
      PROVE  /\ ~Active(d)' => call'[d].n = 0 /\ call'[d].first = NoZone
             /\ Active(d)' => Own(d)'
             /\ Active(d)' /\ ~disturbed' => Calm(d)'
  BY <1>1, <1>3, OthersKeep
<1>4. QED
  BY <1>1, <1>2, <1>3 DEF DrawsInv

LEMMA DrawsInit ==
  ASSUME Init
  PROVE  DrawsInv
<1>1. \A c \in Caller : call[c] = IdleCall
  BY DEF Init
<1>2. \A c \in Caller : ~Active(c) /\ call[c].n = 0 /\ call[c].first = NoZone
  BY <1>1, IdleFields DEF Active
<1>3. QED
  BY <1>2 DEF Init, DrawsInv

LEMMA DrawsSteps ==
  ASSUME Shape, PoolInv, DrawsInv, [Next]_vars
  PROVE  DrawsInv'
<1>1. CASE UNCHANGED vars
  <2>1. UNCHANGED <<pool, call, disturbed>>
    BY <1>1 DEF vars
  <2>2. \A c \in Caller : (Active(c)' <=> Active(c)) /\ Slice(c)' = Slice(c)
    BY <2>1 DEF Active, Slice, Private
  <2>3. QED
    BY <2>1, <2>2 DEF DrawsInv, Own, Calm
<1>2. CASE Next
  BY <1>2, StartDefaultInv, StartScaleUpInv, CopyInv, ScanInv, DrawInv, LoadPInv, LoadQInv,
     StorePInv, StoreQInv, AnswerInv, ReturnInv DEF Next
<1>3. QED
  BY <1>1, <1>2

-----------------------------------------------------------------------------
(* The answers are those of ZoneDraws.                                     *)

\* Its variables asked and answer, as AvailabilityZonePool has them.
Question(c) == [n |-> call[c].n, first |-> call[c].first]
Given(c) == IF call[c].pc = "done" THEN call[c].out ELSE << >>
Questions == [c \in Caller |-> Question(c)]
Answers == [c \in Caller |-> Given(c)]

\* No other call asks or is answered.
OthersStay(c) ==
  \A d \in Caller : d # c => Question(d)' = Question(d) /\ Given(d)' = Given(d)

LEMMA OtherCalls ==
  ASSUME NEW c \in Caller, \A d \in Caller : d # c => call'[d] = call[d]
  PROVE  OthersStay(c)
BY DEF OthersStay, Question, Given

LEMMA Stutters ==
  ASSUME NEW c \in Caller, OthersStay(c), Question(c)' = Question(c), Given(c)' = Given(c)
  PROVE  UNCHANGED <<Questions, Answers>>
<1>1. \A d \in Caller : Question(d)' = Question(d) /\ Given(d)' = Given(d)
  BY DEF OthersStay
<1>2. QED
  BY <1>1 DEF Questions, Answers

LEMMA Asks ==
  ASSUME NEW c \in Caller, OthersStay(c), Question(c) = Draws!NotAsked,
         Question(c)' \in Draws!Questions, Given(c)' = Given(c), disturbed => disturbed'
  PROVE  Draws!Ask(c)
<1>1. Questions[c] = Draws!NotAsked
  BY DEF Questions
<1>2. PICK question \in Draws!Questions : question = Question(c)'
  OBVIOUS
<1>3. Questions' = [Questions EXCEPT ![c] = question]
  BY <1>2 DEF Questions, OthersStay
<1>4. Answers' = Answers
  BY DEF Answers, OthersStay
<1>5. ~disturbed' => ~disturbed
  OBVIOUS
<1>6. QED
  BY <1>1, <1>3, <1>4, <1>5, Zenon DEF Draws!Ask, Questions, Answers, Question, Given

LEMMA Replies ==
  ASSUME NEW c \in Caller, OthersStay(c), Question(c)' = Question(c),
         Question(c) # Draws!NotAsked, Given(c) = << >>, Given(c)' # << >>,
         ~disturbed => Given(c)' \in Draws!Promised(Question(c)),
         disturbed => Draws!Possible(Question(c), Given(c)'), disturbed' = disturbed
  PROVE  Draws!Reply(c)
<1>1. Questions[c] = Question(c) /\ Answers[c] = << >> /\ Answers'[c] = Given(c)'
  BY DEF Questions, Answers
<1>2. Questions' = Questions
  BY DEF Questions, OthersStay
<1>3. PICK azs : azs = Given(c)'
  OBVIOUS
<1>4. Answers' = [Answers EXCEPT ![c] = azs]
  BY <1>3 DEF Answers, OthersStay
<1>5. IF ~disturbed THEN azs \in Draws!Promised(Questions[c])
      ELSE Draws!Possible(Questions[c], azs)
  BY <1>1, <1>3
<1>6. /\ Questions[c] # Draws!NotAsked /\ Answers[c] = << >>
      /\ azs # << >> /\ Answers'[c] = azs
  BY <1>1, <1>3
<1>7. QED
  BY <1>2, <1>4, <1>5, <1>6, Zenon DEF Draws!Reply, Questions, Answers, Question, Given

LEMMA Returns ==
  ASSUME NEW c \in Caller, OthersStay(c), Given(c) # << >>, Given(c)' = << >>,
         Question(c)' = Draws!NotAsked, disturbed' = disturbed
  PROVE  Draws!Return(c)
<1>1. Answers[c] # << >>
  BY DEF Answers
<1>2. Questions' = [Questions EXCEPT ![c] = Draws!NotAsked]
  BY DEF Questions, OthersStay
<1>3. Answers' = [Answers EXCEPT ![c] = << >>]
  BY DEF Answers, OthersStay
<1>4. QED
  BY <1>1, <1>2, <1>3, Zenon DEF Draws!Return, Questions, Answers, Question, Given

\* What c asks, and whether it is answered.
LEMMA NothingAsked ==
  ASSUME NEW c, call[c].n = 0, call[c].first = NoZone
  PROVE  Question(c) = Draws!NotAsked
BY DEF Question, Draws!NotAsked

LEMMA SomethingAsked ==
  ASSUME NEW r, Asked(r), NEW question, question = [n |-> r.n, first |-> r.first]
  PROVE  question \in Draws!Questions /\ question # Draws!NotAsked
<1>1. r.n # 0
  BY AskedFor
<1>2. question # Draws!NotAsked
  BY <1>1 DEF Draws!NotAsked
<1>3. question \in Draws!Questions
  BY DEF Draws!Questions, Asked
<1>4. QED
  BY <1>2, <1>3

LEMMA StartAsks ==
  ASSUME DrawsInv, NEW c \in Caller, ~Active(c), Asked(call'[c]), call'[c].pc # "done",
         OthersStay(c), disturbed => disturbed'
  PROVE  Draws!Ask(c)
<1>1. Question(c) = Draws!NotAsked
  BY NothingAsked DEF DrawsInv
<1>2. Question(c)' \in Draws!Questions
  <2>1. PICK question : question = [n |-> call'[c].n, first |-> call'[c].first]
    OBVIOUS
  <2>2. question \in Draws!Questions
    BY <2>1, SomethingAsked
  <2>3. QED
    BY <2>1, <2>2 DEF Question
<1>3. Given(c)' = Given(c)
  BY DEF Given, Active
<1>4. QED
  BY <1>1, <1>2, <1>3, Asks

LEMMA QuestionStays ==
  ASSUME NEW c \in Caller, Step(c)
  PROVE  OthersStay(c) /\ Question(c)' = Question(c)
BY OtherCalls DEF Step, Question

\* The last entry of an answer.
LEMMA AnswerReplies ==
  ASSUME Shape, DrawsInv, PoolInv, NEW c \in Caller, Answer(c), call'[c].pc = "done"
  PROVE  Draws!Reply(c)
<1>1. /\ call[c].pc = "answer" /\ disturbed' = disturbed
      /\ Step(c)
  BY AnswerChange DEF Answer, Moves
<1>2. Asked(call[c])
  BY <1>1 DEF DrawsInv, Own, Counters, Active
<1>3. Given(c) = << >> /\ Given(c)' = call'[c].out
  BY <1>1 DEF Given
<1>4. call'[c].out # << >>
  BY AnswerInv DEF DrawsInv, Own, Counters, Active
<1>5. Question(c).n = call[c].n /\ Question(c).first = call[c].first
  BY DEF Question
<1>6. ~disturbed => call'[c].out \in Draws!Promised(Question(c))
  BY <1>5, AnswerInv DEF Draws!Promised
<1>7. Draws!Possible(Question(c), call'[c].out)
  <2>1. CASE call[c].first = NoZone
    <3>1. call'[c].out \in Seq(Zones) /\ Len(call'[c].out) = call[c].n
      BY <2>1, AnswerInv
    <3>2. Draws!Range(call'[c].out) \subseteq Zones
      BY <3>1 DEF Draws!Range
    <3>3. QED
      BY <1>5, <3>1, <3>2 DEF Draws!Possible
  <2>2. CASE call[c].first # NoZone
    BY <1>5, <2>2 DEF Draws!Possible
  <2>3. QED
    BY <2>1, <2>2
<1>8. Question(c) # Draws!NotAsked
  BY <1>2, SomethingAsked DEF Question
<1>9. QED
  BY <1>1, <1>3, <1>4, <1>6, <1>7, <1>8, QuestionStays, Replies

\* Every step asks, answers or returns, or does nothing that a caller sees.
LEMMA DrawsNext ==
  ASSUME Shape, PoolInv, DrawsInv, [Next]_vars
  PROVE  Draws!Next \/ UNCHANGED <<Questions, Answers, disturbed>>
<1>1. CASE UNCHANGED vars
  BY <1>1 DEF vars, Questions, Answers, Question, Given
<1>2. ASSUME NEW c \in Caller, StartDefault(c) PROVE Draws!Ask(c)
  <2>1. ~Active(c) /\ OthersStay(c)
    BY <1>2, StartDefaultChange, OtherCalls DEF StartDefault, Active, Starts
  <2>2. Asked(call'[c]) /\ call'[c].pc # "done" /\ (disturbed => disturbed')
    BY <1>2, StartDefaultInv DEF Asked
  <2>3. QED
    BY <2>1, <2>2, StartAsks
<1>3. ASSUME NEW c \in Caller, StartScaleUp(c) PROVE Draws!Ask(c)
  <2>1. ~Active(c) /\ OthersStay(c)
    BY <1>3, StartScaleUpChange, OtherCalls DEF StartScaleUp, Active, Starts
  <2>2. Asked(call'[c]) /\ call'[c].pc # "done" /\ (disturbed => disturbed')
    BY <1>3, StartScaleUpInv DEF Asked
  <2>3. QED
    BY <2>1, <2>2, StartAsks
<1>4. ASSUME NEW c \in Caller, Return(c) PROVE Draws!Return(c)
  <2>1. call[c].pc = "done" /\ disturbed' = disturbed
    BY <1>4 DEF Return
  <2>2. Given(c) # << >>
    BY <2>1 DEF Given, DrawsInv, Own, Counters, Active
  <2>3. call'[c] = IdleCall /\ OthersStay(c)
    BY <1>4, ReturnChange, OtherCalls
  <2>4. Given(c)' = << >>
    BY <2>3, IdleFields DEF Given
  <2>5. Question(c)' = Draws!NotAsked
    BY <2>3, IdleFields DEF Question, Draws!NotAsked
  <2>6. QED
    BY <2>1, <2>2, <2>3, <2>4, <2>5, Returns
<1>5. ASSUME NEW c \in Caller, Step(c), disturbed' = disturbed,
             call[c].pc # "done", call'[c].pc # "done"
      PROVE  UNCHANGED <<Questions, Answers, disturbed>>
  <2>1. Given(c)' = Given(c)
    BY <1>5 DEF Given
  <2>2. QED
    BY <1>5, <2>1, QuestionStays, Stutters
<1>6. ASSUME NEW c \in Caller, Answer(c)
      PROVE  Draws!Reply(c) \/ UNCHANGED <<Questions, Answers, disturbed>>
  <2>1. Step(c) /\ disturbed' = disturbed /\ call[c].pc # "done"
    BY <1>6, AnswerChange DEF Answer, Moves
  <2>2. QED
    BY <1>5, <1>6, <2>1, AnswerReplies
<1>7. ASSUME NEW c \in Caller,
             \/ Copy(c) \/ Scan(c) \/ Draw(c) \/ LoadP(c) \/ LoadQ(c)
             \/ StoreP(c) \/ StoreQ(c)
      PROVE  UNCHANGED <<Questions, Answers, disturbed>>
  <2>1. Step(c)
    BY <1>7, CopyChange, ScanChange, DrawChange, LoadPChange, LoadQChange, StorePChange,
       StoreQChange DEF Change, Moves
  <2>2. disturbed' = disturbed
    BY <1>7, StorePChange, StoreQChange DEF Stored, Copy, Scan, Draw, LoadP, LoadQ
  <2>3. call'[c].pc # "done"
    BY <1>7, CopyChange, ScanChange, DrawChange, LoadPChange, LoadQChange, StorePChange,
       StoreQChange DEF Change, Moves
  <2>4. call[c].pc # "done"
    BY <1>7 DEF Copy, Scan, Draw, LoadP, LoadQ, StoreP, StoreQ
  <2>5. QED
    BY <1>5, <2>1, <2>2, <2>3, <2>4
<1>8. ASSUME NEW c \in Caller, Draws!Ask(c) \/ Draws!Reply(c) \/ Draws!Return(c)
      PROVE  Draws!Next
  BY <1>8 DEF Draws!Next
<1>9. QED
  BY <1>1, <1>2, <1>3, <1>4, <1>6, <1>7, <1>8 DEF Next

(***************************************************************************)
(* THEOREM: every answer of GetNavailabilityZones and                      *)
(* getHAavailabilityZones is one that ControlPlane takes it to be, chosen  *)
(* in one step and by nobody but the call, until a call that works on the  *)
(* shared list overlaps another one.  Even then default zones are as many  *)
(* as were asked for, and zones of the installation.                       *)
(***************************************************************************)
THEOREM DrawsAsPromised == Spec => AnswersAsPromised
<1> DEFINE Inv == Shape /\ PoolInv /\ DrawsInv
<1>1. Init => Inv
  BY PoolInit, DrawsInit
<1>2. Inv /\ [Next]_vars => Inv'
  BY PoolSteps, DrawsSteps
<1>3. Init => Draws!Init
  <2> SUFFICES ASSUME Init PROVE Draws!Init
    OBVIOUS
  <2>1. \A c \in Caller : call[c] = IdleCall
    BY DEF Init
  <2>2. \A c \in Caller : Question(c) = Draws!NotAsked /\ Given(c) = << >>
    BY <2>1, IdleFields DEF Question, Given, Draws!NotAsked
  <2>3. Questions = [c \in Caller |-> Draws!NotAsked] /\ Answers = [c \in Caller |-> << >>]
    BY <2>2 DEF Questions, Answers
  <2>4. ~disturbed = TRUE
    BY DEF Init
  <2>5. QED
    BY <2>3, <2>4, Zenon DEF Draws!Init, Questions, Answers, Question, Given
<1>4. Inv /\ [Next]_vars => [Draws!Next]_<<Questions, Answers, ~disturbed>>
  BY DrawsNext
<1> HIDE DEF Inv
<1>5. Inv /\ [Next]_vars =>
        [Draws!Next]_<<[c \in Caller |-> [n |-> call[c].n, first |-> call[c].first]],
                       [c \in Caller |-> IF call[c].pc = "done" THEN call[c].out ELSE << >>],
                       ~disturbed>>
  BY <1>4 DEF Questions, Answers, Question, Given
<1>6. QED
  BY <1>1, <1>2, <1>3, <1>5, PTL DEF Spec, AnswersAsPromised, Draws!Spec
=============================================================================
