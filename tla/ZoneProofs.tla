----------------------------- MODULE ZoneProofs -----------------------------
(***************************************************************************)
(* Proofs about the zones: the ladder of the detector (SupportLadder) and  *)
(* the tracks that publish it (ZoneTracks).                                *)
(*                                                                         *)
(* Of the ladder, for all evidence, prices and knobs: the last fill takes  *)
(* away no zone, no bar takes a persistent floor off it, and a flip costs  *)
(* no local step.  Of the tracks, for every set of bands, every score and  *)
(* every threshold: the counts of a track stay below the thresholds that   *)
(* end them, a shelf comes on the ladder only after two prints, and a      *)
(* published band moves only to a level printed twice.  A shelf leaves     *)
(* only for a rival printed twice, after its band was absent, or for       *)
(* another of its family, if misses retire a track soon enough after wins  *)
(* replace one.                                                            *)
(*                                                                         *)
(* Both are made of folds, and both sort.  The first part proves induction *)
(* over the naturals from the well-foundedness of strict inclusion, and    *)
(* with it what a fold keeps, one case of Step per fold; and that a finite *)
(* total order has a member at every rank.                                 *)
(*                                                                         *)
(* The ladder: every builder makes zones whose low is not above their high *)
(* (Lawful), of which only PersistentFloors makes floors; a persistent     *)
(* floor comes before all other zones in every contest but with an older   *)
(* one, so what clears the ladder by age leaves the same floors (Kernel)   *)
(* on every bar that keeps the older floors; a fill stands clear of both   *)
(* its boundaries, and so of all that is beyond them (Room).               *)
(*                                                                         *)
(* The tracks: AdvancedOutcomes says what the tracks after a step are; the *)
(* rest is the inductive invariant and what follows from it.               *)
(*                                                                         *)
(* Joined (PublishedLadder): no two zones of a ladder are closer than the  *)
(* tracks take bands to be, so a refresh is a step of the tracks and what  *)
(* is proved of them holds of the ladders the detector makes of any bars.  *)
(***************************************************************************)
EXTENDS PublishedLadder, SequenceTheorems, FiniteSetTheorems, TLAPS

(***************************************************************************)
(* Induction over the naturals, and folds.                                 *)
(***************************************************************************)

\* Numbers have a least: the one with the fewest below it.
LEMMA NatLeast ==
  ASSUME NEW T \in SUBSET Nat, T # {}
  PROVE  \E n \in T : \A m \in T : n <= m
<1> DEFINE below == {0 .. n - 1 : n \in T}
<1>1. below \subseteq FiniteSubsetsOf(Nat) /\ below # {}
  <2>1. \A n \in T : 0 .. n - 1 \in SUBSET Nat
    OBVIOUS
  <2>2. \A n \in T : IsFiniteSet(0 .. n - 1)
    BY FS_Interval
  <2> QED BY <2>1, <2>2 DEF FiniteSubsetsOf
<1> HIDE DEF below
<1>2. \E x \in below : \A y \in below : ~(<<y, x>> \in StrictSubsetOrdering(Nat))
  BY <1>1, FS_StrictSubsetOrderingWellFounded, WFMin
<1>3. PICK n \in T : \A m \in T : ~(<<0 .. m - 1, 0 .. n - 1>> \in StrictSubsetOrdering(Nat))
  BY <1>2 DEF below
<1>4. ASSUME NEW m \in T, m < n PROVE FALSE
  <2>1. 0 .. m - 1 \in SUBSET Nat /\ 0 .. n - 1 \in SUBSET Nat
    BY <1>4
  <2>2. 0 .. m - 1 \subseteq 0 .. n - 1 /\ m \in 0 .. n - 1 /\ m \notin 0 .. m - 1
    BY <1>4
  <2> QED BY <1>3, <2>1, <2>2 DEF StrictSubsetOrdering
<1> QED BY <1>4

LEMMA Induction ==
  ASSUME NEW S, 0 \in S, \A n \in Nat : n \in S => n + 1 \in S
  PROVE  \A n \in Nat : n \in S
<1> SUFFICES ASSUME Nat \ S # {} PROVE FALSE
  OBVIOUS
<1>1. PICK n \in Nat \ S : \A m \in Nat \ S : n <= m
  BY NatLeast
<1>2. n - 1 \in Nat /\ n - 1 \in S
  BY <1>1
<1> QED BY <1>1, <1>2

\* The three ways in which one zone stands in the way of another.
Conflict(name, a, b) ==
  CASE name = "overlap" -> Overlap(a, b)
    [] name = "crowds"  -> Crowds(a, b)
    [] name = "close"   -> Mid2(a) - Mid2(b) \in
                             (1 - 2 * Spacing) .. (2 * Spacing - 1)

\* A long wick and every other low whose body came back to it.
Returns(raw, low) ==
  Pick(raw, {k \in DOMAIN raw : /\ raw[k].kind = "low" /\ raw[k].index # low.index
                               /\ raw[k].body - low.wick \in
                                    -RetestTolerance .. RetestTolerance})

FloorOf(raw, low) ==
  <<Candidate(low, low.wick, "structure_swing_low_wick", "support_floor")>>
    \o [k \in DOMAIN Returns(raw, low) |->
          Candidate(Returns(raw, low)[k], Returns(raw, low)[k].body,
                    "structure_swing_low_body_floor", "support_floor")]

\* What the folds and the recursive functions do with one more element.
Step(kind, acc, x) ==
  CASE kind[1] = "pick" -> IF x \in kind[2] THEN Append(acc, kind[3][x]) ELSE acc
    [] kind[1] = "insert" -> Insert(acc, x, kind[2])
    [] kind[1] = "cluster" ->
         LET fits == {k \in DOMAIN acc : /\ acc[k][1].style = x.style
                                         /\ x.price - acc[k][1].price <= ZoneWidth}
         IN IF fits = {} THEN Append(acc, <<x>>)
            ELSE [acc EXCEPT ![Min(fits)] = Append(@, x)]
    [] kind[1] = "flip" ->
         IF Retests(x, kind[2]) = << >> THEN acc
         ELSE IF \/ Cardinality(FlipZone(x, kind[2]).sources \ {x.index}) < kind[4]
                 \/ AnyOf(kind[3] \o acc, LAMBDA other : Overlap(FlipZone(x, kind[2]), other))
              THEN acc ELSE Append(acc, FlipZone(x, kind[2]))
    [] kind[1] = "bar" ->
         [n  |-> acc.n + 1,
          ev |-> AddPivot(Closed(acc.ev, acc.n + 1, FirstPrice), x, acc.n + 1, FALSE)]
    [] kind[1] = "clear" ->
         IF \E k \in DOMAIN acc : Conflict(kind[2], x, acc[k]) THEN acc ELSE Append(acc, x)
    [] kind[1] = "distinct" ->
         IF acc = << >> \/ ~Overlap(Last(acc), x) THEN Append(acc, x)
         ELSE IF Prefers(Last(acc), x) THEN acc
         ELSE Append(Front(acc), x)
    [] kind[1] = "merge" ->
         IF acc = << >> \/ ~CanJoin(Last(acc), x) THEN Append(acc, <<x>>)
         ELSE [acc EXCEPT ![Len(acc)] = Append(@, x)]
    [] kind[1] = "closes" -> acc \o x.closes
    [] kind[1] = "score"  -> acc + x.score
    [] kind[1] = "collapse" ->
         IF \/ acc = << >> \/ Last(acc).style # x.style \/ x.low - Last(acc).high >= MinGap
         THEN Append(acc, x)
         ELSE IF Last(acc).touches - x.touches >= TouchMargin THEN acc
         ELSE Append(Front(acc), x)
    [] kind[1] = "floor" -> acc \o FloorOf(kind[2], x)
    [] kind[1] = "stair" ->
         StairTurn(acc, StairOffers(acc.zones, IF acc.internal THEN kind[3] ELSE kind[2],
                                    kind[4]))
    [] kind[1] = "found" ->
         acc \o Inside(ZonesOfClusters(InGap(x, kind[2], kind[3], FALSE, 0), kind[4]),
                       kind[2], kind[3])
    [] kind[1] = "fill" -> acc \o GapFill(kind[2][x], kind[2][x + 1], kind[3], kind[4])
    [] kind[1] = "rejection" ->
         IF AnyOf(acc, LAMBDA z : /\ z.origin = "mixed_structure"
                                 /\ z.low >= x[1].low /\ z.high <= x[2].high)
         THEN Selection(acc, LAMBDA z : ~(/\ z.origin = "mixed_structure"
                                         /\ z.low >= x[1].low /\ z.high <= x[2].high)) \o x
         ELSE acc
    [] kind[1] = "daily" ->
         IF AnyOf(acc, LAMBDA z : Overlap(z, x) /\ ~DailyMayReplace(z)) THEN acc
         ELSE IF AnyOf(acc, LAMBDA z : Overlap(z, x))
         THEN Append(Selection(acc, LAMBDA z : ~Overlap(z, x)), x)
         ELSE IF Crowding(acc, x) = {} THEN Append(acc, x)
         ELSE Append(RemoveAt(acc, NearestAbove(acc, x)), x)
    [] kind[1] = "ordinary" ->
         IF IsFlip(x) \/ (acc # << >> /\ ShareLadderSlot(Last(acc), x)) THEN acc
         ELSE Append(acc, x)
    [] kind[1] = "select" ->
         IF ~Admits(x, kind[2]) THEN acc
         ELSE IF acc = << >> \/ ~ShareLadderSlot(Last(acc), x) THEN Append(acc, x)
         ELSE IF Beats(x, Last(acc)) THEN Append(Front(acc), x)
         ELSE acc
    [] kind[1] = "take" -> Take(kind[2], kind[3], kind[4], acc, x)
    [] kind[1] = "face" -> Face(kind[2], kind[3], acc, x)
    [] kind[1] = "flat" -> acc \o x

\* The function on sets of indexes by which the library defines a fold.
IsFold(kind, base, s, n, f) ==
  f = [D \in SUBSET (1 .. n) |-> IF D = {} THEN base ELSE Step(kind, f[D \ {Max(D)}], s[Max(D)])]

Fold(kind, base, s) == (CHOOSE f : IsFold(kind, base, s, Len(s), f))[1 .. Len(s)]

LEMMA MaxOfPrefix ==
  ASSUME NEW n \in Nat, NEW D \in SUBSET (1 .. n + 1), n + 1 \in D
  PROVE  Max(D) = n + 1
<1>1. \A x \in D : x \in Int /\ x <= n + 1
  OBVIOUS
<1>2. \A x \in D : (\A y \in D : x >= y) => x = n + 1
  BY <1>1
<1>3. \A y \in D : n + 1 >= y
  BY <1>1
<1> QED BY <1>2, <1>3 DEF Max

LEMMA FoldExists ==
  ASSUME NEW kind, NEW base, NEW s
  PROVE  \A n \in Nat : \E f : IsFold(kind, base, s, n, f)
<1> DEFINE S == {n \in Nat : \E f : IsFold(kind, base, s, n, f)}
<1>1. 0 \in S
  <2> DEFINE f == [D \in SUBSET (1 .. 0) |-> base]
  <2>1. \A D \in SUBSET (1 .. 0) : D = {}
    OBVIOUS
  <2>2. IsFold(kind, base, s, 0, f)
    BY <2>1 DEF IsFold
  <2> QED BY <2>2
<1>2. ASSUME NEW n \in Nat, n \in S PROVE n + 1 \in S
  <2>1. PICK f : IsFold(kind, base, s, n, f)
    BY <1>2
  <2> DEFINE g == [D \in SUBSET (1 .. n + 1) |->
                     IF n + 1 \in D THEN Step(kind, f[D \ {n + 1}], s[n + 1]) ELSE f[D]]
  <2>2. ASSUME NEW D \in SUBSET (1 .. n + 1), D # {}
        PROVE  g[D] = Step(kind, g[D \ {Max(D)}], s[Max(D)])
    <3>1. CASE n + 1 \in D
      <4>1. Max(D) = n + 1 /\ D \ {n + 1} \in SUBSET (1 .. n + 1) /\ n + 1 \notin D \ {n + 1}
        BY <3>1, MaxOfPrefix
      <4>2. g[D] = Step(kind, f[D \ {n + 1}], s[n + 1])
        BY <3>1
      <4>3. g[D \ {n + 1}] = f[D \ {n + 1}]
        BY <4>1
      <4> QED BY <4>1, <4>2, <4>3
    <3>2. CASE n + 1 \notin D
      <4>1. D \in SUBSET (1 .. n)
        BY <3>2
      <4>2. f[D] = Step(kind, f[D \ {Max(D)}], s[Max(D)])
        BY <2>1, <2>2, <4>1 DEF IsFold
      <4>3. D \ {Max(D)} \in SUBSET (1 .. n + 1) /\ n + 1 \notin D \ {Max(D)}
        BY <3>2
      <4>4. g[D] = f[D] /\ g[D \ {Max(D)}] = f[D \ {Max(D)}]
        BY <3>2, <4>3
      <4> QED BY <4>2, <4>4
    <3> QED BY <3>1, <3>2
  <2>3. g[{}] = base
    <3>1. f[{}] = base
      BY <2>1 DEF IsFold
    <3> QED BY <3>1
  <2>4. IsFold(kind, base, s, n + 1, g)
    <3>1. \A D \in SUBSET (1 .. n + 1) :
            g[D] = IF D = {} THEN base ELSE Step(kind, g[D \ {Max(D)}], s[Max(D)])
      <4> HIDE DEF g
      <4> QED BY <2>2, <2>3
    <3>2. g = [D \in SUBSET (1 .. n + 1) |-> g[D]]
      OBVIOUS
    <3>3. g = [D \in SUBSET (1 .. n + 1) |->
                 IF D = {} THEN base ELSE Step(kind, g[D \ {Max(D)}], s[Max(D)])]
      <4> HIDE DEF g
      <4> QED BY <3>1, <3>2
    <3> HIDE DEF g
    <3> QED BY <3>3 DEF IsFold
  <2> HIDE DEF g
  <2> QED BY <2>4
<1> HIDE DEF S
<1>3. \A n \in Nat : n \in S
  BY <1>1, <1>2, Induction
<1> QED BY <1>3 DEF S

\* One step of it.
LEMMA FoldUnrolls ==
  ASSUME NEW kind, NEW base, NEW s, NEW n \in Nat, NEW f, IsFold(kind, base, s, n, f),
         NEW k \in Nat, k + 1 <= n
  PROVE  f[1 .. k + 1] = Step(kind, f[1 .. k], s[k + 1])
<1>1. 1 .. k + 1 \in SUBSET (1 .. n) /\ 1 \in 1 .. k + 1
  OBVIOUS
<1>2. Max(1 .. k + 1) = k + 1 /\ (1 .. k + 1) \ {k + 1} = 1 .. k
  BY MaxOfPrefix
<1>3. f[1 .. k + 1] = Step(kind, f[(1 .. k + 1) \ {Max(1 .. k + 1)}], s[Max(1 .. k + 1)])
  BY <1>1 DEF IsFold
<1> QED BY <1>2, <1>3

(***************************************************************************)
(* Finite sets in order.                                                   *)
(***************************************************************************)
Below(S, R, x) == {y \in S : <<y, x>> \in R}

StrictOrder(S, R) ==
  /\ \A x \in S : <<x, x>> \notin R
  /\ \A x, y, z \in S : <<x, y>> \in R /\ <<y, z>> \in R => <<x, z>> \in R

Total(S, R) == \A x, y \in S : x # y => <<x, y>> \in R \/ <<y, x>> \in R

\* Whatever comes earlier has fewer before it.
LEMMA EarlierRanksLower ==
  ASSUME NEW S, IsFiniteSet(S), NEW R, StrictOrder(S, R), NEW x \in S
  PROVE  /\ Cardinality(Below(S, R, x)) \in 0 .. Cardinality(S) - 1
         /\ \A y \in S : <<y, x>> \in R => Cardinality(Below(S, R, y)) < Cardinality(Below(S, R, x))
<1>1. ASSUME NEW z \in S
      PROVE  /\ Below(S, R, z) \in SUBSET S /\ IsFiniteSet(Below(S, R, z))
             /\ Cardinality(Below(S, R, z)) \in Nat
  <2>1. Below(S, R, z) \in SUBSET S
    BY DEF Below
  <2> QED BY <2>1, FS_Subset, FS_CardinalityType
<1>2. Cardinality(S) \in Nat
  BY FS_CardinalityType
<1>3. Cardinality(Below(S, R, x)) < Cardinality(S)
  <2>1. x \notin Below(S, R, x)
    BY DEF Below, StrictOrder
  <2>2. /\ Cardinality(Below(S, R, x)) <= Cardinality(S)
        /\ Cardinality(S) = Cardinality(Below(S, R, x)) => S = Below(S, R, x)
    BY <1>1, FS_Subset
  <2> QED BY <1>1, <1>2, <2>1, <2>2
<1>4. ASSUME NEW y \in S, <<y, x>> \in R
      PROVE  Cardinality(Below(S, R, y)) < Cardinality(Below(S, R, x))
  <2>1. Below(S, R, y) \in SUBSET Below(S, R, x)
    BY <1>4 DEF Below, StrictOrder
  <2>2. y \in Below(S, R, x) /\ y \notin Below(S, R, y)
    BY <1>4 DEF Below, StrictOrder
  <2>3. IsFiniteSet(Below(S, R, x))
    BY <1>1
  <2>4. /\ Cardinality(Below(S, R, y)) <= Cardinality(Below(S, R, x))
        /\ Cardinality(Below(S, R, x)) = Cardinality(Below(S, R, y)) => Below(S, R, x) = Below(S, R, y)
    BY <2>1, <2>3, FS_Subset
  <2> QED BY <1>1, <2>2, <2>4
<1> QED BY <1>1, <1>2, <1>3, <1>4

\* A finite set has a first member.
LEMMA FirstExists ==
  ASSUME NEW S, IsFiniteSet(S), S # {}, NEW R, StrictOrder(S, R)
  PROVE  \E x \in S : \A y \in S : <<y, x>> \notin R
<1> DEFINE rank(x) == Cardinality(Below(S, R, x))
           T == {rank(x) : x \in S}
<1>1. \A x \in S : rank(x) \in Nat
  <2> SUFFICES ASSUME NEW x \in S PROVE rank(x) \in Nat
    OBVIOUS
  <2>1. rank(x) \in 0 .. Cardinality(S) - 1 /\ Cardinality(S) \in Nat
    BY EarlierRanksLower, FS_CardinalityType
  <2> QED BY <2>1
<1>2. \A x, y \in S : <<y, x>> \in R => rank(y) < rank(x)
  BY EarlierRanksLower
<1> HIDE DEF rank
<1>3. T \in SUBSET Nat /\ T # {}
  BY <1>1
<1>4. PICK n \in T : \A m \in T : n <= m
  <2> HIDE DEF T
  <2> QED BY <1>3, NatLeast
<1>5. PICK x \in S : n = rank(x)
  OBVIOUS
<1>6. ASSUME NEW y \in S, <<y, x>> \in R PROVE FALSE
  BY <1>1, <1>2, <1>4, <1>5, <1>6
<1> QED BY <1>6

\* A total order has a member at every rank.
LEMMA RanksFull ==
  ASSUME NEW S, IsFiniteSet(S), NEW R, StrictOrder(S, R), Total(S, R)
  PROVE  \A k \in 1 .. Cardinality(S) : \E x \in S : Cardinality(Below(S, R, x)) = k - 1
<1> DEFINE n == Cardinality(S)
           f == [x \in S |-> Cardinality(Below(S, R, x))]
<1>1. n \in Nat
  BY FS_CardinalityType
<1>2. f \in [S -> 0 .. n - 1]
  BY EarlierRanksLower
<1>3. \A x, y \in S : f[x] = f[y] => x = y
  <2> SUFFICES ASSUME NEW x \in S, NEW y \in S, x # y PROVE f[x] # f[y]
    OBVIOUS
  <2>1. f[x] \in Int /\ f[y] \in Int
    BY <1>1, <1>2
  <2>2. <<x, y>> \in R => f[x] < f[y]
    BY EarlierRanksLower
  <2>3. <<y, x>> \in R => f[y] < f[x]
    BY EarlierRanksLower
  <2>4. <<x, y>> \in R \/ <<y, x>> \in R
    BY DEF Total
  <2> QED BY <2>1, <2>2, <2>3, <2>4
<1> HIDE DEF f
<1>4. f \in Injection(S, 0 .. n - 1)
  BY <1>2, <1>3 DEF Injection, IsInjective
<1>5. IsFiniteSet(0 .. n - 1) /\ Cardinality(0 .. n - 1) = n
  <2>1. 0 \in Int /\ n - 1 \in Int
    BY <1>1
  <2>2. /\ IsFiniteSet(0 .. n - 1)
        /\ Cardinality(0 .. n - 1) = IF 0 > n - 1 THEN 0 ELSE (n - 1) - 0 + 1
    <3> HIDE DEF n
    <3> QED BY <2>1, FS_Interval
  <2> QED BY <1>1, <2>2
<1>6. f \in Surjection(S, 0 .. n - 1)
  BY <1>4, <1>5, FS_Injection
<1>7. \A k \in 1 .. n : \E x \in S : f[x] = k - 1
  <2> SUFFICES ASSUME NEW k \in 1 .. n PROVE \E x \in S : f[x] = k - 1
    OBVIOUS
  <2>1. k - 1 \in 0 .. n - 1
    BY <1>1
  <2> QED BY <1>6, <2>1 DEF Surjection
<1> QED BY <1>7 DEF f

\* A sequence that has at k the member with k - 1 before it lists the whole
\* order, each member once and in its place.
LEMMA RanksInPlace ==
  ASSUME NEW S, IsFiniteSet(S), NEW R, StrictOrder(S, R), Total(S, R), NEW s,
         \A k \in 1 .. Cardinality(S) : s[k] \in S /\ Cardinality(Below(S, R, s[k])) = k - 1
  PROVE  LET n == Cardinality(S) IN
         /\ \A x \in S : \E k \in 1 .. n : s[k] = x
         /\ \A j, k \in 1 .. n : s[j] = s[k] => j = k
         /\ \A j, k \in 1 .. n : j < k => <<s[k], s[j]>> \notin R
<1> DEFINE n == Cardinality(S)
           rank(x) == Cardinality(Below(S, R, x))
<1>1. n \in Nat
  BY FS_CardinalityType
<1>2. \A x \in S : rank(x) \in 0 .. n - 1
  BY EarlierRanksLower
<1>3. \A x, y \in S : <<y, x>> \in R => rank(y) < rank(x)
  BY EarlierRanksLower
<1>4. \A k \in 1 .. n : s[k] \in S /\ rank(s[k]) = k - 1
  OBVIOUS
<1> HIDE DEF n, rank
<1>5. \A x, y \in S : rank(x) = rank(y) => x = y
  <2> SUFFICES ASSUME NEW x \in S, NEW y \in S, x # y PROVE rank(x) # rank(y)
    OBVIOUS
  <2>1. rank(x) \in Int /\ rank(y) \in Int
    BY <1>1, <1>2
  <2>2. <<x, y>> \in R \/ <<y, x>> \in R
    BY DEF Total
  <2> QED BY <1>3, <2>1, <2>2
<1>6. \A x \in S : \E k \in 1 .. n : s[k] = x
  <2> SUFFICES ASSUME NEW x \in S PROVE \E k \in 1 .. n : s[k] = x
    OBVIOUS
  <2> DEFINE k == rank(x) + 1
  <2>1. k \in 1 .. n /\ k - 1 = rank(x)
    BY <1>1, <1>2
  <2> HIDE DEF k
  <2>2. s[k] = x
    BY <1>4, <1>5, <2>1
  <2> QED BY <2>1, <2>2
<1>7. \A j, k \in 1 .. n : s[j] = s[k] => j = k
  <2> SUFFICES ASSUME NEW j \in 1 .. n, NEW k \in 1 .. n, s[j] = s[k] PROVE j = k
    OBVIOUS
  <2>1. j - 1 = k - 1
    BY <1>4
  <2> QED BY <1>1, <2>1
<1>8. \A j, k \in 1 .. n : j < k => <<s[k], s[j]>> \notin R
  <2> SUFFICES ASSUME NEW j \in 1 .. n, NEW k \in 1 .. n, j < k, <<s[k], s[j]>> \in R PROVE FALSE
    OBVIOUS
  <2>1. k - 1 < j - 1
    BY <1>3, <1>4
  <2> QED BY <1>1, <2>1
<1> QED BY <1>6, <1>7, <1>8 DEF n

SameUpTo(s, t, q) == \A i \in 1 .. q : s[i] = t[i]

LEMMA FoldsAgree ==
  ASSUME NEW kind, NEW base, NEW s, NEW t, NEW n \in Nat, NEW m \in Nat, NEW f, NEW g,
         IsFold(kind, base, s, n, f), IsFold(kind, base, t, m, g),
         NEW q \in Nat, q <= n, q <= m, SameUpTo(s, t, q)
  PROVE  f[1 .. q] = g[1 .. q]
<1> DEFINE S == {k \in Nat : k <= n /\ k <= m /\ (\A i \in 1 .. k : s[i] = t[i])
                               => f[1 .. k] = g[1 .. k]}
<1>1. 0 \in S
  <2>1. 1 .. 0 = {}
    OBVIOUS
  <2>2. f[{}] = base /\ g[{}] = base
    BY DEF IsFold
  <2> QED BY <2>1, <2>2
<1>2. ASSUME NEW k \in Nat, k \in S PROVE k + 1 \in S
  <2> SUFFICES ASSUME k + 1 <= n, k + 1 <= m, \A i \in 1 .. k + 1 : s[i] = t[i]
               PROVE  f[1 .. k + 1] = g[1 .. k + 1]
    OBVIOUS
  <2>1. f[1 .. k] = g[1 .. k] /\ s[k + 1] = t[k + 1]
    BY <1>2
  <2>2. f[1 .. k + 1] = Step(kind, f[1 .. k], s[k + 1])
    BY FoldUnrolls
  <2>3. g[1 .. k + 1] = Step(kind, g[1 .. k], t[k + 1])
    BY FoldUnrolls
  <2> QED BY <2>1, <2>2, <2>3
<1> HIDE DEF S
<1>3. \A k \in Nat : k \in S
  BY <1>1, <1>2, Induction
<1>4. q \in S
  BY <1>3
<1> QED BY <1>4 DEF S, SameUpTo

LEMMA FoldChosen ==
  ASSUME NEW kind, NEW base, NEW s, Len(s) \in Nat
  PROVE  \E f : IsFold(kind, base, s, Len(s), f) /\ Fold(kind, base, s) = f[1 .. Len(s)]
<1>1. \E f : IsFold(kind, base, s, Len(s), f)
  BY FoldExists
<1> QED BY <1>1 DEF Fold

LEMMA FoldAlone ==
  ASSUME NEW kind, NEW base, NEW s, NEW n \in Nat, NEW f, NEW g,
         IsFold(kind, base, s, n, f), IsFold(kind, base, s, n, g)
  PROVE  f[1 .. n] = g[1 .. n]
<1>1. n <= n /\ SameUpTo(s, s, n)
  BY DEF SameUpTo
<1> QED BY <1>1, FoldsAgree

(***************************************************************************)
(* Local steps.                                                            *)
(***************************************************************************)
LEMMA OrdinaryFold ==
  ASSUME NEW T, NEW s \in Seq(T)
  PROVE  OrdinarySteps(s) = Fold(<<"ordinary">>, << >>, s)
<1> DEFINE n == Len(s)
           Is(f) == f = [D \in SUBSET (1 .. n) |->
                           IF D = {} THEN << >>
                           ELSE IF \/ IsFlip(s[Max(D)])
                                   \/ /\ f[D \ {Max(D)}] # << >>
                                      /\ ShareLadderSlot(Last(f[D \ {Max(D)}]), s[Max(D)])
                                THEN f[D \ {Max(D)}] ELSE Append(f[D \ {Max(D)}], s[Max(D)])]
           it == CHOOSE f : Is(f)
<1>1. n \in Nat /\ DOMAIN s = 1 .. n
  OBVIOUS
<1>2. OrdinarySteps(s) = it[1 .. n]
  BY <1>1 DEF OrdinarySteps, FoldLeft, MapThenFoldSet, Max, Last, Front
<1>3. \A f : IsFold(<<"ordinary">>, << >>, s, n, f) <=> Is(f)
  BY DEF IsFold, Step
<1> HIDE DEF Is
<1>4. PICK f : IsFold(<<"ordinary">>, << >>, s, n, f) /\ Fold(<<"ordinary">>, << >>, s) = f[1 .. n]
  BY <1>1, FoldChosen
<1>5. IsFold(<<"ordinary">>, << >>, s, n, it)
  BY <1>3, <1>4
<1> HIDE DEF n, it
<1> QED BY <1>1, <1>2, <1>4, <1>5, FoldAlone

LEMMA SelectFold ==
  ASSUME NEW T, NEW s \in Seq(T)
  PROVE  SelectSteps(s) = Fold(<<"select", OrdinarySteps(s)>>, << >>, s)
<1> DEFINE n == Len(s)
           steps == OrdinarySteps(s)
           kind == <<"select", steps>>
           Is(f) == f = [D \in SUBSET (1 .. n) |->
                           IF D = {} THEN << >>
                           ELSE IF ~Admits(s[Max(D)], steps) THEN f[D \ {Max(D)}]
                           ELSE IF \/ f[D \ {Max(D)}] = << >>
                                   \/ ~ShareLadderSlot(Last(f[D \ {Max(D)}]), s[Max(D)])
                                THEN Append(f[D \ {Max(D)}], s[Max(D)])
                           ELSE IF Beats(s[Max(D)], Last(f[D \ {Max(D)}]))
                                THEN Append(Front(f[D \ {Max(D)}]), s[Max(D)])
                           ELSE f[D \ {Max(D)}]]
           it == CHOOSE f : Is(f)
<1>1. n \in Nat /\ DOMAIN s = 1 .. n
  OBVIOUS
<1>2. SelectSteps(s) = it[1 .. n]
  BY <1>1 DEF SelectSteps, FoldLeft, MapThenFoldSet, Max, Last, Front
<1> HIDE DEF steps
<1>3. \A f : IsFold(kind, << >>, s, n, f) <=> Is(f)
  BY DEF IsFold, Step
<1> HIDE DEF Is
<1>4. PICK f : IsFold(kind, << >>, s, n, f) /\ Fold(kind, << >>, s) = f[1 .. n]
  BY <1>1, FoldChosen
<1>5. IsFold(kind, << >>, s, n, it)
  BY <1>3, <1>4
<1> HIDE DEF n, it
<1>6. SelectSteps(s) = Fold(kind, << >>, s)
  <2> HIDE DEF kind
  <2> QED BY <1>1, <1>2, <1>4, <1>5, FoldAlone
<1> QED BY <1>6 DEF steps

\* What the steps are told apart by.
Placed(z) == z.low \in Int /\ z.high \in Int

Under(a, b) == a.low < b.low /\ a.high <= b.high

\* Of three zones that climb, the middle one shares the step of the outer two.
LEMMA SlotBetween ==
  ASSUME NEW a, NEW b, NEW c, Placed(a), Placed(b), Placed(c), Under(a, b), Under(b, c),
         ShareLadderSlot(a, c)
  PROVE  ShareLadderSlot(a, b) /\ ShareLadderSlot(b, c)
BY DEF Placed, Under, ShareLadderSlot, ShareSlotWithin, Mid2, MinGap, Spacing

LEMMA SlotIsMutual ==
  ASSUME NEW a, NEW b, Placed(a), Placed(b), Under(a, b)
  PROVE  ShareLadderSlot(a, b) <=> ShareLadderSlot(b, a)
BY DEF Placed, Under, ShareLadderSlot, ShareSlotWithin, Mid2, MinGap, Spacing

\* A later zone of the same rank does not win.
LEMMA HigherDoesNotWin ==
  ASSUME NEW a, NEW b, Placed(a), Placed(b), Under(a, b),
         IsFlip(b) => IsFlip(a)
  PROVE  ~Beats(b, a)
BY DEF Placed, Under, Beats, IsFlip

\* The first k zones of a list.
Upto(e, k) == {e[i] : i \in 1 .. k}

Climbing(e, n) ==
  /\ \A i \in 1 .. n : Placed(e[i])
  /\ \A i, j \in 1 .. n : i < j => Under(e[i], e[j])

\* The fold of ordinary steps only grows, by zones that stand clear of the last.
OrdinaryStep(old, new, z) ==
  \/ new = old /\ (IsFlip(z) \/ (old # << >> /\ ShareLadderSlot(Last(old), z)))
  \/ new = Append(old, z) /\ ~IsFlip(z) /\ (old # << >> => ~ShareLadderSlot(Last(old), z))

LEMMA OrdinaryUnrolls ==
  ASSUME NEW e, NEW n \in Nat, NEW f, IsFold(<<"ordinary">>, << >>, e, n, f),
         NEW k \in Nat, k + 1 <= n
  PROVE  OrdinaryStep(f[1 .. k], f[1 .. k + 1], e[k + 1])
<1>1. f[1 .. k + 1] = Step(<<"ordinary">>, f[1 .. k], e[k + 1])
  BY FoldUnrolls
<1> QED BY <1>1 DEF Step, OrdinaryStep

\* `new` goes on where `old`, the steps of the first k zones, ends.
GoesOn(e, k, m, old, new) ==
  /\ old \in Seq(Upto(e, k)) /\ new \in Seq(Upto(e, m))
  /\ Len(old) <= Len(new)
  /\ \A i \in 1 .. Len(old) : new[i] = old[i]
  /\ \A i \in Len(old) + 1 .. Len(new) : \E j \in k + 1 .. m : new[i] = e[j]

LEMMA OrdinaryTyped ==
  ASSUME NEW e, NEW n \in Nat, NEW f, IsFold(<<"ordinary">>, << >>, e, n, f)
  PROVE  \A k \in Nat : k <= n => f[1 .. k] \in Seq(Upto(e, k))
<1> DEFINE S == {k \in Nat : k <= n => f[1 .. k] \in Seq(Upto(e, k))}
<1>1. 0 \in S
  <2>1. 1 .. 0 = {} /\ {} \in SUBSET (1 .. n)
    OBVIOUS
  <2>2. f[{}] = << >>
    BY <2>1 DEF IsFold
  <2>3. f[1 .. 0] = << >>
    BY <2>1, <2>2
  <2>4. << >> \in Seq(Upto(e, 0))
    OBVIOUS
  <2> QED BY <2>3, <2>4
<1>2. ASSUME NEW k \in Nat, k \in S PROVE k + 1 \in S
  <2> SUFFICES ASSUME k + 1 <= n PROVE f[1 .. k + 1] \in Seq(Upto(e, k + 1))
    OBVIOUS
  <2>1. f[1 .. k] \in Seq(Upto(e, k))
    BY <1>2
  <2>2. Upto(e, k) \subseteq Upto(e, k + 1) /\ e[k + 1] \in Upto(e, k + 1)
    BY DEF Upto
  <2> HIDE DEF S
  <2>3. f[1 .. k] \in Seq(Upto(e, k + 1)) /\ Append(f[1 .. k], e[k + 1]) \in Seq(Upto(e, k + 1))
    BY <2>1, <2>2
  <2>4. OrdinaryStep(f[1 .. k], f[1 .. k + 1], e[k + 1])
    BY OrdinaryUnrolls
  <2> QED BY <2>3, <2>4 DEF OrdinaryStep
<1> HIDE DEF S
<1>3. \A k \in Nat : k \in S
  BY <1>1, <1>2, Induction
<1> QED BY <1>3 DEF S

LEMMA OrdinaryGoesOn ==
  ASSUME NEW e, NEW n \in Nat, NEW f, IsFold(<<"ordinary">>, << >>, e, n, f),
         NEW k \in Nat, k <= n
  PROVE  GoesOn(e, k, n, f[1 .. k], f[1 .. n])
<1> DEFINE S == {d \in Nat : k + d <= n => GoesOn(e, k, k + d, f[1 .. k], f[1 .. k + d])}
<1>1. 0 \in S
  <2>1. f[1 .. k] \in Seq(Upto(e, k))
    BY OrdinaryTyped
  <2> QED BY <2>1 DEF GoesOn
<1>2. ASSUME NEW d \in Nat, d \in S PROVE d + 1 \in S
  <2> SUFFICES ASSUME k + (d + 1) <= n
               PROVE  GoesOn(e, k, k + (d + 1), f[1 .. k], f[1 .. k + (d + 1)])
    OBVIOUS
  <2> DEFINE m == k + d
             old == f[1 .. k]
             was == f[1 .. m]
             new == f[1 .. m + 1]
  <2>1. m \in Nat /\ m + 1 <= n /\ k + (d + 1) = m + 1 /\ k <= m
    OBVIOUS
  <2>2. GoesOn(e, k, m, old, was)
    BY <1>2, <2>1
  <2>3. new \in Seq(Upto(e, m + 1))
    <3> DEFINE l == m + 1
    <3>1. l \in Nat /\ l <= n
      BY <2>1
    <3> HIDE DEF l
    <3>2. f[1 .. l] \in Seq(Upto(e, l))
      BY <3>1, OrdinaryTyped
    <3> QED BY <3>2 DEF l
  <2>4. OrdinaryStep(was, new, e[m + 1])
    BY <2>1, OrdinaryUnrolls
  <2> HIDE DEF m, old, was, new
  <2>5. GoesOn(e, k, m + 1, old, new)
    <3>1. CASE new = was
      BY <2>1, <2>2, <2>3, <3>1 DEF GoesOn
    <3>2. CASE new = Append(was, e[m + 1])
      <4>1. /\ Len(new) = Len(was) + 1 /\ new[Len(was) + 1] = e[m + 1]
            /\ \A i \in 1 .. Len(was) : new[i] = was[i]
            /\ Len(was) \in Nat /\ Len(old) \in Nat
        BY <2>2, <3>2 DEF GoesOn
      <4>2. \A i \in 1 .. Len(old) : new[i] = old[i]
        BY <2>2, <4>1 DEF GoesOn
      <4>3. ASSUME NEW i \in Len(old) + 1 .. Len(new)
            PROVE  \E j \in k + 1 .. m + 1 : new[i] = e[j]
        <5>1. CASE i = Len(was) + 1
          BY <2>1, <4>1, <5>1
        <5>2. CASE i # Len(was) + 1
          <6>1. i \in Len(old) + 1 .. Len(was) /\ new[i] = was[i]
            BY <4>1, <5>2
          <6>2. PICK j \in k + 1 .. m : was[i] = e[j]
            BY <2>2, <6>1 DEF GoesOn
          <6> QED BY <2>1, <6>1, <6>2
        <5> QED BY <5>1, <5>2
      <4> QED BY <2>2, <2>3, <4>1, <4>2, <4>3 DEF GoesOn
    <3> QED BY <2>4, <3>1, <3>2 DEF OrdinaryStep
  <2> QED BY <2>1, <2>5 DEF old, new
<1> HIDE DEF S
<1>3. \A d \in Nat : d \in S
  BY <1>1, <1>2, Induction
<1>4. n - k \in S /\ n - k \in Nat /\ k + (n - k) = n
  BY <1>3
<1> QED BY <1>4 DEF S

\* Both folds after k zones: there are as many steps with the flips, and where
\* there are no more, the last one leaves the next ordinary step free and is a
\* flip or no higher than the last ordinary step.
Lockstep(e, k, steps, ord, sel) ==
  /\ ord \in Seq(Upto(e, k)) /\ sel \in Seq(Upto(e, k))
  /\ Len(ord) <= Len(sel)
  /\ Len(ord) = Len(sel) /\ ord # << >> =>
       /\ Len(ord) < Len(steps) => ~ShareLadderSlot(Last(sel), steps[Len(ord) + 1])
       /\ IsFlip(Last(sel)) \/ Last(sel) = Last(ord) \/ Under(Last(sel), Last(ord))

SelectStep(steps, old, new, z) ==
  \/ new = old /\ ~Admits(z, steps)
  \/ new = Append(old, z) /\ (old = << >> \/ ~ShareLadderSlot(Last(old), z))
  \/ /\ Admits(z, steps) /\ old # << >> /\ ShareLadderSlot(Last(old), z)
     /\ IF Beats(z, Last(old)) THEN new = Append(Front(old), z) ELSE new = old

LEMMA LastOne ==
  ASSUME NEW T, NEW s \in Seq(T), s # << >>
  PROVE  /\ Len(s) \in Nat \ {0} /\ Last(s) = s[Len(s)] /\ Last(s) \in T
         /\ Front(s) \in Seq(T) /\ Len(Front(s)) = Len(s) - 1
<1> DEFINE n == Len(s)
<1>1. n \in Nat \ {0} /\ Last(s) = s[n] /\ s[n] \in T /\ \A i \in 1 .. n : s[i] \in T
  BY DEF Last
<1>2. Front(s) = [i \in 1 .. n - 1 |-> s[i]]
  BY <1>1 DEF Front
<1> HIDE DEF n
<1>3. n - 1 \in Nat /\ \A i \in 1 .. n - 1 : s[i] \in T
  BY <1>1
<1>4. [i \in 1 .. n - 1 |-> s[i]] \in Seq(T)
  BY <1>3
<1>5. Len([i \in 1 .. n - 1 |-> s[i]]) = n - 1
  BY <1>3
<1> QED BY <1>1, <1>2, <1>4, <1>5 DEF n

LEMMA LastAppended ==
  ASSUME NEW T, NEW s \in Seq(T), NEW z \in T
  PROVE  /\ Append(s, z) \in Seq(T) /\ Len(Append(s, z)) = Len(s) + 1 /\ Append(s, z) # << >>
         /\ Last(Append(s, z)) = z
BY DEF Last

\* A zone among the first k is below a later one.
LEMMA Earlier ==
  ASSUME NEW e, NEW n \in Nat, Climbing(e, n), NEW k \in Nat, k < n, NEW a \in Upto(e, k),
         NEW j \in k + 1 .. n
  PROVE  Placed(a) /\ Placed(e[j]) /\ Under(a, e[j])
<1>1. PICK i \in 1 .. k : a = e[i]
  BY DEF Upto
<1>2. i \in 1 .. n /\ j \in 1 .. n /\ i < j
  OBVIOUS
<1> QED BY <1>1, <1>2 DEF Climbing

LEMMA SameCount ==
  ASSUME NEW S PROVE Cardinality(S) = Cardinality(S)
BY DEF Cardinality

\* A flip that is let in and shares a later ordinary step shares no other one.
LEMMA AdmittedShares ==
  ASSUME NEW z, IsFlip(z), NEW T, NEW steps \in Seq(T), Admits(z, steps),
         NEW i \in DOMAIN steps, NEW j \in DOMAIN steps, ShareLadderSlot(z, steps[i]),
         ShareLadderSlot(z, steps[j])
  PROVE  i = j
<1> DEFINE shared == {k \in DOMAIN steps : ShareLadderSlot(z, steps[k])}
<1>1. Cardinality(shared) < 2
  BY SameCount DEF Admits
<1>2. IsFiniteSet(shared)
  <2>1. DOMAIN steps = 1 .. Len(steps) /\ IsFiniteSet(1 .. Len(steps))
    BY FS_Interval
  <2> QED BY <2>1, FS_Subset
<1>3. i \in shared /\ j \in shared
  OBVIOUS
<1> HIDE DEF shared
<1> DEFINE both == {i, j}
<1>4. both \in SUBSET shared /\ both = {i} \union {j}
  BY <1>3
<1> HIDE DEF both
<1>5. Cardinality(both) <= Cardinality(shared)
  BY <1>2, <1>4, FS_Subset
<1>6. i # j => Cardinality(both) = 2
  <2> SUFFICES ASSUME i # j PROVE Cardinality(both) = 2
    OBVIOUS
  <2>1. IsFiniteSet({i}) /\ Cardinality({i}) = 1 /\ j \notin {i}
    BY FS_Singleton
  <2>2. Cardinality({i} \union {j}) = Cardinality({i}) + 1
    BY <2>1, FS_AddElement
  <2>3. Cardinality(both) = Cardinality({i}) + 1
    BY <1>4, <2>2, ZenonT(30)
  <2> QED BY <2>1, <2>3
<1>7. Cardinality(shared) \in Nat
  BY <1>2, FS_CardinalityType
<1> QED BY <1>1, <1>5, <1>6, <1>7

LEMMA LockstepKept ==
  ASSUME NEW e, NEW n \in Nat, Climbing(e, n), NEW k \in Nat, k + 1 <= n,
         NEW steps, NEW ord, NEW ord2, NEW sel, NEW sel2,
         Lockstep(e, k, steps, ord, sel),
         GoesOn(e, k, n, ord, steps), GoesOn(e, k + 1, n, ord2, steps),
         OrdinaryStep(ord, ord2, e[k + 1]), SelectStep(steps, sel, sel2, e[k + 1]),
         \A i \in 1 .. Len(steps) : i + 1 <= Len(steps) => ~ShareLadderSlot(steps[i], steps[i + 1]),
         \A i \in 1 .. Len(steps) : ~IsFlip(steps[i])
  PROVE  Lockstep(e, k + 1, steps, ord2, sel2)
<1> DEFINE z == e[k + 1]
           p == Len(ord)
           q == Len(sel)
<1>1. /\ Upto(e, k) \subseteq Upto(e, k + 1) /\ z \in Upto(e, k + 1)
      /\ Upto(e, k + 1) \subseteq Upto(e, n)
      /\ k + 1 \in 1 .. n /\ k + 1 \in k + 1 .. n /\ k < n /\ Placed(z)
  BY DEF Upto, Climbing
<1>2. /\ ord \in Seq(Upto(e, k)) /\ sel \in Seq(Upto(e, k)) /\ p \in Nat /\ q \in Nat /\ p <= q
      /\ ord \in Seq(Upto(e, k + 1)) /\ sel \in Seq(Upto(e, k + 1))
      /\ ord2 \in Seq(Upto(e, k + 1)) /\ steps \in Seq(Upto(e, n)) /\ Len(steps) \in Nat
      /\ p <= Len(steps)
  BY <1>1 DEF Lockstep, GoesOn
<1>3. \A a \in Upto(e, k) : Placed(a) /\ Under(a, z)
  BY <1>1, Earlier
<1>4. \A i \in p + 1 .. Len(steps) : \E j \in k + 1 .. n : steps[i] = e[j]
  BY DEF GoesOn
<1>5. sel # << >> => /\ Last(sel) \in Upto(e, k) /\ Placed(Last(sel)) /\ Under(Last(sel), z) /\ q > 0
                     /\ Front(sel) \in Seq(Upto(e, k + 1)) /\ Len(Front(sel)) = q - 1
  <2> SUFFICES ASSUME sel # << >>
               PROVE  /\ Last(sel) \in Upto(e, k) /\ q \in Nat \ {0}
                      /\ Front(sel) \in Seq(Upto(e, k)) /\ Len(Front(sel)) = q - 1
    BY <1>1, <1>3
  <2> QED BY <1>2, LastOne
<1>6. ord # << >> => /\ Last(ord) \in Upto(e, k) /\ Placed(Last(ord)) /\ Under(Last(ord), z) /\ p > 0
                     /\ Last(ord) = ord[p] /\ Last(ord) = steps[p]
  <2> SUFFICES ASSUME ord # << >> PROVE /\ Last(ord) \in Upto(e, k) /\ Placed(Last(ord)) 
                     /\ Under(Last(ord), z) /\ p > 0
                     /\ Last(ord) = ord[p] /\ Last(ord) = steps[p]
    OBVIOUS
  <2>1. Last(ord) \in Upto(e, k) /\ p \in Nat \ {0} /\ Last(ord) = ord[p]
    BY <1>2, LastOne
  <2>2. p \in 1 .. p
    BY <2>1
  <2>3. steps[p] = ord[p]
    BY <2>2 DEF GoesOn
  <2> QED BY <1>3, <2>1, <2>3
<1>7. sel2 \in Seq(Upto(e, k + 1))
  <2>1. Append(sel, z) \in Seq(Upto(e, k + 1))
    BY <1>1, <1>2, LastAppended
  <2>2. sel # << >> => Append(Front(sel), z) \in Seq(Upto(e, k + 1))
    BY <1>1, <1>5, LastAppended
  <2> QED BY <1>2, <2>1, <2>2 DEF SelectStep
<1>8. Append(sel, z) # << >> /\ Len(Append(sel, z)) = q + 1 /\ Last(Append(sel, z)) = z
  BY <1>1, <1>2, LastAppended
<1>9. sel # << >> => /\ Len(Append(Front(sel), z)) = q /\ Last(Append(Front(sel), z)) = z
  BY <1>1, <1>2, <1>5, LastAppended
<1>10. ord # << >> <=> p > 0
  BY <1>2, <1>6
<1>11. sel # << >> <=> q > 0
  BY <1>2, <1>5
<1>12. ASSUME p < Len(steps)
       PROVE  steps[p + 1] = z \/ (Placed(steps[p + 1]) /\ Under(z, steps[p + 1]))
  <2>1. p + 1 \in p + 1 .. Len(steps)
    BY <1>2, <1>12
  <2>2. PICK j \in k + 1 .. n : steps[p + 1] = e[j]
    BY <1>4, <2>1
  <2>3. k + 1 \in 1 .. n /\ j \in 1 .. n /\ (j = k + 1 \/ k + 1 < j)
    BY <1>1
  <2> QED BY <2>2, <2>3 DEF Climbing
<1> HIDE DEF z, p, q
\* No ordinary step here.
<1>20. CASE ord2 = ord /\ (IsFlip(z) \/ (ord # << >> /\ ShareLadderSlot(Last(ord), z)))
  <2>0. p < Len(steps) => Placed(steps[p + 1]) /\ Under(z, steps[p + 1])
    <3> SUFFICES ASSUME p < Len(steps) PROVE Placed(steps[p + 1]) /\ Under(z, steps[p + 1])
      OBVIOUS
    <3>1. p + 1 \in Len(ord2) + 1 .. Len(steps)
      BY <1>2, <1>20 DEF p
    <3>2. PICK j \in (k + 1) + 1 .. n : steps[p + 1] = e[j]
      BY <3>1 DEF GoesOn
    <3>3. j \in 1 .. n /\ k + 1 < j /\ k + 1 \in 1 .. n
      BY <1>1
    <3> QED BY <3>2, <3>3 DEF Climbing, z
  <2>1. CASE sel2 = sel
    <3>1. Lockstep(e, k + 1, steps, ord, sel)
      BY <1>2 DEF Lockstep
    <3> QED BY <1>20, <2>1, <3>1
  <2>2. CASE sel2 = Append(sel, z)
    <3>1. Len(sel2) = q + 1
      BY <1>8, <2>2
    <3> QED BY <1>2, <1>7, <1>20, <2>2, <3>1 DEF Lockstep, p, q
  <2>3. CASE /\ sel2 = Append(Front(sel), z) /\ Admits(z, steps) /\ sel # << >>
             /\ ShareLadderSlot(Last(sel), z) /\ Beats(z, Last(sel))
    <3>1. IsFlip(z) /\ ~IsFlip(Last(sel))
      BY <1>1, <1>5, <2>3, HigherDoesNotWin
    <3>2. Len(sel2) = q /\ Last(sel2) = z
      BY <1>9, <2>3
    <3>3. ASSUME p = q, ord # << >>, p < Len(steps) PROVE ~ShareLadderSlot(z, steps[p + 1])
      <4> SUFFICES ASSUME ShareLadderSlot(z, steps[p + 1]) PROVE FALSE
        OBVIOUS
      <4>1. Last(sel) = Last(ord) \/ Under(Last(sel), Last(ord))
        BY <3>1, <3>3 DEF Lockstep, p, q
      <4>2. ShareLadderSlot(Last(ord), z)
        BY <1>1, <1>5, <1>6, <2>3, <3>3, <4>1, SlotBetween
      <4>3. ShareLadderSlot(z, steps[p])
        BY <1>1, <1>6, <3>3, <4>2, SlotIsMutual
      <4>4. p \in DOMAIN steps /\ p + 1 \in DOMAIN steps
        BY <1>2, <1>6, <3>3
      <4>5. p = p + 1
        BY <1>2, <2>3, <3>1, <4>3, <4>4, AdmittedShares
      <4> QED BY <1>2, <4>5
    <3> QED BY <1>2, <1>7, <1>20, <3>1, <3>2, <3>3 DEF Lockstep, p, q
  <2> QED BY <2>1, <2>2, <2>3 DEF SelectStep, z
\* The next ordinary step.
<1>21. CASE /\ ord2 = Append(ord, z) /\ ~IsFlip(z)
            /\ ord # << >> => ~ShareLadderSlot(Last(ord), z)
  <2>1. Len(ord2) = p + 1 /\ Last(ord2) = z
    BY <1>1, <1>2, <1>21, LastAppended DEF p
  <2>2. p + 1 \in 1 .. Len(ord2) /\ Len(ord2) <= Len(steps)
    BY <1>2, <2>1 DEF GoesOn
  <2>3. steps[p + 1] = z
    <3>1. steps[p + 1] = ord2[p + 1]
      BY <2>2 DEF GoesOn
    <3>2. ord2[p + 1] = z
      BY <1>2, <1>21 DEF p
    <3> QED BY <3>1, <3>2
  <2>4. ASSUME p + 1 < Len(steps) PROVE ~ShareLadderSlot(z, steps[p + 2])
    <3>1. p + 1 \in 1 .. Len(steps) /\ (p + 1) + 1 = p + 2 /\ p + 2 <= Len(steps)
      BY <1>2, <2>4
    <3> QED BY <2>3, <3>1
  <2>5. CASE p = q
    <3>1. ord # << >> => ~ShareLadderSlot(Last(sel), z)
      BY <1>2, <2>2, <2>1, <2>3, <2>5 DEF Lockstep, p, q
    <3>2. ord = << >> => sel = << >>
      BY <1>2, <1>10, <1>11, <2>5
    <3>3. sel2 = Append(sel, z)
      <4>1. Admits(z, steps)
        BY <1>21 DEF Admits
      <4> QED BY <3>1, <3>2, <4>1 DEF SelectStep, z
    <3>4. Len(sel2) = p + 1 /\ Last(sel2) = z
      BY <1>8, <2>5, <3>3
    <3> QED BY <1>2, <1>7, <2>1, <2>4, <3>4 DEF Lockstep
  <2>6. CASE p < q
    <3>1. sel # << >>
      BY <1>2, <1>11, <2>6
    <3>2. CASE sel2 = Append(sel, z)
      <4>1. Len(sel2) = q + 1
        BY <1>8, <3>2
      <4> QED BY <1>2, <1>7, <2>1, <2>6, <4>1 DEF Lockstep
    <3>3. CASE sel2 # Append(sel, z)
      <4>1. Admits(z, steps)
        BY <1>21 DEF Admits
      <4>2. ~Beats(z, Last(sel))
        BY <1>1, <1>5, <1>21, <3>1, HigherDoesNotWin
      <4>3. sel2 = sel /\ ShareLadderSlot(Last(sel), z)
        BY <3>3, <4>1, <4>2 DEF SelectStep, z
      <4>4. ASSUME p + 1 < Len(steps) PROVE ~ShareLadderSlot(Last(sel), steps[p + 2])
        <5> SUFFICES ASSUME ShareLadderSlot(Last(sel), steps[p + 2]) PROVE FALSE
          OBVIOUS
        <5>1. p + 2 \in Len(ord2) + 1 .. Len(steps)
          BY <1>2, <2>1, <4>4
        <5>2. PICK j \in (k + 1) + 1 .. n : steps[p + 2] = e[j]
          BY <5>1 DEF GoesOn
        <5>3. j \in 1 .. n /\ k + 1 < j /\ k + 1 \in 1 .. n
          BY <1>1
        <5>4. Placed(steps[p + 2]) /\ Under(z, steps[p + 2])
          BY <5>2, <5>3 DEF Climbing, z
        <5>5. ShareLadderSlot(z, steps[p + 2])
          BY <1>1, <1>5, <3>1, <5>4, SlotBetween
        <5> QED BY <2>4, <4>4, <5>5
      <4> QED BY <1>2, <1>5, <1>7, <2>1, <2>6, <3>1, <4>3, <4>4 DEF Lockstep, q
    <3> QED BY <3>2, <3>3
  <2> QED BY <1>2, <2>5, <2>6
<1> QED BY <1>20, <1>21 DEF OrdinaryStep, z

\* Neighbours among the ordinary steps stand clear, and none of them is a flip.
LEMMA OrdinaryApart ==
  ASSUME NEW e, NEW n \in Nat, NEW f, IsFold(<<"ordinary">>, << >>, e, n, f)
  PROVE  /\ \A i \in 1 .. Len(f[1 .. n]) :
              i + 1 <= Len(f[1 .. n]) => ~ShareLadderSlot(f[1 .. n][i], f[1 .. n][i + 1])
         /\ \A i \in 1 .. Len(f[1 .. n]) : ~IsFlip(f[1 .. n][i])
<1> DEFINE ApartIn(s) == \A i \in 1 .. Len(s) :
                         /\ ~IsFlip(s[i])
                         /\ i + 1 <= Len(s) => ~ShareLadderSlot(s[i], s[i + 1])
           S == {k \in Nat : k <= n => ApartIn(f[1 .. k])}
<1>1. 0 \in S
  <2>1. 1 .. 0 = {} /\ {} \in SUBSET (1 .. n)
    OBVIOUS
  <2>2. f[{}] = << >>
    BY <2>1 DEF IsFold
  <2>3. f[1 .. 0] = << >>
    BY <2>1, <2>2
  <2> QED BY <2>3
<1>2. ASSUME NEW k \in Nat, k \in S PROVE k + 1 \in S
  <2> SUFFICES ASSUME k + 1 <= n PROVE ApartIn(f[1 .. k + 1])
    OBVIOUS
  <2>1. ApartIn(f[1 .. k])
    BY <1>2
  <2>2. f[1 .. k] \in Seq(Upto(e, k))
    <3>1. k <= n
      OBVIOUS
    <3> HIDE DEF S
    <3> QED BY <3>1, OrdinaryTyped
  <2>3. OrdinaryStep(f[1 .. k], f[1 .. k + 1], e[k + 1])
    BY OrdinaryUnrolls
  <2> DEFINE old == f[1 .. k]
             new == f[1 .. k + 1]
             z   == e[k + 1]
  <2> SUFFICES ASSUME old # new PROVE ApartIn(new)
    BY <2>1
  <2> HIDE DEF old, new, z, S
  <2>4. new = Append(old, z) /\ ~IsFlip(z) /\ (old # << >> => ~ShareLadderSlot(Last(old), z))
    BY <2>3 DEF OrdinaryStep, old, new, z
  <2>5. old \in Seq(Upto(e, k)) /\ ApartIn(old)
    BY <2>1, <2>2 DEF old
  <2>6. /\ Len(old) \in Nat /\ Len(new) = Len(old) + 1 /\ new[Len(old) + 1] = z
        /\ \A i \in 1 .. Len(old) : new[i] = old[i]
    BY <2>4, <2>5
  <2>7. ASSUME NEW i \in 1 .. Len(new)
        PROVE  /\ ~IsFlip(new[i])
               /\ i + 1 <= Len(new) => ~ShareLadderSlot(new[i], new[i + 1])
    <3>1. CASE i = Len(old) + 1
      BY <2>4, <2>6, <3>1
    <3>2. CASE i = Len(old)
      <4>1. old # << >> /\ i \in 1 .. Len(old) /\ new[i] = old[i] /\ new[i + 1] = z
        BY <2>6, <3>2
      <4>2. Last(old) = old[i]
        BY <3>2 DEF Last
      <4> QED BY <2>4, <2>5, <4>1, <4>2
    <3>3. CASE i # Len(old) /\ i # Len(old) + 1
      <4>1. i \in 1 .. Len(old) /\ i + 1 \in 1 .. Len(old)
        BY <2>6, <3>3
      <4> QED BY <2>5, <2>6, <4>1
    <3> QED BY <3>1, <3>2, <3>3
  <2> QED BY <2>7
<1> HIDE DEF S, Apart
<1>3. \A k \in Nat : k \in S
  BY <1>1, <1>2, Induction
<1>4. n \in S
  BY <1>3
<1> QED BY <1>4 DEF S, Apart

LEMMA SelectUnrolls ==
  ASSUME NEW steps, NEW e, NEW n \in Nat, NEW g, IsFold(<<"select", steps>>, << >>, e, n, g),
         NEW k \in Nat, k + 1 <= n
  PROVE  SelectStep(steps, g[1 .. k], g[1 .. k + 1], e[k + 1])
<1>1. g[1 .. k + 1] = Step(<<"select", steps>>, g[1 .. k], e[k + 1])
  BY FoldUnrolls
<1> QED BY <1>1 DEF Step, SelectStep

\* A middle flip collapses no two steps into one (_select_local_reaction_zones): of any
\* zones that climb at both edges there are no fewer steps with the flips than without.
THEOREM FlipsCostNoStep ==
  ASSUME NEW e, NEW T, e \in Seq(T), Climbing(e, Len(e))
  PROVE  Len(OrdinarySteps(e)) <= Len(SelectSteps(e))
<1> DEFINE n == Len(e)
           steps == OrdinarySteps(e)
           kind == <<"select", steps>>
<1>1. n \in Nat /\ Climbing(e, n)
  OBVIOUS
<1>2. PICK f : IsFold(<<"ordinary">>, << >>, e, n, f) /\ steps = f[1 .. n]
  BY <1>1, OrdinaryFold, FoldChosen
<1>3. PICK g : IsFold(kind, << >>, e, n, g) /\ SelectSteps(e) = g[1 .. n]
  <2>1. SelectSteps(e) = Fold(kind, << >>, e)
    BY SelectFold
  <2> HIDE DEF kind, steps
  <2>2. \E g : IsFold(kind, << >>, e, n, g) /\ Fold(kind, << >>, e) = g[1 .. n]
    BY <1>1, FoldChosen
  <2> QED BY <2>1, <2>2
<1> HIDE DEF n, steps
<1> DEFINE S == {k \in Nat : k <= n => Lockstep(e, k, steps, f[1 .. k], g[1 .. k])}
<1>4. 0 \in S
  <2>1. 1 .. 0 = {} /\ {} \in SUBSET (1 .. n)
    OBVIOUS
  <2>2. f[{}] = << >> /\ g[{}] = << >>
    BY <1>2, <1>3, <2>1 DEF IsFold
  <2>3. f[1 .. 0] = << >> /\ g[1 .. 0] = << >>
    BY <2>1, <2>2
  <2>4. Lockstep(e, 0, steps, << >>, << >>)
    BY DEF Lockstep
  <2> QED BY <2>3, <2>4
<1>5. ASSUME NEW k \in Nat, k \in S PROVE k + 1 \in S
  <2> SUFFICES ASSUME k + 1 <= n PROVE Lockstep(e, k + 1, steps, f[1 .. k + 1], g[1 .. k + 1])
    OBVIOUS
  <2>1. Lockstep(e, k, steps, f[1 .. k], g[1 .. k])
    BY <1>1, <1>5
  <2>2. GoesOn(e, k, n, f[1 .. k], steps)
    <3>1. k \in Nat /\ k <= n
      BY <1>1
    <3>2. GoesOn(e, k, n, f[1 .. k], f[1 .. n])
      BY <1>1, <1>2, <3>1, OrdinaryGoesOn
    <3> QED BY <1>2, <3>2
  <2>3. GoesOn(e, k + 1, n, f[1 .. k + 1], steps)
    <3> DEFINE l == k + 1
    <3>1. l \in Nat /\ l <= n
      OBVIOUS
    <3> HIDE DEF l
    <3>2. GoesOn(e, l, n, f[1 .. l], steps)
      BY <1>1, <1>2, <3>1, OrdinaryGoesOn
    <3> QED BY <3>2 DEF l
  <2>4. OrdinaryStep(f[1 .. k], f[1 .. k + 1], e[k + 1])
    BY <1>1, <1>2, OrdinaryUnrolls
  <2>5. SelectStep(steps, g[1 .. k], g[1 .. k + 1], e[k + 1])
    BY <1>1, <1>3, SelectUnrolls
  <2>6. /\ \A i \in 1 .. Len(steps) :
             i + 1 <= Len(steps) => ~ShareLadderSlot(steps[i], steps[i + 1])
        /\ \A i \in 1 .. Len(steps) : ~IsFlip(steps[i])
    BY <1>1, <1>2, OrdinaryApart
  <2> HIDE DEF S
  <2> QED BY <1>1, <2>1, <2>2, <2>3, <2>4, <2>5, <2>6, LockstepKept
<1> HIDE DEF S
<1>6. \A k \in Nat : k \in S
  BY <1>4, <1>5, Induction
<1>7. Lockstep(e, n, steps, steps, SelectSteps(e))
  <2>1. n \in S /\ n <= n
    BY <1>1, <1>6
  <2> QED BY <1>2, <1>3, <2>1 DEF S
<1> QED BY <1>7 DEF Lockstep, steps

\* The function of a recursive definition over the places of a list.
IsRec(kind, base, s, n, f) ==
  f = [k \in 0 .. n |-> IF k = 0 THEN base ELSE Step(kind, f[k - 1], s[k])]

LEMMA RecExists ==
  ASSUME NEW kind, NEW base, NEW s, NEW n \in Nat
  PROVE  \E f : IsRec(kind, base, s, n, f)
<1>1. PICK g : IsFold(kind, base, s, n, g)
  BY FoldExists
<1> DEFINE f == [k \in 0 .. n |-> g[1 .. k]]
<1>2. g[1 .. 0] = base
  <2>1. 1 .. 0 = {} /\ {} \in SUBSET (1 .. n)
    OBVIOUS
  <2> QED BY <1>1, <2>1 DEF IsFold
<1>3. ASSUME NEW k \in 0 .. n, k # 0 PROVE g[1 .. k] = Step(kind, g[1 .. k - 1], s[k])
  <2> DEFINE l == k - 1
  <2>1. l \in Nat /\ l + 1 <= n /\ k = l + 1
    BY <1>3
  <2> HIDE DEF l
  <2>2. g[1 .. l + 1] = Step(kind, g[1 .. l], s[l + 1])
    BY <1>1, <2>1, FoldUnrolls
  <2> QED BY <2>1, <2>2 DEF l
<1>4. \A k \in 0 .. n : f[k] = IF k = 0 THEN base ELSE Step(kind, f[k - 1], s[k])
  <2> SUFFICES ASSUME NEW k \in 0 .. n, k # 0 PROVE f[k] = Step(kind, f[k - 1], s[k])
    BY <1>2
  <2>1. k - 1 \in 0 .. n
    OBVIOUS
  <2> QED BY <1>3, <2>1
<1>5. f = [k \in 0 .. n |-> f[k]]
  OBVIOUS
<1> HIDE DEF f
<1>6. f = [k \in 0 .. n |-> IF k = 0 THEN base ELSE Step(kind, f[k - 1], s[k])]
  BY <1>4, <1>5
<1> QED BY <1>6 DEF IsRec

\* What each element keeps, the whole keeps.
LEMMA FoldInvariant ==
  ASSUME NEW kind, NEW base, NEW s, NEW n \in Nat, NEW f, IsFold(kind, base, s, n, f),
         NEW S, base \in S, \A acc \in S : \A k \in 1 .. n : Step(kind, acc, s[k]) \in S
  PROVE  \A k \in Nat : k <= n => f[1 .. k] \in S
<1> DEFINE K == {k \in Nat : k <= n => f[1 .. k] \in S}
<1>1. 0 \in K
  <2>1. 1 .. 0 = {} /\ {} \in SUBSET (1 .. n)
    OBVIOUS
  <2>2. f[{}] = base
    BY <2>1 DEF IsFold
  <2> QED BY <2>1, <2>2
<1>2. ASSUME NEW k \in Nat, k \in K PROVE k + 1 \in K
  <2> SUFFICES ASSUME k + 1 <= n PROVE f[1 .. k + 1] \in S
    OBVIOUS
  <2>1. f[1 .. k + 1] = Step(kind, f[1 .. k], s[k + 1])
    BY FoldUnrolls
  <2>2. f[1 .. k] \in S /\ k + 1 \in 1 .. n
    BY <1>2
  <2> QED BY <2>1, <2>2
<1> HIDE DEF K
<1>3. \A k \in Nat : k \in K
  BY <1>1, <1>2, Induction
<1> QED BY <1>3 DEF K

LEMMA RecInvariant ==
  ASSUME NEW kind, NEW base, NEW s, NEW n \in Nat, NEW f, IsRec(kind, base, s, n, f),
         NEW S, base \in S, \A acc \in S : \A k \in 1 .. n : Step(kind, acc, s[k]) \in S
  PROVE  \A k \in 0 .. n : f[k] \in S
<1> DEFINE K == {k \in Nat : k <= n => f[k] \in S}
<1>1. 0 \in K
  <2>1. 0 \in 0 .. n
    OBVIOUS
  <2>2. f[0] = base
    BY <2>1 DEF IsRec
  <2> QED BY <2>2
<1>2. ASSUME NEW k \in Nat, k \in K PROVE k + 1 \in K
  <2> SUFFICES ASSUME k + 1 <= n PROVE f[k + 1] \in S
    OBVIOUS
  <2>1. k + 1 \in 0 .. n /\ k + 1 # 0 /\ (k + 1) - 1 = k
    OBVIOUS
  <2>2. f[k + 1] = Step(kind, f[k], s[k + 1])
    BY <2>1 DEF IsRec
  <2>3. f[k] \in S /\ k + 1 \in 1 .. n
    BY <1>2
  <2> QED BY <2>2, <2>3
<1> HIDE DEF K
<1>3. \A k \in Nat : k \in K
  BY <1>1, <1>2, Induction
<1> QED BY <1>3 DEF K

LEMMA PickOf ==
  ASSUME NEW T, NEW s \in Seq(T), NEW places
  PROVE  Pick(s, places) \in Seq({s[k] : k \in places \intersect DOMAIN s})
<1> DEFINE n == Len(s)
           at == [k \in 1 .. n |-> k]
           kind == <<"pick", places, s>>
           Is(f) == f = [k \in 0 .. n |->
                           IF k = 0 THEN << >>
                           ELSE IF k \in places THEN Append(f[k - 1], s[k]) ELSE f[k - 1]]
           it == CHOOSE f : Is(f)
           S == Seq({s[k] : k \in places \intersect DOMAIN s})
<1>1. n \in Nat /\ DOMAIN s = 1 .. n
  OBVIOUS
<1>2. Pick(s, places) = it[n]
  BY DEF Pick
<1>3. ASSUME NEW f PROVE IsRec(kind, << >>, at, n, f) <=> Is(f)
  <2>1. ASSUME NEW k \in 0 .. n, k # 0
        PROVE  Step(kind, f[k - 1], at[k]) = IF k \in places THEN Append(f[k - 1], s[k]) ELSE f[k - 1]
    <3>1. at[k] = k
      BY <1>1, <2>1
    <3>2. \A acc : Step(kind, acc, k) = IF k \in places THEN Append(acc, s[k]) ELSE acc
      BY DEF Step
    <3> HIDE DEF kind, at
    <3> QED BY <3>1, <3>2
  <2> HIDE DEF kind, at
  <2> QED BY <2>1 DEF IsRec
<1>4. \E f : Is(f)
  <2> HIDE DEF Is, kind, at
  <2> QED BY <1>1, <1>3, RecExists
<1>5. IsRec(kind, << >>, at, n, it)
  <2> HIDE DEF Is
  <2>1. Is(it)
    BY <1>4
  <2> QED BY <1>3, <2>1
<1>6. << >> \in S
  OBVIOUS
<1>7. ASSUME NEW acc \in S, NEW k \in 1 .. n PROVE Step(kind, acc, at[k]) \in S
  <2>1. at[k] = k
    OBVIOUS
  <2>2. Step(kind, acc, k) = IF k \in places THEN Append(acc, s[k]) ELSE acc
    BY DEF Step
  <2>3. k \in places => s[k] \in {s[j] : j \in places \intersect DOMAIN s}
    BY <1>1
  <2>4. k \in places => Append(acc, s[k]) \in S
    BY <2>3
  <2> QED BY <2>1, <2>2, <2>4
<1> HIDE DEF S, it, kind, at
<1>8. n \in 0 .. n
  BY <1>1
<1> HIDE DEF n
<1>9. it[n] \in S
  BY <1>1, <1>5, <1>6, <1>7, <1>8, RecInvariant
<1> QED BY <1>2, <1>9 DEF S

Elems(s) == {s[k] : k \in DOMAIN s}

\* What an insertion returns.
Inserted(s, x, c, t) ==
  /\ Len(t) = Len(s) + 1 /\ t[c + 1] = x
  /\ \A k \in 1 .. c : t[k] = s[k]
  /\ \A k \in c + 1 .. Len(s) : t[k + 1] = s[k]

NotBefore(s, x, R) == {k \in 1 .. Len(s) : <<x, s[k]>> \notin R}

LEMMA InsertPlaces ==
  ASSUME NEW T, NEW s \in Seq(T), NEW x \in T, NEW R
  PROVE  /\ Cardinality(NotBefore(s, x, R)) \in 0 .. Len(s)
         /\ Inserted(s, x, Cardinality(NotBefore(s, x, R)), Insert(s, x, R))
         /\ Insert(s, x, R) \in Seq(T)
<1> DEFINE D == NotBefore(s, x, R)
           c == Cardinality(D)
<1>1. DOMAIN s = 1 .. Len(s) /\ Len(s) \in Nat
  OBVIOUS
<1>2. c \in 0 .. Len(s)
  <2>1. IsFiniteSet(1 .. Len(s)) /\ Cardinality(1 .. Len(s)) = Len(s)
    BY <1>1, FS_Interval
  <2>2. D \in SUBSET (1 .. Len(s))
    BY DEF NotBefore
  <2> HIDE DEF D
  <2>3. c \in Nat /\ c <= Len(s)
    BY <2>1, <2>2, FS_Subset, FS_CardinalityType
  <2> QED BY <1>1, <2>3
<1>3. Insert(s, x, R) = InsertAt(s, c + 1, x)
  BY <1>1, SameCount DEF Insert, NotBefore
<1> HIDE DEF c
<1>4. (c + 1) - 1 = c
  BY <1>2
<1> DEFINE a == SubSeq(s, 1, c)
           b == SubSeq(s, c + 1, Len(s))
           t == (a \o <<x>>) \o b
<1>5. InsertAt(s, c + 1, x) = t
  BY <1>4 DEF InsertAt
<1>6. /\ a \in Seq(T) /\ b \in Seq(T) /\ Len(a) = c /\ Len(b) = Len(s) - c
      /\ \A k \in 1 .. c : a[k] = s[k]
      /\ \A k \in 1 .. Len(s) - c : b[k] = s[c + k]
  <2>0. 1 \in Int /\ c \in Int /\ c + 1 \in Int /\ Len(s) \in Int
    BY <1>1, <1>2
  <2>1. \A k \in 1 .. c : s[k] \in T
    BY <1>1, <1>2
  <2>2. \A k \in c + 1 .. Len(s) : s[k] \in T
    BY <1>1, <1>2
  <2>3. /\ a \in Seq(T) /\ Len(a) = IF 1 <= c THEN c - 1 + 1 ELSE 0
        /\ \A i \in 1 .. c - 1 + 1 : a[i] = s[1 + i - 1]
    BY <2>0, <2>1, SubSeqProperties
  <2>4. /\ b \in Seq(T) /\ Len(b) = IF c + 1 <= Len(s) THEN Len(s) - (c + 1) + 1 ELSE 0
        /\ \A i \in 1 .. Len(s) - (c + 1) + 1 : b[i] = s[(c + 1) + i - 1]
    BY <2>0, <2>2, SubSeqProperties
  <2> HIDE DEF a, b
  <2>5. Len(a) = c /\ c - 1 + 1 = c /\ \A i \in 1 .. c : 1 + i - 1 = i
    BY <1>2, <2>3
  <2>6. /\ Len(b) = Len(s) - c /\ Len(s) - (c + 1) + 1 = Len(s) - c
        /\ \A i \in 1 .. Len(s) - c : (c + 1) + i - 1 = c + i
    <3>0. \A m \in Nat : \A d \in 0 .. m : m - (d + 1) + 1 = m - d /\ (d + 1 > m => m - d = 0)
      OBVIOUS
    <3>1. Len(s) - (c + 1) + 1 = Len(s) - c /\ (c + 1 > Len(s) => Len(s) - c = 0)
      BY <1>1, <1>2, <3>0, Zenon
    <3>2. \A i \in 1 .. Len(s) - c : (c + 1) + i - 1 = c + i
      BY <1>1, <1>2
    <3>3. c + 1 <= Len(s) \/ c + 1 > Len(s)
      BY <1>1, <1>2
    <3> QED BY <2>4, <3>1, <3>2, <3>3
  <2> QED BY <2>3, <2>4, <2>5, <2>6
<1>7. <<x>> \in Seq(T) /\ Len(<<x>>) = 1 /\ <<x>>[1] = x
  OBVIOUS
<1> HIDE DEF a, b
<1> DEFINE u == a \o <<x>>
<1>8. /\ u \in Seq(T) /\ Len(u) = c + 1 /\ u[c + 1] = x
      /\ \A k \in 1 .. c : u[k] = s[k]
  BY <1>2, <1>6, <1>7
<1> HIDE DEF u
<1>9. /\ u \o b \in Seq(T) /\ Len(u \o b) = Len(s) + 1
      /\ \A k \in 1 .. c + 1 : (u \o b)[k] = u[k]
      /\ \A k \in c + 2 .. Len(s) + 1 : (u \o b)[k] = b[k - (c + 1)]
  <2>0. u \in Seq(T) /\ b \in Seq(T)
    BY <1>6, <1>8
  <2> HIDE DEF t
  <2>1. /\ u \o b \in Seq(T) /\ Len(u \o b) = Len(u) + Len(b)
        /\ \A k \in 1 .. Len(u) + Len(b) :
             (u \o b)[k] = IF k <= Len(u) THEN u[k] ELSE b[k - Len(u)]
    BY <2>0, ConcatProperties
  <2>2. \A k \in 1 .. Len(u) : (u \o b)[k] = u[k]
    BY <2>0, <2>1
  <2>3. \A k \in Len(u) + 1 .. Len(u) + Len(b) : (u \o b)[k] = b[k - Len(u)]
    BY <2>0, <2>1
  <2>4. Len(u) = c + 1 /\ Len(u) + 1 = c + 2 /\ Len(u) + Len(b) = Len(s) + 1
    BY <1>1, <1>2, <1>6, <1>8
  <2> QED BY <2>1, <2>2, <2>3, <2>4
<1>10. t = u \o b
  BY DEF u
<1> HIDE DEF t
<1>11. ASSUME NEW k \in c + 1 .. Len(s) PROVE t[k + 1] = s[k]
  <2>1. k + 1 \in c + 2 .. Len(s) + 1 /\ (k + 1) - (c + 1) = k - c /\ k - c \in 1 .. Len(s) - c
        /\ c + (k - c) = k
    BY <1>1, <1>2
  <2>2. t[k + 1] = b[(k + 1) - (c + 1)]
    BY <1>9, <1>10, <2>1
  <2>3. b[k - c] = s[c + (k - c)]
    BY <1>6, <2>1
  <2> QED BY <2>1, <2>2, <2>3
<1>12. Inserted(s, x, c, t)
  <2>1. \A k \in 1 .. c : k \in 1 .. c + 1
    BY <1>2
  <2>2. c + 1 \in 1 .. c + 1
    BY <1>2
  <2> QED BY <1>8, <1>9, <1>10, <1>11, <2>1, <2>2 DEF Inserted
<1>13. t \in Seq(T) /\ Insert(s, x, R) = t
  BY <1>3, <1>5, <1>9, <1>10
<1> QED BY <1>2, <1>12, <1>13 DEF c

Ascends(s, r) == \A j, k \in 1 .. Len(s) : j < k => r[s[j]] <= r[s[k]]

\* An order that a rank decides, up to those of the same rank.
Ranked(T, R, r) ==
  /\ r \in [T -> Int]
  /\ \A a, b \in T : /\ r[a] < r[b] => <<a, b>> \in R
                     /\ <<a, b>> \in R => r[a] <= r[b]

LEMMA InsertAscends ==
  ASSUME NEW T, NEW s \in Seq(T), NEW x \in T, NEW R, NEW r, Ranked(T, R, r), Ascends(s, r)
  PROVE  Ascends(Insert(s, x, R), r)
<1> DEFINE D == NotBefore(s, x, R)
           c == Cardinality(D)
           n == Len(s)
           t == Insert(s, x, R)
<1>1. n \in Nat /\ \A k \in 1 .. n : s[k] \in T /\ r[s[k]] \in Int
  BY DEF Ranked
<1>2. r[x] \in Int /\ D \in SUBSET (1 .. n)
  BY DEF Ranked, NotBefore
<1>3. c \in 0 .. n /\ Inserted(s, x, c, t)
  BY InsertPlaces
<1>4. ASSUME NEW k \in 1 .. c PROVE r[s[k]] <= r[x]
  <2> SUFFICES ASSUME r[x] < r[s[k]] PROVE FALSE
    BY <1>1, <1>2, <1>3
  <2>1. D \in SUBSET (1 .. k - 1)
    <3> SUFFICES ASSUME NEW j \in D, k <= j PROVE FALSE
      BY <1>1, <1>2, <1>3
    <3>1. j \in 1 .. n /\ k \in 1 .. n /\ <<x, s[j]>> \notin R
      BY <1>1, <1>3 DEF NotBefore
    <3>2. r[s[k]] <= r[s[j]]
      BY <1>1, <3>1 DEF Ascends
    <3>3. r[x] < r[s[j]]
      BY <1>1, <1>2, <3>1, <3>2
    <3> QED BY <1>1, <3>1, <3>3 DEF Ranked
  <2>2. IsFiniteSet(1 .. k - 1) /\ Cardinality(1 .. k - 1) = k - 1
    <3>1. 1 \in Int /\ k - 1 \in Int /\ (1 > k - 1 => k - 1 = 0) /\ (k - 1) - 1 + 1 = k - 1
      BY <1>1, <1>3
    <3> QED BY <3>1, FS_Interval
  <2> HIDE DEF D
  <2>3. c <= k - 1
    BY <2>1, <2>2, FS_Subset
  <2> QED BY <1>1, <1>3, <2>3
<1>5. ASSUME NEW k \in c + 1 .. n PROVE r[x] <= r[s[k]]
  <2> SUFFICES ASSUME r[s[k]] < r[x] PROVE FALSE
    BY <1>1, <1>2, <1>3
  <2>1. 1 .. k \in SUBSET D
    <3> SUFFICES ASSUME NEW j \in 1 .. k, <<x, s[j]>> \in R PROVE FALSE
      BY <1>1, <1>3 DEF NotBefore
    <3>1. j \in 1 .. n /\ k \in 1 .. n
      BY <1>1, <1>3
    <3>2. r[s[j]] <= r[s[k]]
      BY <1>1, <3>1 DEF Ascends
    <3>3. r[x] <= r[s[j]]
      BY <1>1, <3>1 DEF Ranked
    <3> QED BY <1>1, <1>2, <3>1, <3>2, <3>3
  <2>2. Cardinality(1 .. k) = k
    BY <1>1, <1>3, FS_Interval
  <2>3. IsFiniteSet(D)
    <3>1. IsFiniteSet(1 .. n)
      <4>1. 1 \in Int /\ n \in Int
        BY <1>1
      <4> HIDE DEF n, D, t
      <4> QED BY <4>1, FS_Interval
    <3> QED BY <1>2, <3>1, FS_Subset
  <2> HIDE DEF D
  <2>4. k <= c
    BY <2>1, <2>2, <2>3, FS_Subset
  <2> QED BY <1>1, <1>3, <2>4
<1> HIDE DEF c, n, t
<1>6. /\ Len(t) = n + 1 /\ t[c + 1] = x
      /\ \A k \in 1 .. c : t[k] = s[k]
      /\ \A k \in c + 1 .. n : t[k + 1] = s[k]
  BY <1>3 DEF Inserted, n
<1>7. ASSUME NEW k \in c + 2 .. n + 1 PROVE t[k] = s[k - 1] /\ k - 1 \in c + 1 .. n
  <2>1. k - 1 \in c + 1 .. n /\ (k - 1) + 1 = k
    BY <1>1, <1>3
  <2> QED BY <1>6, <2>1
<1>8. ASSUME NEW j \in 1 .. n + 1, NEW k \in 1 .. n + 1, j < k PROVE r[t[j]] <= r[t[k]]
  <2>1. \A i, l \in 1 .. n : i < l => r[s[i]] <= r[s[l]]
    BY DEF Ascends, n
  <2>2. CASE k <= c
    <3>1. j \in 1 .. c /\ k \in 1 .. c /\ j \in 1 .. n /\ k \in 1 .. n
      BY <1>1, <1>3, <1>8, <2>2
    <3> QED BY <1>6, <1>8, <2>1, <3>1
  <2>3. CASE k = c + 1
    <3>1. j \in 1 .. c
      BY <1>1, <1>3, <1>8, <2>3
    <3> QED BY <1>4, <1>6, <2>3, <3>1
  <2>4. CASE k > c + 1
    <3>1. k \in c + 2 .. n + 1
      BY <1>1, <1>3, <2>4
    <3>2. t[k] = s[k - 1] /\ k - 1 \in c + 1 .. n /\ k - 1 \in 1 .. n
      BY <1>1, <1>3, <1>7, <3>1
    <3>3. CASE j <= c
      <4>1. j \in 1 .. c /\ j \in 1 .. n /\ j < k - 1
        BY <1>1, <1>3, <2>4, <3>3
      <4> QED BY <1>6, <2>1, <3>2, <4>1
    <3>4. CASE j = c + 1
      BY <1>5, <1>6, <3>2, <3>4
    <3>5. CASE j > c + 1
      <4>1. j \in c + 2 .. n + 1
        BY <1>1, <1>3, <3>5
      <4>2. t[j] = s[j - 1] /\ j - 1 \in 1 .. n /\ j - 1 < k - 1
        BY <1>1, <1>3, <1>7, <1>8, <4>1
      <4> QED BY <2>1, <3>2, <4>2
    <3> QED BY <1>1, <1>3, <3>3, <3>4, <3>5
  <2> QED BY <1>1, <1>3, <2>2, <2>3, <2>4
<1> QED BY <1>6, <1>8 DEF Ascends, t

LEMMA SortedRec ==
  ASSUME NEW T, NEW s \in Seq(T), NEW R
  PROVE  \E f : /\ IsRec(<<"insert", R>>, << >>, s, Len(s), f)
                /\ Sorted(s, R) = f[Len(s)]
                /\ f[0] = << >>
                /\ \A k \in 0 .. Len(s) : k + 1 <= Len(s) => f[k + 1] = Insert(f[k], s[k + 1], R)
<1> DEFINE n == Len(s)
           kind == <<"insert", R>>
           Is(f) == f = [k \in 0 .. n |->
                           IF k = 0 THEN << >> ELSE Insert(f[k - 1], s[k], R)]
           it == CHOOSE f : Is(f)
<1>1. n \in Nat
  OBVIOUS
<1>2. Sorted(s, R) = it[n]
  BY DEF Sorted
<1>3. \A acc, x : Step(kind, acc, x) = Insert(acc, x, R)
  BY DEF Step
<1> HIDE DEF kind
<1>4. ASSUME NEW f PROVE IsRec(kind, << >>, s, n, f) <=> Is(f)
  BY <1>3 DEF IsRec
<1>5. \E f : Is(f)
  <2> HIDE DEF Is
  <2> QED BY <1>1, <1>4, RecExists
<1>6. Is(it)
  <2> HIDE DEF Is
  <2> QED BY <1>5
<1>7. IsRec(kind, << >>, s, n, it)
  BY <1>4, <1>6
<1> HIDE DEF it
<1>8. it[0] = << >>
  <2>1. 0 \in 0 .. n
    BY <1>1
  <2> QED BY <1>6, <2>1
<1>9. ASSUME NEW k \in 0 .. n, k + 1 <= n PROVE it[k + 1] = Insert(it[k], s[k + 1], R)
  <2>1. k + 1 \in 0 .. n /\ k + 1 # 0 /\ (k + 1) - 1 = k
    BY <1>1, <1>9
  <2> QED BY <1>6, <2>1
<1> QED BY <1>2, <1>7, <1>8, <1>9 DEF kind

\* A sorted list holds what the list held.
LEMMA SortedKeeps ==
  ASSUME NEW T, NEW s \in Seq(T), NEW R
  PROVE  /\ Sorted(s, R) \in Seq(T) /\ Len(Sorted(s, R)) = Len(s)
         /\ Elems(Sorted(s, R)) = Elems(s)
<1> DEFINE n == Len(s)
<1>1. n \in Nat /\ \A k \in 1 .. n : s[k] \in T
  OBVIOUS
<1>2. PICK f : /\ Sorted(s, R) = f[n]
               /\ f[0] = << >>
               /\ \A k \in 0 .. n : k + 1 <= n => f[k + 1] = Insert(f[k], s[k + 1], R)
  <2>1. \E f : /\ IsRec(<<"insert", R>>, << >>, s, Len(s), f)
               /\ Sorted(s, R) = f[Len(s)]
               /\ f[0] = << >>
               /\ \A k \in 0 .. Len(s) : k + 1 <= Len(s) => f[k + 1] = Insert(f[k], s[k + 1], R)
    BY SortedRec
  <2> QED BY <2>1, Zenon
<1> DEFINE Good(k, t) == t \in Seq(T) /\ Len(t) = k /\ Elems(t) = {s[i] : i \in 1 .. k}
           K == {k \in Nat : k <= n => Good(k, f[k])}
<1>3. 0 \in K
  <2>1. Good(0, << >>)
    BY DEF Elems
  <2> QED BY <1>2, <2>1
<1> HIDE DEF n
<1>4. ASSUME NEW k \in Nat, k \in K PROVE k + 1 \in K
  <2> SUFFICES ASSUME k + 1 <= n PROVE Good(k + 1, f[k + 1])
    OBVIOUS
  <2> DEFINE old == f[k]
             new == f[k + 1]
             x == s[k + 1]
             c == Cardinality(NotBefore(old, x, R))
  <2>1. Good(k, old) /\ new = Insert(old, x, R) /\ x \in T
    BY <1>1, <1>2, <1>4
  <2> HIDE DEF K, old, new, x
  <2>2. c \in 0 .. k /\ Inserted(old, x, c, new) /\ new \in Seq(T)
    BY <2>1, InsertPlaces
  <2> HIDE DEF c
  <2>3. /\ Len(new) = k + 1 /\ new[c + 1] = x
        /\ \A i \in 1 .. c : new[i] = old[i]
        /\ \A i \in c + 1 .. k : new[i + 1] = old[i]
        /\ DOMAIN new = 1 .. k + 1 /\ DOMAIN old = 1 .. k
    BY <2>1, <2>2 DEF Inserted
  <2>4. Elems(new) = Elems(old) \union {x}
    <3>1. ASSUME NEW i \in 1 .. k + 1 PROVE new[i] \in Elems(old) \union {x}
      <4>1. CASE i <= c
        BY <2>2, <2>3, <4>1 DEF Elems
      <4>2. CASE i = c + 1
        BY <2>3, <4>2
      <4>3. CASE i > c + 1
        <5>1. i - 1 \in c + 1 .. k /\ (i - 1) + 1 = i /\ i - 1 \in 1 .. k
          BY <2>2, <4>3
        <5>2. new[i] = old[i - 1]
          BY <2>3, <5>1
        <5> QED BY <2>3, <5>1, <5>2 DEF Elems
      <4> QED BY <2>2, <4>1, <4>2, <4>3
    <3>2. ASSUME NEW i \in 1 .. k PROVE old[i] \in Elems(new)
      <4>1. CASE i <= c
        <5>1. i \in 1 .. c /\ i \in 1 .. k + 1
          BY <2>2, <4>1
        <5>2. new[i] = old[i]
          BY <2>3, <5>1
        <5> QED BY <2>3, <5>1, <5>2 DEF Elems
      <4>2. CASE i > c
        <5>1. i \in c + 1 .. k /\ i + 1 \in 1 .. k + 1
          BY <2>2, <4>2
        <5> QED BY <2>3, <5>1 DEF Elems
      <4> QED BY <2>2, <4>1, <4>2
    <3>3. x \in Elems(new)
      <4>1. c + 1 \in 1 .. k + 1
        BY <2>2
      <4> QED BY <2>3, <4>1 DEF Elems
    <3> QED BY <2>3, <3>1, <3>2, <3>3 DEF Elems
  <2>5. {s[i] : i \in 1 .. k + 1} = {s[i] : i \in 1 .. k} \union {x}
    BY DEF x
  <2> QED BY <2>1, <2>2, <2>3, <2>4, <2>5 DEF new
<1> HIDE DEF K
<1>5. \A k \in Nat : k \in K
  BY <1>3, <1>4, Induction
<1>6. Good(n, f[n])
  <2>1. n \in K /\ n <= n
    BY <1>1, <1>5
  <2> HIDE DEF Good
  <2> QED BY <2>1 DEF K
<1>7. {s[i] : i \in 1 .. n} = Elems(s)
  BY DEF Elems, n
<1> QED BY <1>2, <1>6, <1>7 DEF n

LEMMA SortedAscends ==
  ASSUME NEW T, NEW s \in Seq(T), NEW R, NEW r, Ranked(T, R, r)
  PROVE  Ascends(Sorted(s, R), r)
<1> DEFINE n == Len(s)
           kind == <<"insert", R>>
           S == {t \in Seq(T) : Ascends(t, r)}
<1>1. n \in Nat /\ \A k \in 1 .. n : s[k] \in T
  OBVIOUS
<1>2. PICK f : IsRec(kind, << >>, s, n, f) /\ Sorted(s, R) = f[n]
  BY SortedRec
<1>3. \A acc, x : Step(kind, acc, x) = Insert(acc, x, R)
  BY DEF Step
<1> HIDE DEF kind
<1>4. << >> \in S
  BY DEF Ascends
<1>5. ASSUME NEW acc \in S, NEW k \in 1 .. n PROVE Step(kind, acc, s[k]) \in S
  <2>1. acc \in Seq(T) /\ Ascends(acc, r) /\ s[k] \in T
    BY <1>1
  <2>2. Insert(acc, s[k], R) \in Seq(T)
    BY <2>1, InsertPlaces
  <2>3. Ascends(Insert(acc, s[k], R), r)
    BY <2>1, InsertAscends
  <2> QED BY <1>3, <2>2, <2>3
<1> HIDE DEF S
<1>6. n \in 0 .. n
  BY <1>1
<1> HIDE DEF n
<1>7. f[n] \in S
  BY <1>1, <1>2, <1>4, <1>5, <1>6, RecInvariant
<1> QED BY <1>2, <1>7 DEF S

LEMMA KeepFoldOverlap ==
  ASSUME NEW T, NEW s \in Seq(T)
  PROVE  \E f : /\ IsFold(<<"clear", "overlap">>, << >>, s, Len(s), f)
                /\ KeepClear(s, Overlap) = f[1 .. Len(s)]
<1> DEFINE n == Len(s)
           kind == <<"clear", "overlap">>
           Is(f) == f = [D \in SUBSET (1 .. n) |->
                           IF D = {} THEN << >>
                           ELSE IF \E k \in DOMAIN f[D \ {Max(D)}] :
                                     Conflict("overlap", s[Max(D)], f[D \ {Max(D)}][k])
                                THEN f[D \ {Max(D)}] ELSE Append(f[D \ {Max(D)}], s[Max(D)])]
           it == CHOOSE f : Is(f)
<1>1. n \in Nat /\ DOMAIN s = 1 .. n
  OBVIOUS
<1>2. KeepClear(s, Overlap) = it[1 .. n]
  BY <1>1 DEF KeepClear, AnyOf, FoldLeft, MapThenFoldSet, Max, Conflict
<1>3. \A f : IsFold(kind, << >>, s, n, f) <=> Is(f)
  BY DEF IsFold, Step
<1> HIDE DEF Is, kind
<1>4. \E f : Is(f)
  BY <1>1, <1>3, FoldExists
<1>5. IsFold(kind, << >>, s, n, it)
  BY <1>3, <1>4
<1> HIDE DEF it
<1> QED BY <1>2, <1>5 DEF kind

LEMMA KeepFoldCrowds ==
  ASSUME NEW T, NEW s \in Seq(T)
  PROVE  \E f : /\ IsFold(<<"clear", "crowds">>, << >>, s, Len(s), f)
                /\ KeepClear(s, Crowds) = f[1 .. Len(s)]
<1> DEFINE n == Len(s)
           kind == <<"clear", "crowds">>
           Is(f) == f = [D \in SUBSET (1 .. n) |->
                           IF D = {} THEN << >>
                           ELSE IF \E k \in DOMAIN f[D \ {Max(D)}] :
                                     Conflict("crowds", s[Max(D)], f[D \ {Max(D)}][k])
                                THEN f[D \ {Max(D)}] ELSE Append(f[D \ {Max(D)}], s[Max(D)])]
           it == CHOOSE f : Is(f)
<1>1. n \in Nat /\ DOMAIN s = 1 .. n
  OBVIOUS
<1>2. KeepClear(s, Crowds) = it[1 .. n]
  BY <1>1 DEF KeepClear, AnyOf, FoldLeft, MapThenFoldSet, Max, Conflict
<1>3. \A f : IsFold(kind, << >>, s, n, f) <=> Is(f)
  BY DEF IsFold, Step
<1> HIDE DEF Is, kind
<1>4. \E f : Is(f)
  BY <1>1, <1>3, FoldExists
<1>5. IsFold(kind, << >>, s, n, it)
  BY <1>3, <1>4
<1> HIDE DEF it
<1> QED BY <1>2, <1>5 DEF kind

LEMMA KeepFoldClose ==
  ASSUME NEW T, NEW s \in Seq(T)
  PROVE  \E f : /\ IsFold(<<"clear", "close">>, << >>, s, Len(s), f)
                /\ KeepClear(s, LAMBDA a, b : Mid2(a) - Mid2(b) \in (1 - 2 * Spacing) .. (2 * Spacing - 1)) = f[1 .. Len(s)]
<1> DEFINE n == Len(s)
           kind == <<"clear", "close">>
           Is(f) == f = [D \in SUBSET (1 .. n) |->
                           IF D = {} THEN << >>
                           ELSE IF \E k \in DOMAIN f[D \ {Max(D)}] :
                                     Conflict("close", s[Max(D)], f[D \ {Max(D)}][k])
                                THEN f[D \ {Max(D)}] ELSE Append(f[D \ {Max(D)}], s[Max(D)])]
           it == CHOOSE f : Is(f)
<1>1. n \in Nat /\ DOMAIN s = 1 .. n
  OBVIOUS
<1>2. KeepClear(s, LAMBDA a, b : Mid2(a) - Mid2(b) \in (1 - 2 * Spacing) .. (2 * Spacing - 1)) = it[1 .. n]
  BY <1>1 DEF KeepClear, AnyOf, FoldLeft, MapThenFoldSet, Max, Conflict
<1>3. \A f : IsFold(kind, << >>, s, n, f) <=> Is(f)
  BY DEF IsFold, Step
<1> HIDE DEF Is, kind
<1>4. \E f : Is(f)
  BY <1>1, <1>3, FoldExists
<1>5. IsFold(kind, << >>, s, n, it)
  BY <1>3, <1>4
<1> HIDE DEF it
<1> QED BY <1>2, <1>5 DEF kind

\* Of the kept zones none stands in the way of an earlier one, and what was left
\* out met one kept before it.
Cleared(s, k, name, t) ==
  /\ t \in Seq(Upto(s, k))
  /\ \A i \in 1 .. k : \/ s[i] \in Elems(t)
                       \/ \E j \in 1 .. k : j < i /\ s[j] \in Elems(t) /\ Conflict(name, s[i], s[j])
  /\ \A a, b \in 1 .. Len(t) : a < b => ~Conflict(name, t[b], t[a])

LEMMA ElemsAppended ==
  ASSUME NEW T, NEW s \in Seq(T), NEW x
  PROVE  /\ Elems(Append(s, x)) = Elems(s) \union {x}
         /\ Len(Append(s, x)) = Len(s) + 1 /\ Append(s, x)[Len(s) + 1] = x
         /\ \A i \in 1 .. Len(s) : Append(s, x)[i] = s[i]
<1>1. /\ Len(Append(s, x)) = Len(s) + 1 /\ Append(s, x)[Len(s) + 1] = x
      /\ \A i \in 1 .. Len(s) : Append(s, x)[i] = s[i]
      /\ DOMAIN s = 1 .. Len(s) /\ Len(s) \in Nat
      /\ DOMAIN Append(s, x) = 1 .. Len(s) + 1
  OBVIOUS
<1> DEFINE t == Append(s, x)
<1> HIDE DEF t
<1>2. Elems(t) \subseteq Elems(s) \union {x}
  <2> SUFFICES ASSUME NEW i \in 1 .. Len(s) + 1 PROVE t[i] \in Elems(s) \union {x}
    BY <1>1 DEF Elems, t
  <2>1. CASE i = Len(s) + 1
    BY <1>1, <2>1 DEF t
  <2>2. CASE i # Len(s) + 1
    BY <1>1, <2>2 DEF t, Elems
  <2> QED BY <2>1, <2>2
<1>3. Elems(s) \union {x} \subseteq Elems(t)
  <2>1. \A i \in 1 .. Len(s) : i \in DOMAIN t /\ s[i] = t[i]
    BY <1>1 DEF t
  <2>2. Len(s) + 1 \in DOMAIN t /\ x = t[Len(s) + 1]
    BY <1>1 DEF t
  <2> QED BY <1>1, <2>1, <2>2 DEF Elems
<1> QED BY <1>1, <1>2, <1>3 DEF t

LEMMA Clearing ==
  ASSUME NEW name, NEW s, NEW n \in Nat, NEW f, IsFold(<<"clear", name>>, << >>, s, n, f)
  PROVE  \A k \in Nat : k <= n => Cleared(s, k, name, f[1 .. k])
<1> DEFINE K == {k \in Nat : k <= n => Cleared(s, k, name, f[1 .. k])}
<1>1. 0 \in K
  <2>1. 1 .. 0 = {} /\ {} \in SUBSET (1 .. n)
    OBVIOUS
  <2>2. f[{}] = << >>
    BY <2>1 DEF IsFold
  <2>3. f[1 .. 0] = << >>
    BY <2>1, <2>2
  <2>4. Cleared(s, 0, name, << >>)
    BY DEF Cleared
  <2> QED BY <2>3, <2>4
<1>2. ASSUME NEW k \in Nat, k \in K PROVE k + 1 \in K
  <2> SUFFICES ASSUME k + 1 <= n PROVE Cleared(s, k + 1, name, f[1 .. k + 1])
    OBVIOUS
  <2> DEFINE old == f[1 .. k]
             new == f[1 .. k + 1]
             x == s[k + 1]
  <2>1. Cleared(s, k, name, old)
    BY <1>2
  <2>2. new = IF \E i \in DOMAIN old : Conflict(name, x, old[i]) THEN old ELSE Append(old, x)
    <3>1. new = Step(<<"clear", name>>, old, x)
      BY FoldUnrolls
    <3> HIDE DEF old, new, x
    <3> QED BY <3>1 DEF Step
  <2> HIDE DEF K, old, new
  <2>3. /\ old \in Seq(Upto(s, k + 1)) /\ x \in Upto(s, k + 1) /\ old \in Seq(Upto(s, k))
        /\ DOMAIN old = 1 .. Len(old) /\ Len(old) \in Nat
    <3>1. Upto(s, k) \subseteq Upto(s, k + 1) /\ x \in Upto(s, k + 1)
      BY DEF Upto
    <3> QED BY <2>1, <3>1 DEF Cleared
  <2>4. ASSUME NEW i \in 1 .. k + 1, i # k + 1 PROVE i \in 1 .. k
    BY <2>4
  <2>5. ASSUME \E i \in DOMAIN old : Conflict(name, x, old[i]) PROVE Cleared(s, k + 1, name, new)
    <3>1. PICK i \in DOMAIN old : Conflict(name, x, old[i])
      BY <2>5
    <3>2. old[i] \in Upto(s, k) /\ old[i] \in Elems(old)
      BY <2>3 DEF Elems
    <3>3. PICK j \in 1 .. k : old[i] = s[j]
      BY <3>2 DEF Upto
    <3>4. /\ j \in 1 .. k + 1 /\ j < k + 1 /\ s[j] \in Elems(old) /\ Conflict(name, x, s[j])
      BY <3>1, <3>2, <3>3
    <3>5. ASSUME NEW l \in 1 .. k + 1
          PROVE  \/ s[l] \in Elems(old)
                 \/ \E m \in 1 .. k + 1 : m < l /\ s[m] \in Elems(old) /\ Conflict(name, s[l], s[m])
      <4>1. CASE l = k + 1
        BY <3>4, <4>1
      <4>2. CASE l # k + 1
        <5>1. l \in 1 .. k /\ \A m \in 1 .. k : m \in 1 .. k + 1
          BY <4>2
        <5> QED BY <2>1, <5>1 DEF Cleared
      <4> QED BY <4>1, <4>2
    <3>6. new = old
      BY <2>2, <2>5
    <3>7. Cleared(s, k + 1, name, old)
      BY <2>1, <2>3, <3>5 DEF Cleared
    <3> QED BY <3>6, <3>7
  <2>6. ASSUME ~\E i \in DOMAIN old : Conflict(name, x, old[i]) PROVE Cleared(s, k + 1, name, new)
    <3>1. new = Append(old, x) /\ new \in Seq(Upto(s, k + 1))
      BY <2>2, <2>3, <2>6
    <3>2. /\ Elems(new) = Elems(old) \union {x}
          /\ Len(new) = Len(old) + 1 /\ new[Len(old) + 1] = x
          /\ \A i \in 1 .. Len(old) : new[i] = old[i]
      BY <2>3, <3>1, ElemsAppended
    <3>3. ASSUME NEW l \in 1 .. k + 1
          PROVE  \/ s[l] \in Elems(new)
                 \/ \E m \in 1 .. k + 1 : m < l /\ s[m] \in Elems(new) /\ Conflict(name, s[l], s[m])
      <4>1. CASE l = k + 1
        BY <3>2, <4>1
      <4>2. CASE l # k + 1
        <5>1. l \in 1 .. k /\ \A m \in 1 .. k : m \in 1 .. k + 1
          BY <4>2
        <5> QED BY <2>1, <3>2, <5>1 DEF Cleared
      <4> QED BY <4>1, <4>2
    <3>4. ASSUME NEW a \in 1 .. Len(new), NEW b \in 1 .. Len(new), a < b
          PROVE  ~Conflict(name, new[b], new[a])
      <4>1. a \in 1 .. Len(old)
        BY <2>3, <3>2, <3>4
      <4>2. CASE b = Len(old) + 1
        BY <2>3, <2>6, <3>2, <4>1, <4>2
      <4>3. CASE b # Len(old) + 1
        <5>1. b \in 1 .. Len(old)
          BY <2>3, <3>2, <4>3
        <5> QED BY <2>1, <3>2, <3>4, <4>1, <5>1 DEF Cleared
      <4> QED BY <4>2, <4>3
    <3> QED BY <3>1, <3>3, <3>4 DEF Cleared
  <2>7. Cleared(s, k + 1, name, new)
    BY <2>5, <2>6
  <2> QED BY <2>7 DEF new
<1> HIDE DEF K
<1>3. \A k \in Nat : k \in K
  BY <1>1, <1>2, Induction
<1> QED BY <1>3 DEF K

LEMMA DistinctFold ==
  ASSUME NEW T, NEW s \in Seq(T), ByLow(s) \in Seq(T)
  PROVE  \E f : /\ IsFold(<<"distinct">>, << >>, ByLow(s), Len(ByLow(s)), f)
                /\ Distinct(s) = f[1 .. Len(ByLow(s))]
<1> DEFINE t == ByLow(s)
           n == Len(t)
           kind == <<"distinct">>
           Is(f) == f = [D \in SUBSET (1 .. n) |->
                           IF D = {} THEN << >>
                           ELSE IF \/ f[D \ {Max(D)}] = << >>
                                   \/ ~Overlap(Last(f[D \ {Max(D)}]), t[Max(D)])
                                THEN Append(f[D \ {Max(D)}], t[Max(D)])
                           ELSE IF Prefers(Last(f[D \ {Max(D)}]), t[Max(D)])
                                THEN f[D \ {Max(D)}]
                           ELSE Append(Front(f[D \ {Max(D)}]), t[Max(D)])]
           it == CHOOSE f : Is(f)
<1>1. n \in Nat /\ DOMAIN t = 1 .. n
  OBVIOUS
<1>2. Distinct(s) = it[1 .. n]
  <2> QED BY <1>1 DEF Distinct, FoldLeft, MapThenFoldSet, Max, Last, Front
<1> HIDE DEF t
<1>3. \A f : IsFold(kind, << >>, t, n, f) <=> Is(f)
  BY DEF IsFold, Step
<1> HIDE DEF Is, kind
<1>4. \E f : Is(f)
  <2> HIDE DEF n
  <2> QED BY <1>1, <1>3, FoldExists
<1>5. IsFold(kind, << >>, t, n, it)
  BY <1>3, <1>4
<1> HIDE DEF it
<1> QED BY <1>2, <1>5 DEF kind, t

LEMMA ElemsFront ==
  ASSUME NEW T, NEW s \in Seq(T), s # << >>
  PROVE  Elems(s) = Elems(Front(s)) \union {Last(s)}
<1> DEFINE n == Len(s)
<1>1. n \in Nat \ {0} /\ Last(s) = s[n] /\ DOMAIN s = 1 .. n
  BY DEF Last
<1>2. Front(s) = [i \in 1 .. n - 1 |-> s[i]]
  BY <1>1 DEF Front
<1> HIDE DEF n
<1>3. DOMAIN Front(s) = 1 .. n - 1 /\ \A i \in 1 .. n - 1 : Front(s)[i] = s[i]
  BY <1>2
<1>4. \A i \in 1 .. n : i \in 1 .. n - 1 \/ i = n
  BY <1>1
<1>5. n \in 1 .. n /\ \A i \in 1 .. n - 1 : i \in 1 .. n
  BY <1>1
<1> QED BY <1>1, <1>3, <1>4, <1>5 DEF Elems

\* A zone that overlaps no other stays through the thinning of overlaps.
LEMMA LoneStays ==
  ASSUME NEW s, NEW n \in Nat, NEW f, IsFold(<<"distinct">>, << >>, s, n, f), NEW z,
         \A i \in 1 .. n : s[i] # z => ~Overlap(s[i], z)
  PROVE  \A k \in Nat : k <= n => /\ f[1 .. k] \in Seq(Upto(s, k))
                                  /\ z \in Upto(s, k) => z \in Elems(f[1 .. k])
<1> DEFINE Good(k, t) == t \in Seq(Upto(s, k)) /\ (z \in Upto(s, k) => z \in Elems(t))
           K == {k \in Nat : k <= n => Good(k, f[1 .. k])}
<1>1. 0 \in K
  <2>1. 1 .. 0 = {} /\ {} \in SUBSET (1 .. n)
    OBVIOUS
  <2>2. f[{}] = << >>
    BY <2>1 DEF IsFold
  <2>3. f[1 .. 0] = << >>
    BY <2>1, <2>2
  <2>4. Good(0, << >>)
    BY DEF Upto
  <2> QED BY <2>3, <2>4
<1>2. ASSUME NEW k \in Nat, k \in K PROVE k + 1 \in K
  <2> SUFFICES ASSUME k + 1 <= n PROVE Good(k + 1, f[1 .. k + 1])
    OBVIOUS
  <2> DEFINE old == f[1 .. k]
             new == f[1 .. k + 1]
             x == s[k + 1]
  <2>1. Good(k, old)
    BY <1>2
  <2>2. new = IF old = << >> \/ ~Overlap(Last(old), x) THEN Append(old, x)
              ELSE IF Prefers(Last(old), x) THEN old
              ELSE Append(Front(old), x)
    <3>1. new = Step(<<"distinct">>, old, x)
      BY FoldUnrolls
    <3> HIDE DEF old, new, x
    <3> QED BY <3>1 DEF Step
  <2>3. Upto(s, k + 1) = Upto(s, k) \union {x}
    BY DEF Upto
  <2>4. ASSUME NEW y \in Upto(s, k + 1), y # z PROVE ~Overlap(y, z) /\ ~Overlap(z, y)
    <3>1. PICK i \in 1 .. k + 1 : y = s[i]
      BY DEF Upto
    <3>2. ~Overlap(y, z)
      BY <2>4, <3>1
    <3> QED BY <3>2 DEF Overlap
  <2> HIDE DEF K, old, new, x
  <2>5. old \in Seq(Upto(s, k)) /\ old \in Seq(Upto(s, k + 1)) /\ x \in Upto(s, k + 1)
    BY <2>1, <2>3
  <2>6. z \in Upto(s, k + 1) => z \in Elems(old) \/ z = x
    BY <2>1, <2>3
  <2>7. CASE new = Append(old, x)
    <3>1. Elems(new) = Elems(old) \union {x}
      BY <2>5, <2>7, ElemsAppended
    <3>2. new \in Seq(Upto(s, k + 1))
      BY <2>5, <2>7
    <3> QED BY <2>6, <3>1, <3>2 DEF new
  <2>8. CASE old # << >> /\ Overlap(Last(old), x) /\ new = old
    <3>1. Last(old) \in Upto(s, k) /\ Elems(old) = Elems(Front(old)) \union {Last(old)}
      BY <2>5, <2>8, LastOne, ElemsFront
    <3>2. z = x => Last(old) = z
      BY <2>3, <2>4, <2>8, <3>1
    <3> QED BY <2>5, <2>6, <2>8, <3>1, <3>2 DEF new
  <2>9. CASE old # << >> /\ Overlap(Last(old), x) /\ new = Append(Front(old), x)
    <3>1. /\ Last(old) \in Upto(s, k) /\ Elems(old) = Elems(Front(old)) \union {Last(old)}
          /\ Front(old) \in Seq(Upto(s, k + 1))
      BY <2>5, <2>9, LastOne, ElemsFront
    <3>2. z = Last(old) => z = x
      BY <2>4, <2>5, <2>9
    <3>3. Elems(new) = Elems(Front(old)) \union {x}
      BY <2>9, <3>1, ElemsAppended
    <3>4. new \in Seq(Upto(s, k + 1))
      BY <2>5, <2>9, <3>1
    <3> QED BY <2>6, <3>1, <3>2, <3>3, <3>4 DEF new
  <2> QED BY <2>2, <2>7, <2>8, <2>9
<1> HIDE DEF K
<1>3. \A k \in Nat : k \in K
  BY <1>1, <1>2, Induction
<1> QED BY <1>3 DEF K

(***************************************************************************)
(* What the evidence, the candidates and the zones are.                    *)
(***************************************************************************)
Pivots ==
  [index : Nat, kind : {"low", "high"}, wick : Nat, body : Nat, top : Nat, reclaim : Nat]

CandidateOrigins ==
  {"structure_swing_low", "flipped_resistance", "structure_swing_low_wick",
   "structure_swing_low_body_floor", "local_swing_low", "local_flipped_resistance",
   "stair_step_flipped_resistance"}

PlainOrigins ==
  CandidateOrigins \union
  {"structure_support_floor", "mixed_structure", "local_reaction_support",
   "local_retested_flip_support", "wick_retest_support", "body_rejection_support",
   "daily_body_support"}

Styles == {"body", "support_floor", "local_reaction"}

Candidates ==
  [price : Int, index : Nat, origin : CandidateOrigins, style : Styles, wick : Int, reclaim : Nat]

Clusters == {c \in Seq(Candidates) : c # << >>}

Closes == {c \in Seq(Int) : c # << >>}

\* A zone with its edges in order.
Lawful ==
  {z \in [origin : PlainOrigins \union {"persistent_wick_floor"}, style : Styles, low : Int,
          high : Int, closes : Closes, sources : SUBSET Nat, touches : Int, score : Int,
          near : BOOLEAN] : z.low <= z.high}

\* What the builders make but the persistent floors.
Plain == {z \in Lawful : ~z.near /\ z.origin # "persistent_wick_floor"}

LEMMA ZoneMade ==
  ASSUME NEW origin \in PlainOrigins, NEW style \in Styles, NEW low \in Int, NEW high \in Int,
         low <= high, NEW closes \in Closes, NEW sources \in SUBSET Nat, NEW touches \in Int,
         NEW score \in Int
  PROVE  Zone(origin, style, low, high, closes, sources, touches, score) \in Plain
<1> DEFINE z == [origin |-> origin, style |-> style, low |-> low, high |-> high, closes |-> closes,
                 sources |-> sources, touches |-> touches, score |-> score, near |-> FALSE]
<1>1. z = Zone(origin, style, low, high, closes, sources, touches, score)
  BY DEF Zone
<1>2. origin # "persistent_wick_floor"
  BY DEF PlainOrigins, CandidateOrigins
<1>3. z \in Lawful
  BY DEF Lawful
<1>4. ~z.near /\ z.origin # "persistent_wick_floor"
  BY <1>2
<1> QED BY <1>1, <1>3, <1>4 DEF Plain

LEMMA CandidateMade ==
  ASSUME NEW p \in Pivots, NEW level \in Int, NEW origin \in CandidateOrigins, NEW style \in Styles
  PROVE  /\ Candidate(p, level, origin, style) \in Candidates
         /\ Candidate(p, level, origin, style).origin = origin
         /\ Candidate(p, level, origin, style).style = style
BY DEF Candidate, Candidates, Pivots

LEMMA ListMade ==
  ASSUME NEW S, NEW n \in Nat, NEW f, DOMAIN f = 1 .. n, f = [k \in DOMAIN f |-> f[k]],
         \A k \in 1 .. n : f[k] \in S
  PROVE  f \in Seq(S) /\ Len(f) = n /\ Elems(f) = {f[k] : k \in 1 .. n}
BY DEF Elems

LEMMA PickTyped ==
  ASSUME NEW T, NEW s \in Seq(T), NEW places
  PROVE  /\ Pick(s, places) \in Seq(T)
         /\ \A i \in DOMAIN Pick(s, places) :
              \E k \in DOMAIN s : k \in places /\ Pick(s, places)[i] = s[k]
<1> DEFINE t == Pick(s, places)
           E == {s[k] : k \in places \intersect DOMAIN s}
<1>1. t \in Seq(E)
  BY PickOf
<1>2. E \subseteq T
  OBVIOUS
<1> HIDE DEF t
<1>3. \A i \in DOMAIN t : t[i] \in E
  <2> HIDE DEF E
  <2> QED BY <1>1
<1>4. t \in Seq(T)
  <2> HIDE DEF E
  <2> QED BY <1>1, <1>2
<1>5. ASSUME NEW i \in DOMAIN t PROVE \E k \in DOMAIN s : k \in places /\ t[i] = s[k]
  BY <1>3
<1> QED BY <1>4, <1>5 DEF t

\* A finite set of numbers has a least and a greatest.
LEMMA MinThere ==
  ASSUME NEW n \in Nat, NEW D \in SUBSET (1 .. n), D # {}
  PROVE  Min(D) \in D
<1>1. \E m \in D : \A k \in D : m <= k
  <2>1. D \in SUBSET Nat
    OBVIOUS
  <2> QED BY <2>1, NatLeast
<1> QED BY <1>1 DEF Min

LEMMA MaxThere ==
  ASSUME NEW D \in SUBSET Int, IsFiniteSet(D), D # {}
  PROVE  Max(D) \in D
<1> DEFINE R == {p \in D \X D : p[1] > p[2]}
<1>1. \A x, y \in D : <<x, y>> \in R <=> x > y
  OBVIOUS
<1> HIDE DEF R
<1>2. StrictOrder(D, R)
  BY <1>1 DEF StrictOrder
<1>3. PICK x \in D : \A y \in D : <<y, x>> \notin R
  BY <1>2, FirstExists
<1>4. \A y \in D : x >= y
  <2> SUFFICES ASSUME NEW y \in D PROVE x >= y
    OBVIOUS
  <2>1. ~(y > x) /\ x \in Int /\ y \in Int
    BY <1>1, <1>3
  <2> QED BY <2>1
<1> QED BY <1>4 DEF Max

LEMMA ElemsFinite ==
  ASSUME NEW T, NEW s \in Seq(T)
  PROVE  IsFiniteSet(Elems(s)) /\ Elems(s) \in SUBSET T /\ (s # << >> => Elems(s) # {})
<1>1. IsFiniteSet(1 .. Len(s)) /\ DOMAIN s = 1 .. Len(s) /\ Len(s) \in Nat
  BY FS_Interval
<1>2. s \in Surjection(DOMAIN s, Elems(s))
  BY DEF Surjection, Elems
<1>3. IsFiniteSet(Elems(s))
  BY <1>1, <1>2, FS_Surjection
<1>4. \A k \in DOMAIN s : s[k] \in T
  OBVIOUS
<1>5. s # << >> => 1 \in DOMAIN s
  BY <1>1
<1> QED BY <1>3, <1>4, <1>5 DEF Elems

LEMMA LocalCandidatesTyped ==
  ASSUME NEW internal \in Seq(Pivots), NEW since
  PROVE  LocalCandidates(internal, since) \in Seq(Candidates)
<1> DEFINE places == {k \in DOMAIN internal :
                        /\ internal[k].index >= since
                        /\ internal[k].kind = "low" \/ internal[k].reclaim # 0}
           usable == Pick(internal, places)
           origin(k) == IF usable[k].kind = "low" THEN "local_swing_low" ELSE "local_flipped_resistance"
           made(k) == Candidate(usable[k], usable[k].body, origin(k), "local_reaction")
<1>1. LocalCandidates(internal, since) = [k \in DOMAIN usable |-> made(k)]
  BY DEF LocalCandidates, Selection
<1>2. usable \in Seq(Pivots)
  BY PickTyped
<1> HIDE DEF usable
<1>3. ASSUME NEW k \in DOMAIN usable PROVE made(k) \in Candidates
  <2>0. usable[k] \in Pivots
    BY <1>2
  <2>1. usable[k] \in Pivots /\ usable[k].body \in Int
    BY <2>0 DEF Pivots
  <2>2. origin(k) \in CandidateOrigins /\ "local_reaction" \in Styles
    BY DEF CandidateOrigins, Styles
  <2> HIDE DEF origin
  <2> QED BY <2>1, <2>2, CandidateMade
<1> HIDE DEF made
<1>4. DOMAIN usable = 1 .. Len(usable) /\ Len(usable) \in Nat
  BY <1>2
<1>5. [k \in DOMAIN usable |-> made(k)] \in Seq(Candidates)
  BY <1>3, <1>4
<1> QED BY <1>1, <1>5

LEMMA LowsTyped ==
  ASSUME NEW T, NEW s \in Seq(T)
  PROVE  LowsOf(s) \in Seq(T) /\ HighsOf(s) \in Seq(T)
BY PickTyped DEF LowsOf, HighsOf, Selection

LEMMA ExceptTyped ==
  ASSUME NEW T, NEW s \in Seq(T), NEW m \in DOMAIN s, NEW v \in T
  PROVE  [s EXCEPT ![m] = v] \in Seq(T)
OBVIOUS

\* The order in which the candidates come.
ByPrice(s) ==
  {p \in ToSet(s) \X ToSet(s) :
     p[1].price < p[2].price \/ (p[1].price = p[2].price /\ p[1].index < p[2].index)}

LEMMA ClusterFold ==
  ASSUME NEW T, NEW s, Sorted(s, ByPrice(s)) \in Seq(T)
  PROVE  LET t == Sorted(s, ByPrice(s))
         IN  \E f : /\ IsFold(<<"cluster">>, << >>, t, Len(t), f)
                    /\ Cluster(s) = f[1 .. Len(t)]
<1> DEFINE t == Sorted(s, ByPrice(s))
           n == Len(t)
           kind == <<"cluster">>
           Is(f) == f = [D \in SUBSET (1 .. n) |->
                           IF D = {} THEN << >>
                           ELSE IF {k \in DOMAIN f[D \ {Max(D)}] :
                                      /\ f[D \ {Max(D)}][k][1].style = t[Max(D)].style
                                      /\ t[Max(D)].price - f[D \ {Max(D)}][k][1].price <= ZoneWidth} = {}
                                THEN Append(f[D \ {Max(D)}], <<t[Max(D)]>>)
                                ELSE [f[D \ {Max(D)}] EXCEPT ![Min(
                                     {k \in DOMAIN f[D \ {Max(D)}] :
                                      /\ f[D \ {Max(D)}][k][1].style = t[Max(D)].style
                                      /\ t[Max(D)].price - f[D \ {Max(D)}][k][1].price <= ZoneWidth})]
                                        = Append(@, t[Max(D)])]]
           it == CHOOSE f : Is(f)
<1>1. n \in Nat /\ DOMAIN t = 1 .. n
  OBVIOUS
<1>2. Cluster(s) = it[1 .. n]
  BY <1>1 DEF Cluster, SortBy, ByPrice, FoldLeft, MapThenFoldSet, Max
<1> HIDE DEF t
<1>3. \A f : IsFold(kind, << >>, t, n, f) <=> Is(f)
  BY SMTT(90) DEF IsFold, Step
<1> HIDE DEF Is, kind
<1>4. \E f : Is(f)
  BY <1>1, <1>3, FoldExists
<1>5. IsFold(kind, << >>, t, n, it)
  BY <1>3, <1>4
<1> HIDE DEF it
<1> QED BY <1>2, <1>5 DEF kind, t

LEMMA ClusterTyped ==
  ASSUME NEW s \in Seq(Candidates)
  PROVE  Cluster(s) \in Seq(Clusters)
<1> DEFINE t == Sorted(s, ByPrice(s))
           kind == <<"cluster">>
           S == Seq(Clusters)
<1>1. t = Sorted(s, ByPrice(s))
  OBVIOUS
<1>2. t \in Seq(Candidates)
  BY SortedKeeps
<1> HIDE DEF t
<1>3. PICK f : IsFold(kind, << >>, t, Len(t), f) /\ Cluster(s) = f[1 .. Len(t)]
  BY <1>1, <1>2, ClusterFold
<1>4. ASSUME NEW acc \in S, NEW k \in 1 .. Len(t) PROVE Step(kind, acc, t[k]) \in S
  <2> DEFINE x == t[k]
             fits == {i \in DOMAIN acc : /\ acc[i][1].style = x.style
                                         /\ x.price - acc[i][1].price <= ZoneWidth}
  <2>1. x \in Candidates
    BY <1>2
  <2>2. Step(kind, acc, x) = IF fits = {} THEN Append(acc, <<x>>)
                             ELSE [acc EXCEPT ![Min(fits)] = Append(@, x)]
    BY DEF Step
  <2>3. fits # {} => Min(fits) \in DOMAIN acc
    <3> DEFINE n == Len(acc)
    <3>1. fits \in SUBSET (1 .. n) /\ n \in Nat /\ fits \subseteq DOMAIN acc
      OBVIOUS
    <3> HIDE DEF fits, n
    <3> QED BY <3>1, MinThere
  <2> HIDE DEF fits, x
  <2>4. <<x>> \in Clusters
    BY <2>1 DEF Clusters
  <2>5. \A c \in Clusters : Append(c, x) \in Clusters
    BY <2>1 DEF Clusters
  <2>6. Append(acc, <<x>>) \in S
    BY <2>4
  <2>7. ASSUME fits # {} PROVE [acc EXCEPT ![Min(fits)] = Append(@, x)] \in S
    <3>1. acc[Min(fits)] \in Clusters
      BY <2>3, <2>7
    <3>2. Append(acc[Min(fits)], x) \in Clusters
      BY <2>5, <3>1
    <3> DEFINE m == Min(fits)
               v == Append(acc[m], x)
    <3>3. acc \in Seq(Clusters) /\ m \in DOMAIN acc /\ v \in Clusters
      BY <2>3, <2>7, <3>2
    <3> HIDE DEF m, v
    <3>4. [acc EXCEPT ![m] = v] \in Seq(Clusters)
      BY <3>3, ExceptTyped
    <3> QED BY <3>4 DEF m, v
  <2> QED BY <2>2, <2>6, <2>7 DEF x
<1>5. << >> \in S
  OBVIOUS
<1>6. Len(t) \in Nat /\ Len(t) <= Len(t)
  BY <1>2
<1> HIDE DEF S, kind
<1>7. f[1 .. Len(t)] \in S
  BY <1>3, <1>4, <1>5, <1>6, FoldInvariant
<1> QED BY <1>3, <1>7 DEF S

LEMMA LowerEdgeInt ==
  ASSUME NEW anchor \in Candidates, NEW highs \in Seq(Candidates)
  PROVE  LowerEdge(anchor, highs) \in Int
<1> DEFINE prior == {h \in ToSet(highs) : h.index < anchor.index /\ h.price < anchor.price}
           D == {h.price : h \in prior}
<1>1. LowerEdge(anchor, highs) = IF prior = {} THEN anchor.wick ELSE Max(D)
  BY DEF LowerEdge
<1>2. anchor.wick \in Int /\ \A h \in Candidates : h.price \in Int
  BY DEF Candidates
<1>3. IsFiniteSet(prior) /\ prior \in SUBSET Candidates
  <2>1. ToSet(highs) = Elems(highs)
    BY DEF ToSet, Elems
  <2>2. IsFiniteSet(Elems(highs)) /\ Elems(highs) \in SUBSET Candidates
    BY ElemsFinite
  <2>3. prior \in SUBSET Elems(highs)
    BY <2>1
  <2> HIDE DEF prior
  <2> QED BY <2>2, <2>3, FS_Subset
<1> HIDE DEF prior
<1>4. IsFiniteSet(D) /\ D \in SUBSET Int /\ (prior # {} => D # {})
  <2> DEFINE g == [h \in prior |-> h.price]
  <2>1. g \in Surjection(prior, D)
    BY DEF Surjection
  <2> HIDE DEF g
  <2>2. IsFiniteSet(D)
    <3> HIDE DEF D
    <3> QED BY <1>3, <2>1, FS_Surjection
  <2> QED BY <1>2, <1>3, <2>2
<1> HIDE DEF D
<1> QED BY <1>1, <1>2, <1>4, MaxThere

LEMMA HeadTyped ==
  ASSUME NEW T, NEW s \in Seq(T), s # << >>
  PROVE  Head(s) \in T /\ Head(s) = s[1] /\ 1 \in DOMAIN s /\ Head(s) \in Elems(s)
<1>1. Head(s) = s[1] /\ 1 \in DOMAIN s
  OBVIOUS
<1> QED BY <1>1 DEF Elems

LEMMA IndexesTyped ==
  ASSUME NEW s \in Seq(Candidates)
  PROVE  Indexes(s) \in SUBSET Nat
<1>1. \A k \in DOMAIN s : s[k].index \in Nat
  <2>1. \A k \in DOMAIN s : s[k] \in Candidates
    OBVIOUS
  <2>2. \A c \in Candidates : c.index \in Nat
    BY DEF Candidates
  <2> QED BY <2>1, <2>2
<1> QED BY <1>1 DEF Indexes, ToSet

\* The anchor of a band stands a lawful width above its lower edge.
LEMMA AnchorsLawful ==
  ASSUME NEW c \in Clusters, Anchors(c) # << >>
  PROVE  LET a == Head(Anchors(c)) IN
         /\ a \in Candidates
         /\ LowerEdge(a, HighsOf(c)) \in Int
         /\ LowerEdge(a, HighsOf(c)) <= a.price
<1> DEFINE lows == LowsOf(c)
           R == {p \in ToSet(lows) \X ToSet(lows) :
                   p[1].price > p[2].price \/ (p[1].price = p[2].price /\ p[1].index < p[2].index)}
           t == Sorted(lows, R)
           fit(a) == a.price - LowerEdge(a, HighsOf(c)) \in LocalMinWidth .. ZoneWidth
           places == {k \in DOMAIN t : fit(t[k])}
           got == Pick(t, places)
<1>1. Anchors(c) = got
  BY DEF Anchors, SortBy, Selection
<1>2. c \in Seq(Candidates) /\ lows \in Seq(Candidates) /\ HighsOf(c) \in Seq(Candidates)
  <2>1. c \in Seq(Candidates)
    BY DEF Clusters
  <2> QED BY <2>1, LowsTyped
<1> HIDE DEF lows, R
<1>3. t \in Seq(Candidates)
  BY <1>2, SortedKeeps
<1> HIDE DEF t
<1>4. /\ got \in Seq(Candidates)
      /\ \A i \in DOMAIN got : \E k \in DOMAIN t : k \in places /\ got[i] = t[k]
  <2> HIDE DEF places
  <2> QED BY <1>3, PickTyped
<1> HIDE DEF got
<1> DEFINE a == Head(Anchors(c))
<1>5. a \in Candidates /\ a = got[1] /\ 1 \in DOMAIN got
  BY <1>1, <1>4, HeadTyped
<1>6. fit(a)
  BY <1>4, <1>5
<1> HIDE DEF a
<1>7. LowerEdge(a, HighsOf(c)) \in Int /\ a.price \in Int
  BY <1>2, <1>5, LowerEdgeInt DEF Candidates
<1>8. LowerEdge(a, HighsOf(c)) <= a.price
  BY <1>6, <1>7 DEF LocalMinWidth, ZoneWidth
<1> QED BY <1>5, <1>7, <1>8 DEF a

LEMMA PricesOf ==
  ASSUME NEW c \in Clusters
  PROVE  /\ [k \in DOMAIN c |-> c[k].price] \in Closes
         /\ Len([k \in DOMAIN c |-> c[k].price]) = Len(c) /\ Len(c) \in Nat
<1>1. c \in Seq(Candidates) /\ c # << >>
  BY DEF Clusters
<1>2. DOMAIN c = 1 .. Len(c) /\ Len(c) \in Nat \ {0} /\ \A k \in 1 .. Len(c) : c[k] \in Candidates
  BY <1>1
<1>3. \A k \in 1 .. Len(c) : c[k].price \in Int
  BY <1>2 DEF Candidates
<1> DEFINE p == [k \in 1 .. Len(c) |-> c[k].price]
<1>4. p \in Seq(Int) /\ Len(p) = Len(c)
  BY <1>2, <1>3
<1>5. p # << >>
  <2> HIDE DEF p
  <2> QED BY <1>2, <1>4
<1>6. p = [k \in DOMAIN c |-> c[k].price]
  BY <1>2
<1> QED BY <1>2, <1>4, <1>5, <1>6 DEF Closes

LEMMA ReactionZoneTyped ==
  ASSUME NEW c \in Clusters, Anchors(c) # << >>
  PROVE  ReactionZone(c) \in Plain
<1> DEFINE a == Head(Anchors(c))
           low == LowerEdge(a, HighsOf(c))
           closes == [k \in DOMAIN c |-> c[k].price]
           sources == Indexes(c)
           touches == Len(c)
           score == 2 * Len(c) + Len(HighsOf(c))
           high == a.price
<1>1. ReactionZone(c) = Zone("local_reaction_support", "local_reaction", low, high,
                             closes, sources, touches, score)
  BY DEF ReactionZone
<1>2. low \in Int /\ high \in Int /\ low <= high
  <2>1. a \in Candidates /\ low \in Int /\ low <= a.price
    BY AnchorsLawful
  <2> HIDE DEF a, low
  <2> QED BY <2>1 DEF Candidates
<1>3. closes \in Closes /\ Len(c) \in Nat
  BY PricesOf
<1>4. c \in Seq(Candidates)
  BY DEF Clusters
<1>5. sources \in SUBSET Nat
  BY <1>4, IndexesTyped
<1>6. Len(HighsOf(c)) \in Nat
  <2>1. HighsOf(c) \in Seq(Candidates)
    BY <1>4, LowsTyped
  <2> QED BY <2>1
<1>7. touches \in Int /\ score \in Int
  BY <1>3, <1>6
<1>8. "local_reaction_support" \in PlainOrigins /\ "local_reaction" \in Styles
  BY DEF PlainOrigins, Styles
<1> HIDE DEF a, low, high, closes, sources, touches, score
<1> QED BY <1>1, <1>2, <1>3, <1>5, <1>7, <1>8, ZoneMade

LEMMA ReactionZonesTyped ==
  ASSUME NEW s \in Seq(Candidates), NEW minTouches
  PROVE  ReactionZones(s, minTouches) \in Seq(Plain)
<1> DEFINE all == Cluster(s)
           places == {k \in DOMAIN all :
                        /\ Touched(all[k], minTouches)
                        /\ Cardinality(Indexes(LowsOf(all[k]))) >= minTouches
                        /\ HighsOf(all[k]) # << >>
                        /\ Anchors(all[k]) # << >>}
           got == Pick(all, places)
<1>1. ReactionZones(s, minTouches) = [k \in DOMAIN got |-> ReactionZone(got[k])]
  BY DEF ReactionZones, Selection
<1>2. all \in Seq(Clusters)
  BY ClusterTyped
<1> HIDE DEF all
<1>3. /\ got \in Seq(Clusters)
      /\ \A i \in DOMAIN got : \E k \in DOMAIN all : k \in places /\ got[i] = all[k]
  <2> HIDE DEF places
  <2> QED BY <1>2, PickTyped
<1> HIDE DEF got
<1>4. ASSUME NEW i \in DOMAIN got PROVE ReactionZone(got[i]) \in Plain
  <2>1. got[i] \in Clusters /\ Anchors(got[i]) # << >>
    BY <1>3
  <2> QED BY <2>1, ReactionZoneTyped
<1>5. DOMAIN got = 1 .. Len(got) /\ Len(got) \in Nat
  BY <1>3
<1>6. [k \in 1 .. Len(got) |-> ReactionZone(got[k])] \in Seq(Plain)
  BY <1>4, <1>5
<1> QED BY <1>1, <1>5, <1>6

LEMMA FlipZoneTyped ==
  ASSUME NEW h \in Candidates, NEW lows \in Seq(Candidates), Retests(h, lows) # << >>
  PROVE  FlipZone(h, lows) \in Plain
<1> DEFINE near == {k \in DOMAIN lows : /\ lows[k].index > h.reclaim
                                        /\ lows[k].price - h.price \in 1 .. ZoneWidth}
           all == Pick(lows, near)
           first == Head(Retests(h, lows))
           held == {k \in DOMAIN lows : /\ lows[k].index > h.reclaim
                                        /\ h.price < lows[k].price /\ lows[k].price <= first.price}
           got == Pick(lows, held)
           closes == <<h.price>> \o [k \in DOMAIN got |-> got[k].price]
           sources == {h.index} \union Indexes(got)
           touches == Len(got) + 1
           score == 2 * (Len(got) + 1) + 1
           low == h.price
           high == first.price
<1>1. FlipZone(h, lows) = Zone("local_retested_flip_support", "local_reaction", low, high,
                               closes, sources, touches, score)
  BY DEF FlipZone, Selection
<1>2. Retests(h, lows) = all
  BY DEF Retests, Selection
<1>3. /\ all \in Seq(Candidates)
      /\ \A i \in DOMAIN all : \E k \in DOMAIN lows : k \in near /\ all[i] = lows[k]
  <2> HIDE DEF near
  <2> QED BY PickTyped
<1>4. got \in Seq(Candidates)
  <2> HIDE DEF held
  <2> QED BY PickTyped
<1> HIDE DEF all, got
<1>5. low \in Int /\ high \in Int /\ low <= high
  <2>1. first \in Candidates /\ first = all[1] /\ 1 \in DOMAIN all
    BY <1>2, <1>3, HeadTyped
  <2>2. PICK k \in DOMAIN lows : k \in near /\ first = lows[k]
    BY <1>3, <2>1
  <2>3. first.price - h.price \in 1 .. ZoneWidth
    BY <2>2
  <2> HIDE DEF first
  <2>4. first.price \in Int /\ h.price \in Int
    BY <2>1 DEF Candidates
  <2> QED BY <2>3, <2>4 DEF ZoneWidth
<1>6. closes \in Closes
  <2> DEFINE p == [k \in DOMAIN got |-> got[k].price]
  <2>1. DOMAIN got = 1 .. Len(got) /\ Len(got) \in Nat /\ \A k \in 1 .. Len(got) : got[k] \in Candidates
    BY <1>4
  <2>2. \A k \in 1 .. Len(got) : got[k].price \in Int
    BY <2>1 DEF Candidates
  <2>3. p \in Seq(Int)
    BY <2>1, <2>2
  <2> HIDE DEF p
  <2>4. <<h.price>> \in Seq(Int) /\ Len(<<h.price>>) = 1
    BY <1>5
  <2>5. <<h.price>> \o p \in Seq(Int) /\ Len(<<h.price>> \o p) = 1 + Len(p) /\ Len(p) \in Nat
    BY <2>3, <2>4
  <2>6. <<h.price>> \o p # << >>
    BY <2>5
  <2> QED BY <2>5, <2>6 DEF Closes, p
<1>7. sources \in SUBSET Nat
  BY <1>4, IndexesTyped DEF Candidates
<1>8. touches \in Int /\ score \in Int
  <2>1. Len(got) \in Nat
    BY <1>4
  <2> QED BY <2>1
<1>9. "local_retested_flip_support" \in PlainOrigins /\ "local_reaction" \in Styles
  BY DEF PlainOrigins, Styles
<1> HIDE DEF low, high, closes, sources, touches, score
<1> QED BY <1>1, <1>5, <1>6, <1>7, <1>8, <1>9, ZoneMade

LEMMA FlipFold ==
  ASSUME NEW T, NEW s, NEW existing, NEW minTouches, HighsOf(s) \in Seq(T)
  PROVE  LET t == HighsOf(s)
         IN  \E f : /\ IsFold(<<"flip", LowsOf(s), existing, minTouches>>, << >>, t, Len(t), f)
                    /\ FlipZones(s, existing, minTouches) = f[1 .. Len(t)]
<1> DEFINE t == HighsOf(s)
           lows == LowsOf(s)
           n == Len(t)
           kind == <<"flip", lows, existing, minTouches>>
           Is(f) == f = [D \in SUBSET (1 .. n) |->
                           IF D = {} THEN << >>
                           ELSE IF Retests(t[Max(D)], lows) = << >> THEN f[D \ {Max(D)}]
                           ELSE IF \/ Cardinality(FlipZone(t[Max(D)], lows).sources
                                                    \ {t[Max(D)].index}) < minTouches
                                   \/ \E k \in DOMAIN (existing \o f[D \ {Max(D)}]) :
                                        Overlap(FlipZone(t[Max(D)], lows),
                                                (existing \o f[D \ {Max(D)}])[k])
                                THEN f[D \ {Max(D)}]
                                ELSE Append(f[D \ {Max(D)}], FlipZone(t[Max(D)], lows))]
           it == CHOOSE f : Is(f)
<1>1. n \in Nat /\ DOMAIN t = 1 .. n
  OBVIOUS
<1>2. FlipZones(s, existing, minTouches) = it[1 .. n]
  BY <1>1 DEF FlipZones, AnyOf, FoldLeft, MapThenFoldSet, Max
<1> HIDE DEF t, lows
<1> DEFINE step(acc, x) ==
             IF Retests(x, lows) = << >> THEN acc
             ELSE IF \/ Cardinality(FlipZone(x, lows).sources \ {x.index}) < minTouches
                     \/ \E k \in DOMAIN (existing \o acc) :
                          Overlap(FlipZone(x, lows), (existing \o acc)[k])
                  THEN acc ELSE Append(acc, FlipZone(x, lows))
<1>6. \A acc, x : Step(kind, acc, x) = step(acc, x)
  BY DEF Step, AnyOf
<1>7. \A f : Is(f) <=> f = [D \in SUBSET (1 .. n) |->
                               IF D = {} THEN << >> ELSE step(f[D \ {Max(D)}], t[Max(D)])]
  OBVIOUS
<1> HIDE DEF Is, kind, step
<1>3. \A f : IsFold(kind, << >>, t, n, f) <=> Is(f)
  BY <1>6, <1>7 DEF IsFold
<1>4. \E f : Is(f)
  BY <1>1, <1>3, FoldExists
<1>5. IsFold(kind, << >>, t, n, it)
  BY <1>3, <1>4
<1> HIDE DEF it
<1> QED BY <1>2, <1>5 DEF kind, t, lows

LEMMA FlipZonesTyped ==
  ASSUME NEW s \in Seq(Candidates), NEW existing, NEW minTouches
  PROVE  FlipZones(s, existing, minTouches) \in Seq(Plain)
<1> DEFINE t == HighsOf(s)
           lows == LowsOf(s)
           kind == <<"flip", lows, existing, minTouches>>
           S == Seq(Plain)
<1>1. t \in Seq(Candidates) /\ lows \in Seq(Candidates) /\ Len(t) \in Nat /\ Len(t) <= Len(t)
  <2>1. t \in Seq(Candidates) /\ lows \in Seq(Candidates)
    BY LowsTyped
  <2> HIDE DEF t, lows
  <2> QED BY <2>1
<1>2. PICK f : /\ IsFold(kind, << >>, t, Len(t), f)
               /\ FlipZones(s, existing, minTouches) = f[1 .. Len(t)]
  <2>1. HighsOf(s) \in Seq(Candidates)
    BY <1>1
  <2> HIDE DEF t, lows, kind
  <2> QED BY <2>1, FlipFold DEF t, lows, kind
<1> HIDE DEF t, lows
<1>3. ASSUME NEW acc \in S, NEW k \in 1 .. Len(t) PROVE Step(kind, acc, t[k]) \in S
  <2> DEFINE x == t[k]
             z == FlipZone(x, lows)
  <2>1. x \in Candidates
    BY <1>1
  <2>2. \/ Step(kind, acc, x) = acc
        \/ Retests(x, lows) # << >> /\ Step(kind, acc, x) = Append(acc, z)
    <3> HIDE DEF x
    <3> QED BY DEF Step
  <2> HIDE DEF x, z
  <2>3. Retests(x, lows) # << >> => z \in Plain
    BY <1>1, <2>1, FlipZoneTyped DEF z
  <2>4. z \in Plain => Append(acc, z) \in S
    OBVIOUS
  <2> QED BY <2>2, <2>3, <2>4 DEF x
<1>4. << >> \in S
  OBVIOUS
<1> HIDE DEF S, kind
<1>5. f[1 .. Len(t)] \in S
  BY <1>1, <1>2, <1>3, <1>4, FoldInvariant
<1> QED BY <1>2, <1>5 DEF S

LEMMA LocalZonesTyped ==
  ASSUME NEW internal \in Seq(Pivots), NEW since, NEW minTouches
  PROVE  LocalZones(internal, since, minTouches) \in Seq(Plain)
<1> DEFINE candidates == LocalCandidates(internal, since)
           touches == Max({2, minTouches})
           reactions == ReactionZones(candidates, touches)
           flips == FlipZones(candidates, reactions, touches)
<1>1. candidates \in Seq(Candidates)
  BY LocalCandidatesTyped
<1>2. LocalZones(internal, since, minTouches) = reactions \o flips
  BY DEF LocalZones
<1> HIDE DEF candidates, touches
<1>3. reactions \in Seq(Plain)
  BY <1>1, ReactionZonesTyped
<1> HIDE DEF reactions
<1>4. flips \in Seq(Plain)
  BY <1>1, FlipZonesTyped
<1> HIDE DEF flips
<1> QED BY <1>2, <1>3, <1>4

LowOrder(s) == {p \in ToSet(s) \X ToSet(s) : p[1].low < p[2].low}

LEMMA ByLowTyped ==
  ASSUME NEW T, NEW s \in Seq(T)
  PROVE  /\ ByLow(s) \in Seq(T) /\ Len(ByLow(s)) = Len(s)
         /\ Elems(ByLow(s)) = Elems(s) /\ ByLow(s) = Sorted(s, LowOrder(s))
<1>1. ByLow(s) = Sorted(s, LowOrder(s))
  BY DEF ByLow, SortBy, LowOrder
<1> QED BY <1>1, SortedKeeps

LEMMA EligibleTyped ==
  ASSUME NEW s \in Seq(Plain)
  PROVE  Eligible(s) \in Seq(Plain)
<1>1. \E places : Eligible(s) = ByLow(Pick(s, places))
  BY DEF Eligible, Selection
<1> QED BY <1>1, PickTyped, ByLowTyped

(***************************************************************************)
(* The evidence.                                                           *)
(***************************************************************************)
Evidence ==
  [raw : Seq(Pivots), prominent : Seq(Pivots), internal : Seq(Pivots), daily : Seq(Pivots)]

\* Pivots of different bars, the earlier first, none after bar n.
Dated(pivots, n) ==
  /\ \A k \in DOMAIN pivots : pivots[k].index \in 1 .. n
  /\ \A j, k \in DOMAIN pivots : j < k => pivots[j].index < pivots[k].index

EvidenceUpTo(ev, n) == ev \in Evidence /\ Dated(ev.raw, n)

Known ==
  /\ bars \in Nat /\ EvidenceUpTo(evidence, bars)
  /\ spaced = SpacedLadder(evidence, bars, price)
  /\ ladder = FilledLadder(spaced, evidence, price)

LEMMA ReclaimTyped ==
  ASSUME NEW s \in Seq(Pivots), NEW n \in Nat, NEW close
  PROVE  /\ ReclaimIn(s, n, close) \in Seq(Pivots)
         /\ DOMAIN ReclaimIn(s, n, close) = DOMAIN s
         /\ \A k \in DOMAIN s :
              \/ ReclaimIn(s, n, close)[k] = s[k]
              \/ /\ s[k].kind = "high"
                 /\ ReclaimIn(s, n, close)[k] = [s[k] EXCEPT !.reclaim = n]
<1> DEFINE t == ReclaimIn(s, n, close)
<1>1. t = [k \in DOMAIN s |->
             IF /\ s[k].kind = "high" /\ s[k].reclaim = 0
                /\ close > s[k].wick + ReclaimMargin
             THEN [s[k] EXCEPT !.reclaim = n] ELSE s[k]]
  BY DEF ReclaimIn
<1> HIDE DEF t
<1>2. \A p \in Pivots : [p EXCEPT !.reclaim = n] \in Pivots
  BY DEF Pivots
<1>3. DOMAIN s = 1 .. Len(s) /\ Len(s) \in Nat /\ \A k \in DOMAIN s : s[k] \in Pivots
  OBVIOUS
<1>4. \A k \in DOMAIN s : \/ t[k] = s[k]
                          \/ s[k].kind = "high" /\ t[k] = [s[k] EXCEPT !.reclaim = n]
  BY <1>1
<1>5. DOMAIN t = 1 .. Len(s) /\ \A k \in 1 .. Len(s) : t[k] \in Pivots
  BY <1>1, <1>2, <1>3, <1>4
<1>6. t = [k \in 1 .. Len(s) |-> t[k]]
  BY <1>1, <1>3
<1>7. [k \in 1 .. Len(s) |-> t[k]] \in Seq(Pivots)
  BY <1>3, <1>5
<1> QED BY <1>3, <1>4, <1>5, <1>6, <1>7 DEF t

LEMMA ClosedKeeps ==
  ASSUME NEW ev, NEW m \in Nat, EvidenceUpTo(ev, m), NEW n \in Nat, NEW close
  PROVE  EvidenceUpTo(Closed(ev, n, close), m)
<1> DEFINE new == Closed(ev, n, close)
           raw == ReclaimIn(ev.raw, n, close)
<1>1. new = [ev EXCEPT !.raw = raw, !.prominent = ReclaimIn(ev.prominent, n, close),
                       !.internal = ReclaimIn(ev.internal, n, close)]
  BY DEF Closed, EvidenceUpTo, Evidence
<1>2. /\ ev \in Evidence /\ ev.raw \in Seq(Pivots) /\ ev.prominent \in Seq(Pivots)
      /\ ev.internal \in Seq(Pivots)
  BY DEF EvidenceUpTo, Evidence
<1>3. /\ raw \in Seq(Pivots) /\ ReclaimIn(ev.prominent, n, close) \in Seq(Pivots)
      /\ ReclaimIn(ev.internal, n, close) \in Seq(Pivots)
  BY <1>2, ReclaimTyped
<1>4. Dated(raw, m)
  <2>1. DOMAIN raw = DOMAIN ev.raw
    BY <1>2, ReclaimTyped
  <2>2. ASSUME NEW k \in DOMAIN ev.raw PROVE raw[k].index = ev.raw[k].index
    <3>1. raw[k] = ev.raw[k] \/ raw[k] = [ev.raw[k] EXCEPT !.reclaim = n]
      BY <1>2, ReclaimTyped
    <3>2. ev.raw[k] \in Pivots
      BY <1>2
    <3> HIDE DEF raw
    <3> QED BY <3>1, <3>2 DEF Pivots
  <2>3. Dated(ev.raw, m)
    BY DEF EvidenceUpTo
  <2> HIDE DEF raw
  <2> QED BY <2>1, <2>2, <2>3 DEF Dated
<1> HIDE DEF raw, new
<1>5. new \in Evidence /\ new.raw = raw
  BY <1>1, <1>2, <1>3 DEF Evidence
<1> QED BY <1>4, <1>5 DEF EvidenceUpTo, new

LEMMA PivotAdded ==
  ASSUME NEW ev, NEW m \in Nat, EvidenceUpTo(ev, m), NEW shape \in PivotShape,
         NEW replaces \in BOOLEAN, replaces => ev.prominent # << >>
  PROVE  /\ EvidenceUpTo(AddPivot(ev, shape, m + 1, replaces), m + 1)
         /\ \/ AddPivot(ev, shape, m + 1, replaces).raw = ev.raw
            \/ \E p \in Pivots : /\ p.index = m + 1
                                 /\ AddPivot(ev, shape, m + 1, replaces).raw = Append(ev.raw, p)
         /\ ev.prominent # << >> => AddPivot(ev, shape, m + 1, replaces).prominent # << >>
<1> DEFINE n == m + 1
           new == AddPivot(ev, shape, n, replaces)
           p == [index |-> n, kind |-> shape.kind, wick |-> shape.wick, body |-> shape.body,
                 top |-> shape.top, reclaim |-> 0]
           prominent == AddProminent(ev.prominent, p, replaces)
<1>1. /\ p \in Pivots /\ p.index = n /\ n \in Nat
      /\ shape.term \in {"external", "prominent", "internal", "daily"}
  BY DEF Pivots, PivotShape, Terms
<1>2. /\ ev \in Evidence /\ ev.raw \in Seq(Pivots) /\ ev.prominent \in Seq(Pivots)
      /\ ev.internal \in Seq(Pivots) /\ ev.daily \in Seq(Pivots)
      /\ ev = [raw |-> ev.raw, prominent |-> ev.prominent, internal |-> ev.internal, daily |-> ev.daily]
  BY DEF EvidenceUpTo, Evidence
<1>3. \/ new = [ev EXCEPT !.daily = Append(@, p)]
      \/ new = [ev EXCEPT !.internal = Append(@, p)]
      \/ new = [ev EXCEPT !.internal = Append(@, p), !.raw = Append(@, p)]
      \/ new = [ev EXCEPT !.internal = Append(@, p), !.raw = Append(@, p), !.prominent = prominent]
  BY <1>1 DEF AddPivot
<1>4. prominent \in Seq(Pivots) /\ prominent # << >>
  <2>0. prominent = IF replaces THEN Append(Front(ev.prominent), p) ELSE Append(ev.prominent, p)
    BY DEF AddProminent, Front
  <2> HIDE DEF prominent, p
  <2>1. replaces => Front(ev.prominent) \in Seq(Pivots)
    BY <1>2, LastOne
  <2>2. \A s \in Seq(Pivots) : Append(s, p) \in Seq(Pivots) /\ Append(s, p) # << >>
    BY <1>1
  <2> QED BY <1>2, <2>0, <2>1, <2>2
<1> HIDE DEF p, prominent, new
<1>5. /\ Append(ev.internal, p) \in Seq(Pivots) /\ Append(ev.raw, p) \in Seq(Pivots)
      /\ Append(ev.daily, p) \in Seq(Pivots)
  BY <1>1, <1>2
<1>6. new \in Evidence
  BY <1>2, <1>3, <1>4, <1>5 DEF Evidence
<1>7. new.raw = ev.raw \/ new.raw = Append(ev.raw, p)
  BY <1>2, <1>3
<1>8. Dated(ev.raw, n) /\ Dated(Append(ev.raw, p), n)
  <2>1. Dated(ev.raw, m)
    BY DEF EvidenceUpTo
  <2>2. Dated(ev.raw, n)
    BY <2>1 DEF Dated
  <2> DEFINE s == ev.raw
             t == Append(s, p)
  <2>3. /\ DOMAIN s = 1 .. Len(s) /\ Len(s) \in Nat /\ DOMAIN t = 1 .. Len(s) + 1
        /\ t[Len(s) + 1] = p /\ \A k \in 1 .. Len(s) : t[k] = s[k]
    BY <1>2
  <2> HIDE DEF s, t
  <2>4. Dated(s, m)
    BY <2>1 DEF s
  <2>5. ASSUME NEW k \in 1 .. Len(s) + 1 PROVE t[k].index \in 1 .. n
    <3>1. CASE k = Len(s) + 1
      BY <1>1, <2>3, <3>1
    <3>2. CASE k # Len(s) + 1
      <4>1. k \in 1 .. Len(s)
        BY <2>3, <3>2
      <4> QED BY <2>3, <2>4, <4>1 DEF Dated
    <3> QED BY <3>1, <3>2
  <2>6. ASSUME NEW j \in 1 .. Len(s) + 1, NEW k \in 1 .. Len(s) + 1, j < k
        PROVE  t[j].index < t[k].index
    <3>1. j \in 1 .. Len(s) /\ t[j].index = s[j].index /\ s[j].index \in 1 .. m
      BY <2>3, <2>4, <2>6 DEF Dated
    <3>2. CASE k = Len(s) + 1
      BY <1>1, <2>3, <3>1, <3>2
    <3>3. CASE k # Len(s) + 1
      <4>1. k \in 1 .. Len(s) /\ t[k].index = s[k].index
        BY <2>3, <3>3
      <4> QED BY <2>3, <2>4, <2>6, <3>1, <4>1 DEF Dated
    <3> QED BY <3>2, <3>3
  <2>7. Dated(t, n)
    BY <2>3, <2>5, <2>6 DEF Dated
  <2> QED BY <2>2, <2>7 DEF s, t
<1>9. ev.prominent # << >> => new.prominent # << >>
  BY <1>2, <1>3, <1>4
<1> QED BY <1>1, <1>6, <1>7, <1>8, <1>9 DEF EvidenceUpTo, new

LEMMA InitFold ==
  ASSUME NEW T, NEW h \in Seq(T)
  PROVE  LET printed == FoldLeft(LAMBDA acc, s :
                          [n  |-> acc.n + 1,
                           ev |-> AddPivot(Closed(acc.ev, acc.n + 1, FirstPrice), s,
                                           acc.n + 1, FALSE)],
                          [n |-> 0, ev |-> NoEvidence], h)
         IN \E f : /\ IsFold(<<"bar">>, [n |-> 0, ev |-> NoEvidence], h, Len(h), f)
                   /\ printed = f[1 .. Len(h)]
<1> DEFINE n == Len(h)
           kind == <<"bar">>
           base == [n |-> 0, ev |-> NoEvidence]
           bar(acc, s) == [n  |-> acc.n + 1,
                           ev |-> AddPivot(Closed(acc.ev, acc.n + 1, FirstPrice), s,
                                           acc.n + 1, FALSE)]
           Is(f) == f = [D \in SUBSET (1 .. n) |->
                           IF D = {} THEN base ELSE bar(f[D \ {Max(D)}], h[Max(D)])]
           it == CHOOSE f : Is(f)
<1>1. n \in Nat /\ DOMAIN h = 1 .. n
  OBVIOUS
<1>2. FoldLeft(bar, base, h) = it[1 .. n]
  BY <1>1 DEF FoldLeft, MapThenFoldSet, Max
<1>3. \A f : IsFold(kind, base, h, n, f) <=> Is(f)
  BY DEF IsFold, Step
<1> HIDE DEF Is, kind
<1>4. \E f : Is(f)
  BY <1>1, <1>3, FoldExists
<1>5. IsFold(kind, base, h, n, it)
  BY <1>3, <1>4
<1> HIDE DEF it
<1> QED BY <1>2, <1>5 DEF kind

LEMMA StartKnown ==
  ASSUME LadderInit
  PROVE  Known
<1>1. PICK h \in Histories :
        LET printed == FoldLeft(LAMBDA acc, s :
                          [n  |-> acc.n + 1,
                           ev |-> AddPivot(Closed(acc.ev, acc.n + 1, FirstPrice), s,
                                           acc.n + 1, FALSE)],
                          [n |-> 0, ev |-> NoEvidence], h)
        IN /\ bars = printed.n
           /\ evidence = printed.ev
           /\ price = FirstPrice
           /\ spaced = SpacedLadder(evidence, bars, price)
           /\ ladder = FilledLadder(spaced, evidence, price)
  BY DEF LadderInit
<1>2. h \in Seq(PivotShape)
  BY ShapeAssumption
<1> DEFINE base == [n |-> 0, ev |-> NoEvidence]
           kind == <<"bar">>
           S == {a \in [n : Nat, ev : Evidence] : Dated(a.ev.raw, a.n)}
<1>3. PICK f : /\ IsFold(kind, base, h, Len(h), f)
               /\ bars = f[1 .. Len(h)].n /\ evidence = f[1 .. Len(h)].ev
  BY <1>1, <1>2, InitFold
<1>4. base \in S
  <2>1. NoEvidence \in Evidence /\ Dated(NoEvidence.raw, 0)
    BY DEF NoEvidence, Evidence, Dated
  <2> QED BY <2>1
<1>5. ASSUME NEW acc \in S, NEW k \in 1 .. Len(h) PROVE Step(kind, acc, h[k]) \in S
  <2> DEFINE m == acc.n
             x == h[k]
             old == Closed(acc.ev, m + 1, FirstPrice)
             ev == AddPivot(old, x, m + 1, FALSE)
  <2>1. m \in Nat /\ m + 1 \in Nat /\ EvidenceUpTo(acc.ev, m) /\ x \in PivotShape
    BY <1>2 DEF EvidenceUpTo
  <2>2. EvidenceUpTo(old, m)
    <3> HIDE DEF m
    <3> QED BY <2>1, ClosedKeeps
  <2>3. Step(kind, acc, x) = [n |-> m + 1, ev |-> ev]
    BY DEF Step
  <2> HIDE DEF m, x, old
  <2>4. EvidenceUpTo(ev, m + 1)
    BY <2>1, <2>2, PivotAdded
  <2>5. ev \in Evidence /\ Dated(ev.raw, m + 1)
    BY <2>4 DEF EvidenceUpTo
  <2> HIDE DEF ev
  <2>6. [n |-> m + 1, ev |-> ev] \in S
    BY <2>1, <2>5
  <2> HIDE DEF S, kind
  <2> QED BY <2>3, <2>6 DEF x
<1>6. Len(h) \in Nat /\ Len(h) <= Len(h)
  BY <1>2
<1> HIDE DEF S, kind, base
<1>7. f[1 .. Len(h)] \in S
  BY <1>3, <1>4, <1>5, <1>6, FoldInvariant
<1>8. bars \in Nat /\ EvidenceUpTo(evidence, bars)
  BY <1>3, <1>7 DEF S, EvidenceUpTo
<1> QED BY <1>1, <1>8 DEF Known

\* What a bar leaves of the raw swings, but for highs it reclaims.
LEMMA NextKnown ==
  ASSUME Known, LadderNext
  PROVE  /\ Known'
         /\ \E s : /\ s = ReclaimIn(evidence.raw, bars + 1, price')
                   /\ \/ evidence'.raw = s
                      \/ \E p \in Pivots : p.index = bars + 1 /\ evidence'.raw = Append(s, p)
         /\ evidence.prominent # << >> => evidence'.prominent # << >>
<1>1. PICK close \in Prices : \/ Bar(close)
                              \/ \E shape \in Shapes, replaces \in BOOLEAN :
                                   Confirm(close, shape, replaces)
  BY DEF LadderNext
<1>2. bars \in Nat /\ EvidenceUpTo(evidence, bars) /\ bars + 1 \in Nat
  BY DEF Known
<1> DEFINE old == Closed(evidence, bars + 1, close)
<1>3. EvidenceUpTo(old, bars)
  BY <1>2, ClosedKeeps
<1>4. EvidenceUpTo(old, bars + 1)
  BY <1>2, <1>3 DEF EvidenceUpTo, Dated
<1>5. /\ old.raw = ReclaimIn(evidence.raw, bars + 1, close)
      /\ old.prominent = ReclaimIn(evidence.prominent, bars + 1, close)
  BY <1>2 DEF Closed, EvidenceUpTo, Evidence
<1>6. evidence.prominent # << >> => old.prominent # << >>
  <2>1. evidence.prominent \in Seq(Pivots)
    BY <1>2 DEF EvidenceUpTo, Evidence
  <2>2. DOMAIN old.prominent = DOMAIN evidence.prominent
    BY <1>2, <1>5, <2>1, ReclaimTyped
  <2> HIDE DEF old
  <2>3. evidence.prominent # << >> => 1 \in DOMAIN evidence.prominent
    BY <2>1
  <2> QED BY <2>2, <2>3
<1>7. CASE Bar(close)
  <2>1. bars' = bars + 1 /\ price' = close /\ evidence' = old
    BY <1>7 DEF Bar
  <2>2. /\ spaced' = SpacedLadder(evidence', bars', price')
        /\ ladder' = FilledLadder(spaced', evidence', price')
    BY <1>7 DEF Bar, Materialize
  <2> HIDE DEF old
  <2> QED BY <1>2, <1>4, <1>5, <1>6, <2>1, <2>2 DEF Known
<1>8. CASE \E shape \in Shapes, replaces \in BOOLEAN : Confirm(close, shape, replaces)
  <2>1. PICK shape \in Shapes, replaces \in BOOLEAN : Confirm(close, shape, replaces)
    BY <1>8
  <2>2. /\ bars' = bars + 1 /\ price' = close
        /\ evidence' = AddPivot(old, shape, bars + 1, replaces)
        /\ replaces => evidence.prominent # << >>
    BY <2>1 DEF Confirm, MayReplace
  <2>3. /\ spaced' = SpacedLadder(evidence', bars', price')
        /\ ladder' = FilledLadder(spaced', evidence', price')
    BY <2>1 DEF Confirm, Materialize
  <2>4. shape \in PivotShape
    BY ShapeAssumption
  <2> HIDE DEF old
  <2>5. /\ EvidenceUpTo(evidence', bars + 1)
        /\ \/ evidence'.raw = old.raw
           \/ \E p \in Pivots : p.index = bars + 1 /\ evidence'.raw = Append(old.raw, p)
        /\ old.prominent # << >> => evidence'.prominent # << >>
    BY <1>2, <1>3, <1>6, <2>2, <2>4, PivotAdded
  <2> QED BY <1>2, <1>5, <1>6, <2>2, <2>3, <2>5 DEF Known
<1> QED BY <1>1, <1>7, <1>8

\* On every bar each pivot has its shape and a bar up to this one, and both ladders
\* are what materialize_support_zones makes of the evidence.
THEOREM LadderKnown ==
  LadderSpec => []Known
<1>1. LadderInit => Known
  BY StartKnown
<1>2. Known /\ [LadderNext]_ladderVars => Known'
  <2> SUFFICES ASSUME Known, [LadderNext]_ladderVars PROVE Known'
    OBVIOUS
  <2>1. CASE LadderNext
    BY <2>1, NextKnown
  <2>2. CASE UNCHANGED ladderVars
    BY <2>2 DEF ladderVars, Known
  <2> QED BY <2>1, <2>2
<1> QED BY <1>1, <1>2, PTL DEF LadderSpec

LEMMA KnownSteps ==
  ASSUME Known PROVE StepsSurvive
<1> DEFINE zones == LocalZones(evidence.internal, bars - Lookback + 1, MinTouches)
           e == Eligible(zones)
<1> SUFFICES ASSUME Climbs(e)
             PROVE  Len(SelectSteps(e)) >= Len(OrdinarySteps(e))
  BY DEF StepsSurvive
<1>1. evidence.internal \in Seq(Pivots)
  BY DEF Known, EvidenceUpTo, Evidence
<1>2. zones \in Seq(Plain)
  BY <1>1, LocalZonesTyped
<1> HIDE DEF zones
<1>3. e \in Seq(Plain)
  BY <1>2, EligibleTyped
<1> HIDE DEF e
<1>4. DOMAIN e = 1 .. Len(e) /\ \A k \in 1 .. Len(e) : e[k] \in Plain
  BY <1>3
<1>5. \A z \in Plain : Placed(z)
  BY DEF Plain, Lawful, Placed
<1>6. Climbing(e, Len(e))
  BY <1>4, <1>5 DEF Climbing, Climbs, Under
<1>7. Len(OrdinarySteps(e)) <= Len(SelectSteps(e))
  BY <1>3, <1>6, FlipsCostNoStep
<1> QED BY <1>7

\* StepsSurvive for all evidence, bars and lookbacks: the local zones it speaks of are
\* well-formed, whatever pivots are printed, and FlipsCostNoStep is about such zones.
THEOREM StepsSurviveAlways ==
  LadderSpec => []StepsSurvive
BY LadderKnown, KnownSteps, PTL

(***************************************************************************)
(* Zones of clusters.                                                      *)
(***************************************************************************)
LEMMA ListElems ==
  ASSUME NEW T, NEW s \in Seq(T)
  PROVE  ToSet(s) = Elems(s) /\ \A k \in DOMAIN s : s[k] \in T /\ s[k] \in Elems(s)
BY DEF ToSet, Elems

LEMMA FixedBoundsLawful ==
  ASSUME NEW prices \in Closes, NEW style
  PROVE  LET b == FixedBounds(prices, style)
         IN  b[1] \in Int /\ b[2] \in Int /\ b[1] <= b[2]
<1> DEFINE R == {p \in ToSet(prices) \X ToSet(prices) : p[1] < p[2]}
           t == Sorted(prices, R)
           n == Len(prices)
           anchor(edge) == IF n <= 10 THEN t[edge] ELSE LowerDecile(t)
<1>1. FixedBounds(prices, style) =
        IF style = "support_floor" THEN <<anchor(1), anchor(1) + ZoneWidth>>
        ELSE <<anchor(n) - ZoneWidth, anchor(n)>>
  BY DEF FixedBounds, SortBy
<1>2. prices \in Seq(Int) /\ n \in Nat \ {0}
  BY DEF Closes
<1> HIDE DEF R
<1>3. t \in Seq(Int) /\ Len(t) = n
  BY <1>2, SortedKeeps
<1> HIDE DEF t
<1>4. \A k \in 1 .. n : t[k] \in Int
  BY <1>3
<1>5. n > 10 => LowerDecile(t) \in Int
  <2> SUFFICES ASSUME n > 10 PROVE LowerDecile(t) \in Int
    OBVIOUS
  <2>1. ((n - 1) \div 10) + 1 \in 1 .. n
    <3> HIDE DEF n
    <3> QED BY <1>2
  <2> QED BY <1>3, <1>4, <2>1 DEF LowerDecile
<1> HIDE DEF n
<1>6. anchor(1) \in Int /\ anchor(n) \in Int
  BY <1>2, <1>4, <1>5
<1> HIDE DEF anchor
<1> QED BY <1>1, <1>6 DEF ZoneWidth

LEMMA OriginPlain ==
  ASSUME NEW origins \in SUBSET PlainOrigins, origins # {}
  PROVE  OriginOf(origins) \in PlainOrigins
<1>1. (CHOOSE o \in origins : TRUE) \in PlainOrigins
  OBVIOUS
<1>2. /\ "structure_support_floor" \in PlainOrigins /\ "flipped_resistance" \in PlainOrigins
      /\ "mixed_structure" \in PlainOrigins
  BY DEF PlainOrigins, CandidateOrigins
<1> QED BY <1>1, <1>2 DEF OriginOf

LEMMA ZoneOfClusterTyped ==
  ASSUME NEW c \in Clusters
  PROVE  ZoneOfCluster(c) \in Plain
<1> DEFINE closes == [k \in DOMAIN c |-> c[k].price]
           bounds == FixedBounds(closes, c[1].style)
           flips == Pick(c, {k \in DOMAIN c : c[k].origin = "flipped_resistance"})
           origins == {x.origin : x \in ToSet(c)}
           origin == OriginOf(origins)
           style == c[1].style
           low == bounds[1]
           high == bounds[2]
           sources == {x.index : x \in ToSet(c)}
           touches == Len(c)
           score == 2 * Len(c) + Len(flips)
<1>1. ZoneOfCluster(c) = Zone(origin, style, low, high, closes, sources, touches, score)
  BY DEF ZoneOfCluster, Selection
<1>2. c \in Seq(Candidates) /\ c # << >>
  BY DEF Clusters
<1>3. /\ ToSet(c) \in SUBSET Candidates /\ ToSet(c) # {} /\ c[1] \in Candidates
  BY <1>2, ListElems, ElemsFinite, HeadTyped
<1>4. \A x \in Candidates : /\ x.origin \in PlainOrigins /\ x.index \in Nat /\ x.style \in Styles
  BY DEF Candidates, PlainOrigins
<1>5. origin \in PlainOrigins
  <2>1. origins \in SUBSET PlainOrigins /\ origins # {}
    BY <1>3, <1>4
  <2> HIDE DEF origins
  <2> QED BY <2>1, OriginPlain
<1>6. sources \in SUBSET Nat /\ style \in Styles
  BY <1>3, <1>4
<1>7. closes \in Closes /\ Len(c) \in Nat
  BY PricesOf
<1>8. Len(flips) \in Nat
  <2>1. flips \in Seq(Candidates)
    BY <1>2, PickTyped
  <2> QED BY <2>1
<1>9. touches \in Int /\ score \in Int
  <2> HIDE DEF flips
  <2> QED BY <1>7, <1>8
<1>10. low \in Int /\ high \in Int /\ low <= high
  <2> HIDE DEF closes
  <2> QED BY <1>7, FixedBoundsLawful
<1> HIDE DEF origin, style, low, high, closes, sources, touches, score
<1> QED BY <1>1, <1>5, <1>6, <1>7, <1>9, <1>10, ZoneMade

LEMMA ZonesOfClustersTyped ==
  ASSUME NEW s \in Seq(Candidates), NEW minTouches
  PROVE  ZonesOfClusters(s, minTouches) \in Seq(Plain)
<1> DEFINE all == Cluster(s)
           places == {k \in DOMAIN all : Touched(all[k], minTouches)}
           got == Pick(all, places)
<1>1. ZonesOfClusters(s, minTouches) = [k \in DOMAIN got |-> ZoneOfCluster(got[k])]
  BY DEF ZonesOfClusters, Selection
<1>2. all \in Seq(Clusters)
  BY ClusterTyped
<1> HIDE DEF all
<1>3. got \in Seq(Clusters)
  <2> HIDE DEF places
  <2> QED BY <1>2, PickTyped
<1> HIDE DEF got
<1>4. ASSUME NEW i \in DOMAIN got PROVE ZoneOfCluster(got[i]) \in Plain
  <2>1. got[i] \in Clusters
    BY <1>3
  <2> QED BY <2>1, ZoneOfClusterTyped
<1>5. DOMAIN got = 1 .. Len(got) /\ Len(got) \in Nat
  BY <1>3
<1>6. [k \in 1 .. Len(got) |-> ZoneOfCluster(got[k])] \in Seq(Plain)
  BY <1>4, <1>5
<1> QED BY <1>1, <1>5, <1>6

(***************************************************************************)
(* Groups of them.                                                         *)
(***************************************************************************)
Groups == {g \in Seq(Plain) : g # << >>}

LEMMA PlainFields ==
  ASSUME NEW z \in Plain
  PROVE  /\ z.low \in Int /\ z.high \in Int /\ z.low <= z.high /\ z.origin \in PlainOrigins
         /\ z.style \in Styles /\ z.closes \in Closes /\ z.sources \in SUBSET Nat
         /\ z.touches \in Int /\ z.score \in Int /\ z.near = FALSE
BY DEF Plain, Lawful

LEMMA MergeFold ==
  ASSUME NEW T, NEW s, ByLow(s) \in Seq(T)
  PROVE  LET t == ByLow(s)
         IN  \E f : /\ IsFold(<<"merge">>, << >>, t, Len(t), f)
                    /\ LET groups == f[1 .. Len(t)]
                       IN MergeMacroGroups(s) = [k \in DOMAIN groups |-> Combine(groups[k])]
<1> DEFINE t == ByLow(s)
           n == Len(t)
           kind == <<"merge">>
           step(acc, x) ==
             IF acc = << >> \/ ~CanJoin(Last(acc), x) THEN Append(acc, <<x>>)
             ELSE [acc EXCEPT ![Len(acc)] = Append(@, x)]
           Is(f) == f = [D \in SUBSET (1 .. n) |->
                           IF D = {} THEN << >> ELSE step(f[D \ {Max(D)}], t[Max(D)])]
           it == CHOOSE f : Is(f)
<1>1. n \in Nat /\ DOMAIN t = 1 .. n
  OBVIOUS
<1>2. MergeMacroGroups(s) = [k \in DOMAIN it[1 .. n] |-> Combine(it[1 .. n][k])]
  BY <1>1 DEF MergeMacroGroups, FoldLeft, MapThenFoldSet, Max, Last
<1> HIDE DEF t
<1>3. \A f : IsFold(kind, << >>, t, n, f) <=> Is(f)
  BY DEF IsFold, Step
<1> HIDE DEF Is, kind
<1>4. \E f : Is(f)
  BY <1>1, <1>3, FoldExists
<1>5. IsFold(kind, << >>, t, n, it)
  BY <1>3, <1>4
<1> HIDE DEF it
<1> QED BY <1>2, <1>5 DEF kind, t

LEMMA ClosesFold ==
  ASSUME NEW T, NEW s \in Seq(T)
  PROVE  \E f : /\ IsFold(<<"closes">>, << >>, s, Len(s), f)
                /\ FoldLeft(LAMBDA all, z : all \o z.closes, << >>, s) = f[1 .. Len(s)]
<1> DEFINE n == Len(s)
           kind == <<"closes">>
           Is(f) == f = [D \in SUBSET (1 .. n) |->
                           IF D = {} THEN << >> ELSE f[D \ {Max(D)}] \o s[Max(D)].closes]
           it == CHOOSE f : Is(f)
<1>1. n \in Nat /\ DOMAIN s = 1 .. n
  OBVIOUS
<1>2. FoldLeft(LAMBDA all, z : all \o z.closes, << >>, s) = it[1 .. n]
  BY <1>1 DEF FoldLeft, MapThenFoldSet, Max
<1>3. \A f : IsFold(kind, << >>, s, n, f) <=> Is(f)
  BY DEF IsFold, Step
<1> HIDE DEF Is, kind
<1>4. \E f : Is(f)
  BY <1>1, <1>3, FoldExists
<1>5. IsFold(kind, << >>, s, n, it)
  BY <1>3, <1>4
<1> HIDE DEF it
<1> QED BY <1>2, <1>5 DEF kind

LEMMA ScoreFold ==
  ASSUME NEW T, NEW s \in Seq(T)
  PROVE  \E f : /\ IsFold(<<"score">>, 0, s, Len(s), f)
                /\ FoldLeft(LAMBDA sum, z : sum + z.score, 0, s) = f[1 .. Len(s)]
<1> DEFINE n == Len(s)
           kind == <<"score">>
           Is(f) == f = [D \in SUBSET (1 .. n) |->
                           IF D = {} THEN 0 ELSE f[D \ {Max(D)}] + s[Max(D)].score]
           it == CHOOSE f : Is(f)
<1>1. n \in Nat /\ DOMAIN s = 1 .. n
  OBVIOUS
<1>2. FoldLeft(LAMBDA sum, z : sum + z.score, 0, s) = it[1 .. n]
  BY <1>1 DEF FoldLeft, MapThenFoldSet, Max
<1>3. \A f : IsFold(kind, 0, s, n, f) <=> Is(f)
  BY DEF IsFold, Step
<1> HIDE DEF Is, kind
<1>4. \E f : Is(f)
  BY <1>1, <1>3, FoldExists
<1>5. IsFold(kind, 0, s, n, it)
  BY <1>3, <1>4
<1> HIDE DEF it
<1> QED BY <1>2, <1>5 DEF kind

LEMMA ClosesTyped ==
  ASSUME NEW g \in Groups
  PROVE  FoldLeft(LAMBDA all, z : all \o z.closes, << >>, g) \in Closes
<1> DEFINE n == Len(g)
           kind == <<"closes">>
           v == FoldLeft(LAMBDA all, z : all \o z.closes, << >>, g)
           S == Seq(Int)
<1>1. g \in Seq(Plain) /\ n \in Nat \ {0} /\ \A k \in 1 .. n : g[k].closes \in Closes
  <2>1. g \in Seq(Plain) /\ n \in Nat \ {0} /\ \A k \in 1 .. n : g[k] \in Plain
    BY DEF Groups
  <2> QED BY <2>1, PlainFields
<1>2. PICK f : IsFold(kind, << >>, g, n, f) /\ v = f[1 .. n]
  BY <1>1, ClosesFold
<1>3. \A acc, x : Step(kind, acc, x) = acc \o x.closes
  BY DEF Step
<1> HIDE DEF kind, v
<1>4. << >> \in S /\ \A acc \in S : \A k \in 1 .. n : Step(kind, acc, g[k]) \in S
  <2>1. \A k \in 1 .. n : g[k].closes \in Seq(Int)
    BY <1>1 DEF Closes
  <2>2. \A a, b \in Seq(Int) : a \o b \in Seq(Int)
    OBVIOUS
  <2> HIDE DEF n
  <2>3. \A acc \in S : \A k \in 1 .. n : acc \o g[k].closes \in S
    BY <2>1, <2>2
  <2>4. << >> \in S
    OBVIOUS
  <2> QED BY <1>3, <2>3, <2>4
<1> HIDE DEF S
<1> DEFINE m == n - 1
<1>5. m \in Nat /\ m + 1 = n /\ m <= n /\ n \in 1 .. n /\ n \in Nat
  BY <1>1
<1> HIDE DEF n, m
<1>6. f[1 .. m] \in S
  BY <1>2, <1>4, <1>5, FoldInvariant
<1>7. f[1 .. n] = f[1 .. m] \o g[n].closes
  <2>1. f[1 .. m + 1] = Step(kind, f[1 .. m], g[m + 1])
    <3>1. m + 1 <= n /\ m \in Nat /\ n \in Nat
      BY <1>5
    <3>2. IsFold(kind, << >>, g, n, f)
      BY <1>2
    <3> QED BY <3>1, <3>2, FoldUnrolls
  <2> QED BY <1>3, <1>5, <2>1
<1>8. g[n].closes \in Closes
  BY <1>1, <1>5
<1>9. \A a \in Seq(Int) : \A b \in Closes : a \o b \in Closes
  <2> SUFFICES ASSUME NEW a \in Seq(Int), NEW b \in Closes PROVE a \o b \in Closes
    OBVIOUS
  <2>1. b \in Seq(Int) /\ Len(b) > 0 /\ Len(b) \in Nat /\ Len(a) \in Nat
    BY DEF Closes
  <2>2. a \o b \in Seq(Int) /\ Len(a \o b) = Len(a) + Len(b)
    BY <2>1
  <2>3. a \o b # << >>
    BY <2>1, <2>2
  <2> QED BY <2>2, <2>3 DEF Closes
<1> QED BY <1>2, <1>6, <1>7, <1>8, <1>9 DEF S, v

LEMMA ScoreTyped ==
  ASSUME NEW g \in Groups
  PROVE  FoldLeft(LAMBDA sum, z : sum + z.score, 0, g) \in Int
<1> DEFINE n == Len(g)
           kind == <<"score">>
           v == FoldLeft(LAMBDA sum, z : sum + z.score, 0, g)
           S == Int
<1>1. g \in Seq(Plain) /\ n \in Nat /\ \A k \in 1 .. n : g[k] \in Plain
  BY DEF Groups
<1> HIDE DEF n
<1>0. n <= n /\ \A k \in 1 .. n : g[k].score \in Int
  <2>1. n <= n
    BY <1>1
  <2>2. \A z \in Plain : z.score \in Int
    BY PlainFields
  <2> QED BY <1>1, <2>1, <2>2
<1>2. PICK f : IsFold(kind, 0, g, n, f) /\ v = f[1 .. n]
  BY <1>1, ScoreFold DEF n
<1>3. \A acc, x : Step(kind, acc, x) = acc + x.score
  BY DEF Step
<1> HIDE DEF kind, v
<1>4. 0 \in S /\ \A acc \in S : \A k \in 1 .. n : Step(kind, acc, g[k]) \in S
  BY <1>0, <1>3
<1> HIDE DEF S
<1>5. f[1 .. n] \in S
  BY <1>0, <1>1, <1>2, <1>4, FoldInvariant
<1> QED BY <1>2, <1>5 DEF S, v

LEMMA CombineTyped ==
  ASSUME NEW g \in Groups
  PROVE  Combine(g) \in Plain
<1> DEFINE closes == FoldLeft(LAMBDA all, z : all \o z.closes, << >>, g)
           score == FoldLeft(LAMBDA sum, z : sum + z.score, 0, g)
           bounds == FixedBounds(closes, g[1].style)
           origins == {z.origin : z \in ToSet(g)}
           origin == OriginOf(origins)
           style == g[1].style
           low == bounds[1]
           high == bounds[2]
           sources == UNION {z.sources : z \in ToSet(g)}
           touches == Len(closes)
<1>1. Combine(g) = IF Len(g) = 1 THEN g[1]
                   ELSE Zone(origin, style, low, high, closes, sources, touches, score)
  BY DEF Combine
<1>2. g \in Seq(Plain) /\ g # << >>
  BY DEF Groups
<1>3. ToSet(g) \in SUBSET Plain /\ ToSet(g) # {} /\ g[1] \in Plain
  BY <1>2, ListElems, ElemsFinite, HeadTyped
<1>4. closes \in Closes /\ score \in Int
  BY ClosesTyped, ScoreTyped
<1> HIDE DEF closes, score
<1>5. origin \in PlainOrigins
  <2>1. origins \in SUBSET PlainOrigins /\ origins # {}
    BY <1>3, PlainFields
  <2> HIDE DEF origins
  <2> QED BY <2>1, OriginPlain
<1>6. sources \in SUBSET Nat /\ style \in Styles
  BY <1>3, PlainFields
<1>7. touches \in Int
  BY <1>4 DEF Closes
<1>8. low \in Int /\ high \in Int /\ low <= high
  BY <1>4, FixedBoundsLawful
<1> HIDE DEF origin, style, low, high, sources, touches
<1>9. Zone(origin, style, low, high, closes, sources, touches, score) \in Plain
  BY <1>4, <1>5, <1>6, <1>7, <1>8, ZoneMade
<1> QED BY <1>1, <1>3, <1>9

LEMMA MergeTyped ==
  ASSUME NEW s \in Seq(Plain)
  PROVE  MergeMacroGroups(s) \in Seq(Plain)
<1> DEFINE t == ByLow(s)
           kind == <<"merge">>
           S == Seq(Groups)
<1>1. t \in Seq(Plain) /\ Len(t) \in Nat /\ Len(t) <= Len(t)
  <2>1. t \in Seq(Plain)
    BY ByLowTyped
  <2> HIDE DEF t
  <2> QED BY <2>1
<1>2. PICK f : /\ IsFold(kind, << >>, t, Len(t), f)
               /\ LET groups == f[1 .. Len(t)]
                  IN MergeMacroGroups(s) = [k \in DOMAIN groups |-> Combine(groups[k])]
  BY <1>1, MergeFold
<1> HIDE DEF t
<1>3. ASSUME NEW acc \in S, NEW k \in 1 .. Len(t) PROVE Step(kind, acc, t[k]) \in S
  <2> DEFINE x == t[k]
  <2>1. x \in Plain
    BY <1>1
  <2>2. Step(kind, acc, x) = IF acc = << >> \/ ~CanJoin(Last(acc), x) THEN Append(acc, <<x>>)
                             ELSE [acc EXCEPT ![Len(acc)] = Append(@, x)]
    BY DEF Step
  <2> HIDE DEF x
  <2>3. <<x>> \in Groups
    BY <2>1 DEF Groups
  <2>4. Append(acc, <<x>>) \in S
    BY <2>3
  <2>5. ASSUME acc # << >> PROVE [acc EXCEPT ![Len(acc)] = Append(@, x)] \in S
    <3> DEFINE m == Len(acc)
               v == Append(acc[m], x)
    <3>1. acc \in Seq(Groups) /\ m \in DOMAIN acc /\ acc[m] \in Groups
      BY <2>5
    <3>2. v \in Groups
      BY <2>1, <3>1 DEF Groups
    <3> HIDE DEF m, v
    <3>3. [acc EXCEPT ![m] = v] \in Seq(Groups)
      BY <3>1, <3>2, ExceptTyped
    <3> QED BY <3>3 DEF m, v
  <2> QED BY <2>2, <2>4, <2>5 DEF x
<1>4. << >> \in S
  OBVIOUS
<1> HIDE DEF S, kind
<1> DEFINE groups == f[1 .. Len(t)]
<1>5. groups \in S
  BY <1>1, <1>2, <1>3, <1>4, FoldInvariant
<1>6. MergeMacroGroups(s) = [k \in DOMAIN groups |-> Combine(groups[k])]
  BY <1>2
<1> HIDE DEF groups
<1>7. DOMAIN groups = 1 .. Len(groups) /\ Len(groups) \in Nat /\ \A k \in 1 .. Len(groups) : groups[k] \in Groups
  BY <1>5 DEF S
<1>8. \A k \in 1 .. Len(groups) : Combine(groups[k]) \in Plain
  BY <1>7, CombineTyped
<1>9. [k \in 1 .. Len(groups) |-> Combine(groups[k])] \in Seq(Plain)
  BY <1>7, <1>8
<1> QED BY <1>6, <1>7, <1>9

(***************************************************************************)
(* Bridges and thinning.                                                   *)
(***************************************************************************)
LEMMA ClosesJoin ==
  ASSUME NEW a \in Closes, NEW b \in Closes
  PROVE  a \o b \in Closes
<1>1. a \in Seq(Int) /\ b \in Seq(Int) /\ Len(b) > 0 /\ Len(b) \in Nat /\ Len(a) \in Nat
  BY DEF Closes
<1>2. a \o b \in Seq(Int) /\ Len(a \o b) = Len(a) + Len(b)
  BY <1>1
<1>3. a \o b # << >>
  BY <1>1, <1>2
<1> QED BY <1>2, <1>3 DEF Closes

LEMMA BridgeTyped ==
  ASSUME NEW a \in Plain, NEW b \in Plain
  PROVE  Bridge(a, b) \in Plain
<1> DEFINE low == a.high
           high == a.high + ZoneWidth
           closes == a.closes \o b.closes
           sources == a.sources \union b.sources
           touches == a.touches + b.touches
           score == a.score + b.score
<1>1. Bridge(a, b) = Zone("mixed_structure", "body", low, high, closes, sources, touches, score)
  BY DEF Bridge
<1>2. /\ a.high \in Int /\ a.closes \in Closes /\ b.closes \in Closes
      /\ a.sources \in SUBSET Nat /\ b.sources \in SUBSET Nat
      /\ a.touches \in Int /\ b.touches \in Int /\ a.score \in Int /\ b.score \in Int
  BY PlainFields
<1>3. low \in Int /\ high \in Int /\ low <= high
  BY <1>2 DEF ZoneWidth
<1>4. closes \in Closes
  BY <1>2, ClosesJoin
<1>5. sources \in SUBSET Nat /\ touches \in Int /\ score \in Int
  BY <1>2
<1>6. "mixed_structure" \in PlainOrigins /\ "body" \in Styles
  BY DEF PlainOrigins, Styles
<1> HIDE DEF low, high, closes, sources, touches, score
<1> QED BY <1>1, <1>3, <1>4, <1>5, <1>6, ZoneMade

LEMMA BridgeGapsTyped ==
  ASSUME NEW s \in Seq(Plain)
  PROVE  BridgeGaps(s) \in Seq(Plain)
<1> DEFINE sorted == ByLow(s)
           pairs == {k \in 1 .. Len(sorted) - 1 : Bridged(sorted[k], sorted[k + 1])}
           gone(z) == \E k \in pairs : z \in {sorted[k], sorted[k + 1]} \/ Companion(z, sorted[k])
           at == [k \in DOMAIN sorted |-> k]
           places == {k \in DOMAIN at : at[k] \in pairs}
           built == Pick(at, places)
           rest == Pick(s, {k \in DOMAIN s : ~gone(s[k])})
           bridges == [k \in DOMAIN built |-> Bridge(sorted[built[k]], sorted[built[k] + 1])]
<1>1. BridgeGaps(s) = rest \o bridges
  BY DEF BridgeGaps, Selection
<1>2. sorted \in Seq(Plain)
  BY ByLowTyped
<1>3. rest \in Seq(Plain)
  BY PickTyped
<1> HIDE DEF rest, sorted
<1>4. /\ built \in Seq(DOMAIN sorted)
      /\ \A i \in DOMAIN built : \E k \in DOMAIN at : at[k] \in pairs /\ built[i] = at[k]
  <2>1. at \in Seq(DOMAIN sorted)
    BY <1>2
  <2> HIDE DEF at
  <2>2. /\ built \in Seq(DOMAIN sorted)
        /\ \A i \in DOMAIN built : \E k \in DOMAIN at : k \in places /\ built[i] = at[k]
    <3> HIDE DEF places
    <3> QED BY <2>1, PickTyped
  <2> HIDE DEF built
  <2> QED BY <2>2
<1>5. DOMAIN built = 1 .. Len(built) /\ Len(built) \in Nat
  BY <1>4
<1>6. ASSUME NEW i \in DOMAIN built PROVE Bridge(sorted[built[i]], sorted[built[i] + 1]) \in Plain
  <2>1. built[i] \in pairs
    BY <1>4
  <2>2. \A k \in 1 .. Len(sorted) - 1 : k \in DOMAIN sorted /\ k + 1 \in DOMAIN sorted
    BY <1>2
  <2>3. built[i] \in DOMAIN sorted /\ built[i] + 1 \in DOMAIN sorted
    BY <2>1, <2>2
  <2>4. \A k \in DOMAIN sorted : sorted[k] \in Plain
    BY <1>2
  <2> HIDE DEF built
  <2> QED BY <2>3, <2>4, BridgeTyped
<1> HIDE DEF built
<1>7. [k \in 1 .. Len(built) |-> Bridge(sorted[built[k]], sorted[built[k] + 1])] \in Seq(Plain)
  BY <1>5, <1>6
<1>8. bridges \in Seq(Plain)
  BY <1>5, <1>7
<1> HIDE DEF bridges
<1> QED BY <1>1, <1>3, <1>8

LEMMA CollapseFold ==
  ASSUME NEW T, NEW s, ByLow(s) \in Seq(T)
  PROVE  LET t == ByLow(s)
         IN  \E f : /\ IsFold(<<"collapse">>, << >>, t, Len(t), f)
                    /\ CollapseAdjacent(s) = f[1 .. Len(t)]
<1> DEFINE t == ByLow(s)
           n == Len(t)
           kind == <<"collapse">>
           step(acc, x) ==
             IF \/ acc = << >> \/ Last(acc).style # x.style \/ x.low - Last(acc).high >= MinGap
             THEN Append(acc, x)
             ELSE IF Last(acc).touches - x.touches >= TouchMargin THEN acc
             ELSE Append(Front(acc), x)
           Is(f) == f = [D \in SUBSET (1 .. n) |->
                           IF D = {} THEN << >> ELSE step(f[D \ {Max(D)}], t[Max(D)])]
           it == CHOOSE f : Is(f)
<1>1. n \in Nat /\ DOMAIN t = 1 .. n
  OBVIOUS
<1>2. CollapseAdjacent(s) = it[1 .. n]
  BY <1>1 DEF CollapseAdjacent, FoldLeft, MapThenFoldSet, Max, Last, Front
<1> HIDE DEF t
<1>3. \A f : IsFold(kind, << >>, t, n, f) <=> Is(f)
  BY DEF IsFold, Step
<1> HIDE DEF Is, kind
<1>4. \E f : Is(f)
  BY <1>1, <1>3, FoldExists
<1>5. IsFold(kind, << >>, t, n, it)
  BY <1>3, <1>4
<1> HIDE DEF it
<1> QED BY <1>2, <1>5 DEF kind, t

LEMMA CollapseTyped ==
  ASSUME NEW T, NEW s \in Seq(T)
  PROVE  CollapseAdjacent(s) \in Seq(T)
<1> DEFINE t == ByLow(s)
           kind == <<"collapse">>
           S == Seq(T)
<1>1. t \in Seq(T) /\ Len(t) \in Nat /\ Len(t) <= Len(t) /\ \A k \in 1 .. Len(t) : t[k] \in T
  <2>1. t \in Seq(T)
    BY ByLowTyped
  <2> HIDE DEF t
  <2> QED BY <2>1
<1>2. PICK f : IsFold(kind, << >>, t, Len(t), f) /\ CollapseAdjacent(s) = f[1 .. Len(t)]
  BY <1>1, CollapseFold
<1> HIDE DEF t
<1>3. ASSUME NEW acc \in S, NEW k \in 1 .. Len(t) PROVE Step(kind, acc, t[k]) \in S
  <2> DEFINE x == t[k]
  <2>1. x \in T
    BY <1>1
  <2> HIDE DEF x
  <2>2. \/ Step(kind, acc, x) \in {acc, Append(acc, x)}
        \/ acc # << >> /\ Step(kind, acc, x) = Append(Front(acc), x)
    BY DEF Step
  <2>3. acc # << >> => Front(acc) \in Seq(T)
    BY LastOne
  <2>4. Append(acc, x) \in S /\ (Front(acc) \in Seq(T) => Append(Front(acc), x) \in S)
    BY <2>1
  <2> HIDE DEF kind, S
  <2>5. Step(kind, acc, x) \in S
    BY <2>2, <2>3, <2>4
  <2> QED BY <2>5 DEF x
<1>4. << >> \in S
  OBVIOUS
<1> HIDE DEF S, kind
<1>5. f[1 .. Len(t)] \in S
  BY <1>1, <1>2, <1>3, <1>4, FoldInvariant
<1> QED BY <1>2, <1>5 DEF S

LEMMA SuppressTyped ==
  ASSUME NEW s \in Seq(Plain)
  PROVE  Suppress(s) \in Seq(Plain)
<1> DEFINE a == CollapseAdjacent(s)
           R == {p \in ToSet(a) \X ToSet(a) : Outranks(p[1], p[2])}
           b == Sorted(a, R)
           kept == KeepClear(b, LAMBDA x, y : Mid2(x) - Mid2(y) \in (1 - 2 * Spacing) .. (2 * Spacing - 1))
<1>1. Suppress(s) = kept
  BY DEF Suppress, SortBy
<1>2. a \in Seq(Plain)
  BY CollapseTyped
<1> HIDE DEF a
<1>3. b \in Seq(Plain) /\ Len(b) \in Nat
  <2> HIDE DEF R
  <2>1. b \in Seq(Plain)
    BY <1>2, SortedKeeps
  <2> HIDE DEF b
  <2> QED BY <2>1
<1> HIDE DEF b
<1>4. PICK f : IsFold(<<"clear", "close">>, << >>, b, Len(b), f) /\ kept = f[1 .. Len(b)]
  BY <1>3, KeepFoldClose
<1> HIDE DEF kept
<1>5. Len(b) <= Len(b)
  BY <1>3
<1>6. Cleared(b, Len(b), "close", kept)
  BY <1>3, <1>4, <1>5, Clearing
<1>7. kept \in Seq(Upto(b, Len(b))) /\ Upto(b, Len(b)) \subseteq Plain
  BY <1>3, <1>6 DEF Cleared, Upto
<1> QED BY <1>1, <1>7

LEMMA BuildTyped ==
  ASSUME NEW s \in Seq(Candidates), NEW minTouches
  PROVE  BuildSupportZones(s, minTouches) \in Seq(Plain)
BY ZonesOfClustersTyped, MergeTyped, BridgeGapsTyped, SuppressTyped DEF BuildSupportZones

(***************************************************************************)
(* Candidates of the structure.                                            *)
(***************************************************************************)
LEMMA PivotFields ==
  ASSUME NEW p \in Pivots
  PROVE  /\ p.index \in Nat /\ p.wick \in Int /\ p.body \in Int /\ p.top \in Int /\ p.reclaim \in Nat
         /\ p.wick \in Nat
BY DEF Pivots

LEMMA FloorOfTyped ==
  ASSUME NEW raw \in Seq(Pivots), NEW low \in Pivots
  PROVE  FloorOf(raw, low) \in Seq(Candidates)
<1> DEFINE back == Returns(raw, low)
           first == Candidate(low, low.wick, "structure_swing_low_wick", "support_floor")
           made(k) == Candidate(back[k], back[k].body, "structure_swing_low_body_floor",
                                "support_floor")
           others == [k \in DOMAIN back |-> made(k)]
<1>1. FloorOf(raw, low) = <<first>> \o others
  BY DEF FloorOf
<1>2. back \in Seq(Pivots)
  BY PickTyped DEF Returns
<1>3. /\ "structure_swing_low_wick" \in CandidateOrigins /\ "support_floor" \in Styles
      /\ "structure_swing_low_body_floor" \in CandidateOrigins
  BY DEF CandidateOrigins, Styles
<1>4. first \in Candidates
  BY <1>3, PivotFields, CandidateMade
<1> HIDE DEF first, back
<1>5. ASSUME NEW k \in DOMAIN back PROVE made(k) \in Candidates
  <2>1. back[k] \in Pivots
    BY <1>2
  <2> DEFINE p == back[k]
  <2>2. p.body \in Int
    BY <2>1, PivotFields
  <2> HIDE DEF p
  <2>3. Candidate(p, p.body, "structure_swing_low_body_floor", "support_floor") \in Candidates
    BY <1>3, <2>1, <2>2, CandidateMade DEF p
  <2> QED BY <2>3 DEF p
<1> HIDE DEF made
<1>6. DOMAIN back = 1 .. Len(back) /\ Len(back) \in Nat
  BY <1>2
<1>7. [k \in 1 .. Len(back) |-> made(k)] \in Seq(Candidates)
  BY <1>5, <1>6
<1>8. others \in Seq(Candidates)
  BY <1>6, <1>7
<1> HIDE DEF others
<1>9. <<first>> \in Seq(Candidates)
  BY <1>4
<1> QED BY <1>1, <1>8, <1>9

Long(prominent) ==
  Pick(prominent, {k \in DOMAIN prominent : /\ prominent[k].kind = "low"
                                            /\ prominent[k].body - prominent[k].wick >= ZoneWidth})

LEMMA FloorFold ==
  ASSUME NEW raw, NEW prominent, NEW T, Long(prominent) \in Seq(T)
  PROVE  LET s == Long(prominent)
         IN  \E f : /\ IsFold(<<"floor", raw>>, << >>, s, Len(s), f)
                    /\ FloorCandidates(raw, prominent) = f[1 .. Len(s)]
<1> DEFINE s == Long(prominent)
           n == Len(s)
           kind == <<"floor", raw>>
           Is(f) == f = [D \in SUBSET (1 .. n) |->
                           IF D = {} THEN << >> ELSE f[D \ {Max(D)}] \o FloorOf(raw, s[Max(D)])]
           it == CHOOSE f : Is(f)
<1>1. n \in Nat /\ DOMAIN s = 1 .. n
  OBVIOUS
<1>2. FloorCandidates(raw, prominent) = it[1 .. n]
  BY <1>1 DEF FloorCandidates, FoldLeft, MapThenFoldSet, Max, Selection, Long, FloorOf, Returns
<1> HIDE DEF s
<1>3. \A f : IsFold(kind, << >>, s, n, f) <=> Is(f)
  BY DEF IsFold, Step
<1> HIDE DEF Is, kind
<1>4. \E f : Is(f)
  BY <1>1, <1>3, FoldExists
<1>5. IsFold(kind, << >>, s, n, it)
  BY <1>3, <1>4
<1> HIDE DEF it
<1> QED BY <1>2, <1>5 DEF kind, s

LEMMA FloorCandidatesTyped ==
  ASSUME NEW raw \in Seq(Pivots), NEW prominent \in Seq(Pivots)
  PROVE  FloorCandidates(raw, prominent) \in Seq(Candidates)
<1> DEFINE t == Long(prominent)
           kind == <<"floor", raw>>
           S == Seq(Candidates)
<1>1. t \in Seq(Pivots) /\ Len(t) \in Nat /\ Len(t) <= Len(t) /\ \A k \in 1 .. Len(t) : t[k] \in Pivots
  <2>1. t \in Seq(Pivots)
    BY PickTyped DEF Long
  <2> HIDE DEF t
  <2> QED BY <2>1
<1>2. PICK f : IsFold(kind, << >>, t, Len(t), f) /\ FloorCandidates(raw, prominent) = f[1 .. Len(t)]
  BY <1>1, FloorFold
<1> HIDE DEF t
<1>3. ASSUME NEW acc \in S, NEW k \in 1 .. Len(t) PROVE Step(kind, acc, t[k]) \in S
  <2> DEFINE x == t[k]
             more == FloorOf(raw, x)
  <2>1. x \in Pivots
    BY <1>1
  <2> HIDE DEF x
  <2>2. Step(kind, acc, x) = acc \o more
    BY DEF Step
  <2>3. more \in Seq(Candidates)
    BY <2>1, FloorOfTyped
  <2> HIDE DEF kind, more
  <2>4. Step(kind, acc, x) \in S
    BY <2>2, <2>3
  <2> QED BY <2>4 DEF x
<1>4. << >> \in S
  OBVIOUS
<1> HIDE DEF S, kind
<1>5. f[1 .. Len(t)] \in S
  BY <1>1, <1>2, <1>3, <1>4, FoldInvariant
<1> QED BY <1>2, <1>5 DEF S

LEMMA SupportCandidatesTyped ==
  ASSUME NEW raw \in Seq(Pivots), NEW prominent \in Seq(Pivots)
  PROVE  SupportCandidates(raw, prominent) \in Seq(Candidates)
<1> DEFINE places == {k \in DOMAIN prominent :
                        prominent[k].kind = "low" \/ prominent[k].reclaim # 0}
           usable == Pick(prominent, places)
           origin(k) == IF usable[k].kind = "low" THEN "structure_swing_low" ELSE "flipped_resistance"
           made(k) == Candidate(usable[k], usable[k].body, origin(k), "body")
           body == [k \in DOMAIN usable |-> made(k)]
           floors == FloorCandidates(raw, prominent)
<1>1. SupportCandidates(raw, prominent) = body \o floors
  BY DEF SupportCandidates, Selection
<1>2. usable \in Seq(Pivots)
  BY PickTyped
<1> HIDE DEF usable
<1>3. ASSUME NEW k \in DOMAIN usable PROVE made(k) \in Candidates
  <2>0. usable[k] \in Pivots
    BY <1>2
  <2>1. usable[k] \in Pivots /\ usable[k].body \in Int
    BY <2>0, PivotFields
  <2>2. origin(k) \in CandidateOrigins /\ "body" \in Styles
    BY DEF CandidateOrigins, Styles
  <2> HIDE DEF origin
  <2> QED BY <2>1, <2>2, CandidateMade
<1> HIDE DEF made
<1>4. DOMAIN usable = 1 .. Len(usable) /\ Len(usable) \in Nat
  BY <1>2
<1>5. body \in Seq(Candidates)
  BY <1>3, <1>4
<1>6. floors \in Seq(Candidates)
  BY FloorCandidatesTyped
<1> HIDE DEF body, floors
<1> QED BY <1>1, <1>5, <1>6

LEMMA ReclaimedHighsTyped ==
  ASSUME NEW s \in Seq(Pivots)
  PROVE  ReclaimedHighs(s) \in Seq(Candidates)
<1> DEFINE places == {k \in DOMAIN s : s[k].kind = "high" /\ s[k].reclaim # 0}
           highs == Pick(s, places)
           made(k) == Candidate(highs[k], highs[k].body, "stair_step_flipped_resistance", "body")
<1>1. ReclaimedHighs(s) = [k \in DOMAIN highs |-> made(k)]
  BY DEF ReclaimedHighs, Selection
<1>2. highs \in Seq(Pivots)
  BY PickTyped
<1> HIDE DEF highs
<1>3. ASSUME NEW k \in DOMAIN highs PROVE made(k) \in Candidates
  <2>0. highs[k] \in Pivots
    BY <1>2
  <2>1. highs[k] \in Pivots /\ highs[k].body \in Int
    BY <2>0, PivotFields
  <2>2. "stair_step_flipped_resistance" \in CandidateOrigins /\ "body" \in Styles
    BY DEF CandidateOrigins, Styles
  <2> QED BY <2>1, <2>2, CandidateMade
<1> HIDE DEF made
<1>4. DOMAIN highs = 1 .. Len(highs) /\ Len(highs) \in Nat
  BY <1>2
<1>5. [k \in DOMAIN highs |-> made(k)] \in Seq(Candidates)
  BY <1>3, <1>4
<1> QED BY <1>1, <1>5

LEMMA InGapTyped ==
  ASSUME NEW highs \in Seq(Candidates), NEW lower, NEW upper, NEW under, NEW p
  PROVE  InGap(highs, lower, upper, under, p) \in Seq(Candidates)
BY PickTyped DEF InGap, Selection

LEMMA InsideTyped ==
  ASSUME NEW T, NEW s \in Seq(T), NEW lower, NEW upper
  PROVE  /\ Inside(s, lower, upper) \in Seq(T)
         /\ \A i \in DOMAIN Inside(s, lower, upper) :
              /\ Inside(s, lower, upper)[i].low > lower.high
              /\ Inside(s, lower, upper)[i].high < upper.low
<1> DEFINE places == {k \in DOMAIN s : s[k].low > lower.high /\ s[k].high < upper.low}
           t == Pick(s, places)
<1>1. Inside(s, lower, upper) = t
  BY DEF Inside, Selection
<1>2. t \in Seq(T) /\ \A i \in DOMAIN t : \E k \in DOMAIN s : k \in places /\ t[i] = s[k]
  <2> HIDE DEF places
  <2> QED BY PickTyped
<1> HIDE DEF t
<1>3. \A i \in DOMAIN t : t[i].low > lower.high /\ t[i].high < upper.low
  BY <1>2
<1> QED BY <1>1, <1>2, <1>3

(***************************************************************************)
(* The local reactions.                                                    *)
(***************************************************************************)
LEMMA SelectTyped ==
  ASSUME NEW T, NEW s \in Seq(T)
  PROVE  SelectSteps(s) \in Seq(T)
<1> DEFINE kind == <<"select", OrdinarySteps(s)>>
           n == Len(s)
           S == Seq(T)
<1>1. n \in Nat /\ n <= n /\ \A k \in 1 .. n : s[k] \in T
  OBVIOUS
<1>2. PICK f : IsFold(kind, << >>, s, n, f) /\ SelectSteps(s) = f[1 .. n]
  <2>1. SelectSteps(s) = Fold(kind, << >>, s)
    BY SelectFold
  <2> HIDE DEF kind
  <2> QED BY <1>1, <2>1, FoldChosen
<1> HIDE DEF n
<1>3. ASSUME NEW acc \in S, NEW k \in 1 .. n PROVE Step(kind, acc, s[k]) \in S
  <2> DEFINE x == s[k]
  <2>1. x \in T
    BY <1>1
  <2> HIDE DEF x
  <2>2. \/ Step(kind, acc, x) \in {acc, Append(acc, x)}
        \/ acc # << >> /\ Step(kind, acc, x) = Append(Front(acc), x)
    BY DEF Step
  <2>3. acc # << >> => Front(acc) \in Seq(T)
    BY LastOne
  <2>4. Append(acc, x) \in S /\ (Front(acc) \in Seq(T) => Append(Front(acc), x) \in S)
    BY <2>1
  <2> HIDE DEF kind, S
  <2>5. Step(kind, acc, x) \in S
    BY <2>2, <2>3, <2>4
  <2> QED BY <2>5 DEF x
<1>4. << >> \in S
  OBVIOUS
<1> HIDE DEF S, kind
<1>5. f[1 .. n] \in S
  BY <1>1, <1>2, <1>3, <1>4, FoldInvariant
<1> QED BY <1>2, <1>5 DEF S

LEMMA ReactionsTyped ==
  ASSUME NEW internal \in Seq(Pivots), NEW since, NEW minTouches
  PROVE  BuildLocalReactions(internal, since, minTouches) \in Seq(Plain)
BY LocalZonesTyped, EligibleTyped, SelectTyped DEF BuildLocalReactions

(***************************************************************************)
(* Distinct zones and the best of them.                                    *)
(***************************************************************************)
LEMMA DistinctTyped ==
  ASSUME NEW T, NEW s \in Seq(T)
  PROVE  Distinct(s) \in Seq(T)
<1> DEFINE t == ByLow(s)
           kind == <<"distinct">>
           S == Seq(T)
<1>1. t \in Seq(T) /\ Len(t) \in Nat /\ Len(t) <= Len(t) /\ \A k \in 1 .. Len(t) : t[k] \in T
  <2>1. t \in Seq(T)
    BY ByLowTyped
  <2> HIDE DEF t
  <2> QED BY <2>1
<1>2. PICK f : IsFold(kind, << >>, t, Len(t), f) /\ Distinct(s) = f[1 .. Len(t)]
  BY <1>1, DistinctFold
<1> HIDE DEF t
<1>3. ASSUME NEW acc \in S, NEW k \in 1 .. Len(t) PROVE Step(kind, acc, t[k]) \in S
  <2> DEFINE x == t[k]
  <2>1. x \in T
    BY <1>1
  <2> HIDE DEF x
  <2>2. \/ Step(kind, acc, x) \in {acc, Append(acc, x)}
        \/ acc # << >> /\ Step(kind, acc, x) = Append(Front(acc), x)
    BY DEF Step
  <2>3. acc # << >> => Front(acc) \in Seq(T)
    BY LastOne
  <2>4. Append(acc, x) \in S /\ (Front(acc) \in Seq(T) => Append(Front(acc), x) \in S)
    BY <2>1
  <2> HIDE DEF kind, S
  <2>5. Step(kind, acc, x) \in S
    BY <2>2, <2>3, <2>4
  <2> QED BY <2>5 DEF x
<1>4. << >> \in S
  OBVIOUS
<1> HIDE DEF S, kind
<1>5. f[1 .. Len(t)] \in S
  BY <1>1, <1>2, <1>3, <1>4, FoldInvariant
<1> QED BY <1>2, <1>5 DEF S

LEMMA BestInTyped ==
  ASSUME NEW T, NEW s \in Seq(T), s # << >>, NEW lower, NEW upper
  PROVE  BestIn(s, lower, upper) \in Elems(s) /\ BestIn(s, lower, upper) \in T
<1> DEFINE R == {p \in ToSet(s) \X ToSet(s) :
                   Precedes(GapRank(p[1], lower, upper), GapRank(p[2], lower, upper))}
           t == Sorted(s, R)
<1>1. BestIn(s, lower, upper) = Head(t)
  BY DEF BestIn, SortBy
<1> HIDE DEF R
<1>2. t \in Seq(T) /\ Len(t) = Len(s) /\ Elems(t) = Elems(s)
  BY SortedKeeps
<1> HIDE DEF t
<1>3. t # << >>
  BY <1>2
<1>4. Head(t) \in Elems(t) /\ Head(t) \in T
  BY <1>2, <1>3, HeadTyped
<1> QED BY <1>1, <1>2, <1>4

(***************************************************************************)
(* Offers in order.                                                        *)
(***************************************************************************)
Ranks == [1 .. 5 -> Int]

LEMMA PrecedesOrders ==
  /\ \A r \in Ranks : ~Precedes(r, r)
  /\ \A r, s, t \in Ranks : Precedes(r, s) /\ Precedes(s, t) => Precedes(r, t)
<1>1. ASSUME NEW r \in Ranks PROVE ~Precedes(r, r)
  <2>1. \A k \in 1 .. 5 : r[k] \in Int /\ ~(r[k] < r[k])
    BY DEF Ranks
  <2>2. DOMAIN r = 1 .. 5
    BY DEF Ranks
  <2> QED BY <2>1, <2>2 DEF Precedes
<1>2. ASSUME NEW r \in Ranks, NEW s \in Ranks, NEW t \in Ranks,
             Precedes(r, s), Precedes(s, t)
      PROVE  Precedes(r, t)
  <2>1. /\ DOMAIN r = 1 .. 5 /\ DOMAIN s = 1 .. 5
        /\ \A k \in 1 .. 5 : r[k] \in Int /\ s[k] \in Int /\ t[k] \in Int
    BY DEF Ranks
  <2>2. PICK i \in 1 .. 5 : r[i] < s[i] /\ \A j \in 1 .. i - 1 : r[j] = s[j]
    BY <1>2, <2>1 DEF Precedes
  <2>3. PICK k \in 1 .. 5 : s[k] < t[k] /\ \A j \in 1 .. k - 1 : s[j] = t[j]
    BY <1>2, <2>1 DEF Precedes
  <2>4. CASE i <= k
    <3>1. r[i] < t[i]
      <4>1. CASE i = k
        BY <2>1, <2>2, <2>3, <4>1
      <4>2. CASE i < k
        <5>1. i \in 1 .. k - 1
          BY <4>2
        <5>2. s[i] = t[i]
          BY <2>3, <5>1
        <5> QED BY <2>2, <5>2
      <4> QED BY <2>4, <4>1, <4>2
    <3>2. \A j \in 1 .. i - 1 : j \in 1 .. k - 1
      BY <2>4
    <3>3. \A j \in 1 .. i - 1 : r[j] = t[j]
      BY <2>2, <2>3, <3>2
    <3> QED BY <2>1, <3>1, <3>3 DEF Precedes
  <2>5. CASE k < i
    <3>1. k \in 1 .. i - 1 /\ \A j \in 1 .. k - 1 : j \in 1 .. i - 1
      BY <2>5
    <3>2. r[k] < t[k] /\ \A j \in 1 .. k - 1 : r[j] = t[j]
      BY <2>2, <2>3, <3>1
    <3> QED BY <2>1, <3>2 DEF Precedes
  <2> QED BY <2>4, <2>5
<1> QED BY <1>1, <1>2

OfferRank(o) == Append(GapRank(o.stair, o.lower, o.upper), o.gap)

Offers == [gap : Int, lower : Plain, upper : Plain, stair : Plain]

LEMMA FiveListed ==
  ASSUME NEW T, NEW a \in T, NEW b \in T, NEW c \in T, NEW d \in T, NEW e \in T
  PROVE  Append(<<a, b, c, d>>, e) \in [1 .. 5 -> T]
<1> DEFINE four == <<a, b, c, d>>
<1>1. four \in Seq(T) /\ Len(four) = 4
  OBVIOUS
<1> HIDE DEF four
<1>2. Append(four, e) \in Seq(T) /\ Len(Append(four, e)) = 5
  <2>1. \A s \in Seq(T) : Append(s, e) \in Seq(T) /\ Len(Append(s, e)) = Len(s) + 1
    OBVIOUS
  <2>2. Append(four, e) \in Seq(T) /\ Len(Append(four, e)) = Len(four) + 1
    BY <1>1, <2>1
  <2> HIDE DEF four
  <2> QED BY <1>1, <2>2
<1>3. \A q \in Seq(T) : q \in [1 .. Len(q) -> T]
  OBVIOUS
<1>4. Append(four, e) \in [1 .. 5 -> T]
  BY <1>2, <1>3
<1> QED BY <1>4 DEF four

LEMMA OfferRankTyped ==
  ASSUME NEW o \in Offers
  PROVE  OfferRank(o) \in Ranks
<1> DEFINE z == o.stair
           a == o.lower
           b == o.upper
           offset == (z.low - a.high) - (b.low - z.high)
           centre == (z.low + z.high) - (a.high + b.low)
           Size(n) == IF n < 0 THEN -n ELSE n
           r1 == Size(offset)
           r2 == -z.score
           r3 == -z.touches
           r4 == Size(centre)
           g == o.gap
<1>1. GapRank(z, a, b) = <<r1, r2, r3, r4>>
  BY DEF GapRank, Mid2
<1>2. o.stair \in Plain /\ o.lower \in Plain /\ o.upper \in Plain /\ o.gap \in Int
  BY DEF Offers
<1>3. /\ z.low \in Int /\ z.high \in Int /\ z.score \in Int /\ z.touches \in Int
      /\ a.high \in Int /\ b.low \in Int
  BY <1>2, PlainFields
<1>4. offset \in Int /\ centre \in Int
  BY <1>3
<1>5. \A n \in Int : Size(n) \in Int
  OBVIOUS
<1>6. r1 \in Int /\ r2 \in Int /\ r3 \in Int /\ r4 \in Int /\ g \in Int
  <2> HIDE DEF Size, offset, centre
  <2> QED BY <1>2, <1>3, <1>4, <1>5
<1> HIDE DEF r1, r2, r3, r4
<1>7. OfferRank(o) = Append(<<r1, r2, r3, r4>>, g)
  BY <1>1 DEF OfferRank
<1> HIDE DEF g
<1>8. Append(<<r1, r2, r3, r4>>, g) \in Ranks
  <2> DEFINE T == Int
  <2>1. r1 \in T /\ r2 \in T /\ r3 \in T /\ r4 \in T /\ g \in T
    BY <1>6
  <2> HIDE DEF T
  <2>2. Append(<<r1, r2, r3, r4>>, g) \in [1 .. 5 -> T]
    BY <2>1, FiveListed
  <2> QED BY <2>2 DEF Ranks, T
<1> QED BY <1>7, <1>8

LEMMA BestOfferTyped ==
  ASSUME NEW offers \in SUBSET Offers, IsFiniteSet(offers), offers # {}
  PROVE  BestOffer(offers) \in Plain
<1> DEFINE R == {p \in offers \X offers : Precedes(OfferRank(p[1]), OfferRank(p[2]))}
           Best(o) == \A other \in offers : ~Precedes(OfferRank(other), OfferRank(o))
           best == CHOOSE o \in offers : Best(o)
<1>1. \A a, b \in offers : <<a, b>> \in R <=> Precedes(OfferRank(a), OfferRank(b))
  OBVIOUS
<1> HIDE DEF R
<1>2. \A o \in offers : OfferRank(o) \in Ranks
  BY OfferRankTyped
<1>3. StrictOrder(offers, R)
  BY <1>1, <1>2, PrecedesOrders DEF StrictOrder
<1>4. \E o \in offers : \A other \in offers : <<other, o>> \notin R
  BY <1>3, FirstExists
<1>5. \E o \in offers : Best(o)
  BY <1>1, <1>4
<1>6. BestOffer(offers) = best.stair
  BY DEF BestOffer, OfferRank
<1> HIDE DEF Best
<1>7. best \in offers
  BY <1>5
<1> HIDE DEF best
<1>8. best \in Offers
  BY <1>7
<1>9. \A o \in Offers : o.stair \in Plain
  BY DEF Offers
<1> QED BY <1>6, <1>8, <1>9

(***************************************************************************)
(* The staircase.                                                          *)
(***************************************************************************)
LEMMA StairInTyped ==
  ASSUME NEW zones, NEW k, NEW highs \in Seq(Candidates), NEW p
  PROVE  StairIn(zones, k, highs, p) \in Seq(Plain)
<1> DEFINE a == zones[k]
           b == zones[k + 1]
           in == InGap(highs, a, b, TRUE, p)
           built == BuildSupportZones(in, MinTouches)
<1>1. StairIn(zones, k, highs, p) = Inside(built, a, b)
  BY DEF StairIn
<1>2. in \in Seq(Candidates)
  BY InGapTyped
<1> HIDE DEF in
<1>3. built \in Seq(Plain)
  BY <1>2, BuildTyped
<1> HIDE DEF built
<1> QED BY <1>1, <1>3, InsideTyped

LEMMA StairOffersTyped ==
  ASSUME NEW zones \in Seq(Plain), NEW highs \in Seq(Candidates), NEW p
  PROVE  /\ StairOffers(zones, highs, p) \in SUBSET Offers
         /\ IsFiniteSet(StairOffers(zones, highs, p))
<1> DEFINE wide == {k \in 1 .. Len(zones) - 1 :
                      /\ PriceState(zones[k], p) = "support"
                      /\ zones[k + 1].low - zones[k].high > StairGap}
           found == [k \in wide |-> StairIn(zones, k, highs, p)]
           some == {j \in wide : found[j] # << >>}
           offer(k) == [gap |-> k, lower |-> zones[k], upper |-> zones[k + 1],
                        stair |-> BestIn(found[k], zones[k], zones[k + 1])]
           offers == {offer(k) : k \in some}
<1>1. StairOffers(zones, highs, p) = offers
  BY DEF StairOffers
<1>2. \A k \in 1 .. Len(zones) - 1 : /\ k \in Int
                                     /\ zones[k] \in Plain /\ zones[k + 1] \in Plain
  OBVIOUS
<1>3. some \subseteq 1 .. Len(zones) - 1 /\ some \subseteq wide
  OBVIOUS
<1>4. ASSUME NEW k \in some PROVE offer(k) \in Offers
  <2>1. found[k] \in Seq(Plain) /\ found[k] # << >>
    <3>1. found[k] = StairIn(zones, k, highs, p)
      BY <1>3
    <3>2. found[k] # << >>
      OBVIOUS
    <3> HIDE DEF found
    <3> QED BY <3>1, <3>2, StairInTyped
  <2>2. zones[k] \in Plain /\ zones[k + 1] \in Plain /\ k \in Int
    BY <1>2, <1>3
  <2> DEFINE best == BestIn(found[k], zones[k], zones[k + 1])
  <2>3. best \in Plain
    <3> HIDE DEF found
    <3> QED BY <2>1, BestInTyped
  <2> HIDE DEF best, found, some
  <2>4. [gap |-> k, lower |-> zones[k], upper |-> zones[k + 1], stair |-> best] \in Offers
    BY <2>2, <2>3 DEF Offers
  <2> QED BY <2>4 DEF best
<1>5. IsFiniteSet(some)
  <2>1. Len(zones) \in Nat /\ IsFiniteSet(1 .. Len(zones) - 1)
    BY FS_Interval
  <2> HIDE DEF some
  <2> QED BY <1>3, <2>1, FS_Subset
<1> HIDE DEF some, offer
<1>6. IsFiniteSet(offers)
  <2> DEFINE g == [k \in some |-> offer(k)]
  <2>1. g \in Surjection(some, offers)
    BY DEF Surjection
  <2> HIDE DEF g, offers
  <2> QED BY <1>5, <2>1, FS_Surjection
<1>7. offers \in SUBSET Offers
  BY <1>4
<1> QED BY <1>1, <1>6, <1>7

Fills == [zones : Seq(Plain), internal : BOOLEAN, inserted : Int]

LEMMA StairTurnTyped ==
  ASSUME NEW fill \in Fills, NEW highs \in Seq(Candidates), NEW p
  PROVE  StairTurn(fill, StairOffers(fill.zones, highs, p)) \in Fills
<1> DEFINE offers == StairOffers(fill.zones, highs, p)
           more == Distinct(Append(fill.zones, BestOffer(offers)))
<1>1. fill.zones \in Seq(Plain) /\ fill.inserted \in Int
  BY DEF Fills
<1>2. offers \in SUBSET Offers /\ IsFiniteSet(offers)
  BY <1>1, StairOffersTyped
<1> HIDE DEF offers
<1>3. ASSUME offers # {} PROVE more \in Seq(Plain)
  <2>1. BestOffer(offers) \in Plain
    BY <1>2, <1>3, BestOfferTyped
  <2>2. Append(fill.zones, BestOffer(offers)) \in Seq(Plain)
    BY <1>1, <2>1
  <2> QED BY <2>2, DistinctTyped
<1>4. \/ StairTurn(fill, offers) = fill
      \/ StairTurn(fill, offers) = [fill EXCEPT !.internal = TRUE]
      \/ /\ offers # {}
         /\ StairTurn(fill, offers) = [fill EXCEPT !.zones = more, !.inserted = fill.inserted + 1]
  BY DEF StairTurn, Fills
<1> HIDE DEF more
<1>5. [fill EXCEPT !.internal = TRUE] \in Fills
  BY DEF Fills
<1>6. more \in Seq(Plain) => [fill EXCEPT !.zones = more, !.inserted = fill.inserted + 1] \in Fills
  <2> DEFINE m == fill.inserted + 1
  <2>1. m \in Int
    BY <1>1
  <2> HIDE DEF m
  <2>2. more \in Seq(Plain) => [fill EXCEPT !.zones = more, !.inserted = m] \in Fills
    BY <2>1 DEF Fills
  <2> QED BY <2>2 DEF m
<1>7. StairTurn(fill, offers) \in Fills
  BY <1>3, <1>4, <1>5, <1>6
<1> QED BY <1>7 DEF offers

LEMMA StairFold ==
  ASSUME NEW zones, NEW externals, NEW internals, NEW p
  PROVE  \E f : /\ IsFold(<<"stair", externals, internals, p>>,
                          [zones |-> ByLow(zones), internal |-> FALSE, inserted |-> 0],
                          [turn \in 1 .. 7 |-> turn], 7, f)
                /\ FillStaircase(zones, externals, internals, p) = f[1 .. 7].zones
<1> DEFINE n == 7
           s == [turn \in 1 .. 7 |-> turn]
           kind == <<"stair", externals, internals, p>>
           base == [zones |-> ByLow(zones), internal |-> FALSE, inserted |-> 0]
           step(acc) ==
             StairTurn(acc, StairOffers(acc.zones, IF acc.internal THEN internals ELSE externals, p))
           Is(f) == f = [D \in SUBSET (1 .. n) |-> IF D = {} THEN base ELSE step(f[D \ {Max(D)}])]
           it == CHOOSE f : Is(f)
<1>1. n \in Nat /\ DOMAIN s = 1 .. n /\ MaxInsertions + 1 = 7
  BY DEF MaxInsertions
<1>2. FillStaircase(zones, externals, internals, p) = it[1 .. n].zones
  BY <1>1 DEF FillStaircase, FoldLeft, MapThenFoldSet, Max
<1>3. \A f : IsFold(kind, base, s, n, f) <=> Is(f)
  <2>1. \A acc, x : Step(kind, acc, x) = step(acc)
    BY DEF Step
  <2> HIDE DEF kind, step, s, n, base
  <2> QED BY <2>1 DEF IsFold
<1> HIDE DEF Is, kind, base
<1>4. \E f : Is(f)
  BY <1>1, <1>3, FoldExists
<1>5. IsFold(kind, base, s, n, it)
  BY <1>3, <1>4
<1> HIDE DEF it
<1> QED BY <1>2, <1>5 DEF kind, base

LEMMA FillStaircaseTyped ==
  ASSUME NEW zones \in Seq(Plain), NEW externals \in Seq(Candidates),
         NEW internals \in Seq(Candidates), NEW p
  PROVE  FillStaircase(zones, externals, internals, p) \in Seq(Plain)
<1> DEFINE kind == <<"stair", externals, internals, p>>
           base == [zones |-> ByLow(zones), internal |-> FALSE, inserted |-> 0]
           s == [turn \in 1 .. 7 |-> turn]
<1>1. PICK f : /\ IsFold(kind, base, s, 7, f)
               /\ FillStaircase(zones, externals, internals, p) = f[1 .. 7].zones
  BY StairFold, ZenonT(30)
<1>2. base \in Fills
  <2>1. ByLow(zones) \in Seq(Plain)
    BY ByLowTyped
  <2> QED BY <2>1 DEF Fills
<1>3. ASSUME NEW acc \in Fills, NEW k \in 1 .. 7 PROVE Step(kind, acc, s[k]) \in Fills
  <2> DEFINE highs == IF acc.internal THEN internals ELSE externals
  <2>1. \A x : Step(kind, acc, x) = StairTurn(acc, StairOffers(acc.zones, highs, p))
    BY DEF Step
  <2>2. highs \in Seq(Candidates)
    OBVIOUS
  <2> HIDE DEF kind, highs
  <2> QED BY <2>1, <2>2, StairTurnTyped
<1> HIDE DEF kind, base, s
<1> DEFINE n == 7
<1>4. n \in Nat /\ n <= n /\ IsFold(kind, base, s, n, f)
  BY <1>1
<1>5. \A acc \in Fills : \A k \in 1 .. n : Step(kind, acc, s[k]) \in Fills
  BY <1>3
<1> HIDE DEF n
<1>6. f[1 .. n] \in Fills
  BY <1>2, <1>4, <1>5, FoldInvariant
<1>7. \A x \in Fills : x.zones \in Seq(Plain)
  BY DEF Fills
<1> QED BY <1>1, <1>6, <1>7 DEF n

LEMMA PivotSetsTyped ==
  ASSUME NEW ev \in Evidence
  PROVE  /\ PivotSets(ev) = <<ReclaimedHighs(ev.raw), ReclaimedHighs(ev.internal)>>
         /\ ReclaimedHighs(ev.raw) \in Seq(Candidates)
         /\ ReclaimedHighs(ev.internal) \in Seq(Candidates)
<1>1. ev.raw \in Seq(Pivots) /\ ev.internal \in Seq(Pivots)
  BY DEF Evidence
<1> QED BY <1>1, ReclaimedHighsTyped DEF PivotSets

LEMMA StaircaseTyped ==
  ASSUME NEW ev \in Evidence, NEW n, NEW p
  PROVE  Staircase(ev, n, p) \in Seq(Plain)
<1> DEFINE cands == SupportCandidates(ev.raw, ev.prominent)
           structure == BuildSupportZones(cands, MinTouches)
           reactions == BuildLocalReactions(ev.internal, n - Lookback + 1, MinTouches)
           all == Distinct(structure \o reactions)
           ext == ReclaimedHighs(ev.raw)
           int == ReclaimedHighs(ev.internal)
<1>1. ev.raw \in Seq(Pivots) /\ ev.prominent \in Seq(Pivots) /\ ev.internal \in Seq(Pivots)
  BY DEF Evidence
<1>2. Staircase(ev, n, p) = FillStaircase(all, ext, int, p)
  BY DEF Staircase, PivotSets
<1>3. cands \in Seq(Candidates)
  BY <1>1, SupportCandidatesTyped
<1> HIDE DEF cands
<1>4. structure \in Seq(Plain) /\ reactions \in Seq(Plain)
  BY <1>1, <1>3, BuildTyped, ReactionsTyped
<1> HIDE DEF structure, reactions
<1>5. structure \o reactions \in Seq(Plain)
  BY <1>4
<1>6. all \in Seq(Plain)
  BY <1>5, DistinctTyped
<1>7. ext \in Seq(Candidates) /\ int \in Seq(Candidates)
  BY PivotSetsTyped
<1> HIDE DEF all, ext, int
<1> QED BY <1>2, <1>6, <1>7, FillStaircaseTyped

(***************************************************************************)
(* Overlays.                                                               *)
(***************************************************************************)
LEMMA PairClosed ==
  ASSUME NEW a \in Int, NEW b \in Int
  PROVE  <<a, b>> \in Closes /\ <<a>> \in Closes
BY DEF Closes

LEMMA RejectionPairTyped ==
  ASSUME NEW low \in Pivots, NEW retest \in Pivots,
         retest.wick - low.wick \in RetestTolerance .. ZoneWidth
  PROVE  RejectionPair(low, retest) \in Seq(Plain)
<1> DEFINE sources == {low.index, retest.index}
           a == Zone("wick_retest_support", "local_reaction", low.wick, retest.wick,
                     <<low.wick, retest.wick>>, sources, 2, 4)
           high == low.top + ZoneWidth
           b == Zone("body_rejection_support", "support_floor", low.top, high,
                     <<low.top, retest.body>>, sources, 2, 4)
<1>1. RejectionPair(low, retest) = <<a, b>>
  BY DEF RejectionPair
<1>2. /\ low.wick \in Int /\ retest.wick \in Int /\ low.top \in Int /\ retest.body \in Int
      /\ sources \in SUBSET Nat
  BY PivotFields
<1>3. low.wick <= retest.wick
  BY <1>2 DEF RetestTolerance, ZoneWidth
<1>4. high \in Int /\ low.top <= high
  BY <1>2 DEF ZoneWidth
<1>5. /\ "wick_retest_support" \in PlainOrigins /\ "body_rejection_support" \in PlainOrigins
      /\ "local_reaction" \in Styles /\ "support_floor" \in Styles
  BY DEF PlainOrigins, Styles
<1>6. <<low.wick, retest.wick>> \in Closes /\ <<low.top, retest.body>> \in Closes
  BY <1>2, PairClosed
<1>7. 2 \in Int /\ 4 \in Int
  OBVIOUS
<1> HIDE DEF sources, high
<1>8. a \in Plain
  BY <1>2, <1>3, <1>5, <1>6, <1>7, ZoneMade
<1>9. b \in Plain
  BY <1>2, <1>4, <1>5, <1>6, <1>7, ZoneMade
<1> HIDE DEF a, b
<1>10. <<a, b>> \in Seq(Plain)
  BY <1>8, <1>9
<1> QED BY <1>1, <1>10

LEMMA RejectionRetestsAre ==
  ASSUME NEW p \in Pivots, NEW internal \in Seq(Pivots)
  PROVE  /\ RejectionRetests(p, internal) \in Seq(Pivots)
         /\ \A i \in DOMAIN RejectionRetests(p, internal) :
              RejectionRetests(p, internal)[i].wick - p.wick
                \in RetestTolerance .. ZoneWidth
<1> DEFINE places == {k \in DOMAIN internal :
                          /\ internal[k].kind = "low"
                          /\ internal[k].index - p.index \in 1 .. MaxRetestBars
                          /\ internal[k].wick - p.wick \in RetestTolerance .. ZoneWidth
                          /\ internal[k].body >= p.top}
           t == Pick(internal, places)
<1>1. RejectionRetests(p, internal) = t
  BY DEF RejectionRetests, Selection
<1>2. t \in Seq(Pivots) /\ \A i \in DOMAIN t : \E k \in DOMAIN internal : k \in places /\ t[i] = internal[k]
  <2> HIDE DEF places
  <2> QED BY PickTyped
<1> HIDE DEF t
<1>3. \A i \in DOMAIN t : t[i].wick - p.wick \in RetestTolerance .. ZoneWidth
  BY <1>2
<1> QED BY <1>1, <1>2, <1>3

LEMMA RejectionPairsTyped ==
  ASSUME NEW prominent \in Seq(Pivots), NEW internal \in Seq(Pivots)
  PROVE  RejectionPairs(prominent, internal) \in Seq(Seq(Plain))
<1> DEFINE places == {k \in DOMAIN prominent :
                        /\ prominent[k].kind = "low"
                        /\ prominent[k].top - prominent[k].wick >= MinRejectionWick
                        /\ RejectionRetests(prominent[k], internal) # << >>}
           deep == Pick(prominent, places)
           made(k) == RejectionPair(deep[k], Head(RejectionRetests(deep[k], internal)))
<1>1. RejectionPairs(prominent, internal) = [k \in DOMAIN deep |-> made(k)]
  BY DEF RejectionPairs, Selection
<1>2. /\ deep \in Seq(Pivots)
      /\ \A i \in DOMAIN deep : \E k \in DOMAIN prominent : k \in places /\ deep[i] = prominent[k]
  <2> HIDE DEF places
  <2> QED BY PickTyped
<1> HIDE DEF deep
<1>3. ASSUME NEW k \in DOMAIN deep PROVE made(k) \in Seq(Plain)
  <2> DEFINE back == RejectionRetests(deep[k], internal)
  <2>1. deep[k] \in Pivots /\ back # << >>
    BY <1>2
  <2>2. /\ back \in Seq(Pivots)
        /\ \A i \in DOMAIN back : back[i].wick - deep[k].wick \in RetestTolerance .. ZoneWidth
    BY <2>1, RejectionRetestsAre
  <2> HIDE DEF back
  <2>3. Head(back) \in Pivots /\ Head(back) = back[1] /\ 1 \in DOMAIN back
    BY <2>1, <2>2, HeadTyped
  <2>4. Head(back).wick - deep[k].wick \in RetestTolerance .. ZoneWidth
    BY <2>2, <2>3
  <2>5. RejectionPair(deep[k], Head(back)) \in Seq(Plain)
    BY <2>1, <2>3, <2>4, RejectionPairTyped
  <2> QED BY <2>5 DEF back
<1> HIDE DEF made
<1>4. DOMAIN deep = 1 .. Len(deep) /\ Len(deep) \in Nat
  BY <1>2
<1>5. [k \in DOMAIN deep |-> made(k)] \in Seq(Seq(Plain))
  BY <1>3, <1>4
<1> QED BY <1>1, <1>5

LEMMA RejectionFold ==
  ASSUME NEW T, NEW zones, NEW pairs \in Seq(T)
  PROVE  \E f : /\ IsFold(<<"rejection">>, zones, pairs, Len(pairs), f)
                /\ OverlayRejections(zones, pairs) = ByLow(f[1 .. Len(pairs)])
<1> DEFINE n == Len(pairs)
           kind == <<"rejection">>
           between(z, x) == /\ z.origin = "mixed_structure"
                            /\ z.low >= x[1].low /\ z.high <= x[2].high
           step(acc, x) ==
             IF \E k \in DOMAIN acc : between(acc[k], x)
             THEN Pick(acc, {k \in DOMAIN acc : ~between(acc[k], x)}) \o x
             ELSE acc
           Is(f) == f = [D \in SUBSET (1 .. n) |->
                           IF D = {} THEN zones ELSE step(f[D \ {Max(D)}], pairs[Max(D)])]
           it == CHOOSE f : Is(f)
<1>1. n \in Nat /\ DOMAIN pairs = 1 .. n
  OBVIOUS
<1>2. OverlayRejections(zones, pairs) = ByLow(it[1 .. n])
  BY <1>1 DEF OverlayRejections, FoldLeft, MapThenFoldSet, Max, AnyOf, Selection
<1>3. \A f : IsFold(kind, zones, pairs, n, f) <=> Is(f)
  <2>1. \A acc, x : Step(kind, acc, x) = step(acc, x)
    BY DEF Step, AnyOf, Selection
  <2> HIDE DEF kind, step, n
  <2> QED BY <2>1 DEF IsFold
<1> HIDE DEF Is, kind
<1>4. \E f : Is(f)
  BY <1>1, <1>3, FoldExists
<1>5. IsFold(kind, zones, pairs, n, it)
  BY <1>3, <1>4
<1> HIDE DEF it
<1> QED BY <1>2, <1>5 DEF kind

LEMMA OverlayRejectionsTyped ==
  ASSUME NEW zones \in Seq(Plain), NEW pairs \in Seq(Seq(Plain))
  PROVE  OverlayRejections(zones, pairs) \in Seq(Plain)
<1> DEFINE kind == <<"rejection">>
           n == Len(pairs)
           S == Seq(Plain)
<1>1. n \in Nat /\ n <= n /\ \A k \in 1 .. n : pairs[k] \in Seq(Plain)
  OBVIOUS
<1>2. PICK f : /\ IsFold(kind, zones, pairs, n, f)
               /\ OverlayRejections(zones, pairs) = ByLow(f[1 .. n])
  BY RejectionFold
<1> HIDE DEF n
<1>3. ASSUME NEW acc \in S, NEW k \in 1 .. n PROVE Step(kind, acc, pairs[k]) \in S
  <2> DEFINE x == pairs[k]
             places == {j \in DOMAIN acc : ~(/\ acc[j].origin = "mixed_structure"
                                             /\ acc[j].low >= x[1].low /\ acc[j].high <= x[2].high)}
             rest == Pick(acc, places)
  <2>1. x \in Seq(Plain)
    BY <1>1
  <2> HIDE DEF x
  <2>2. Step(kind, acc, x) \in {acc, rest \o x}
    BY DEF Step, Selection
  <2>3. rest \in Seq(Plain)
    BY PickTyped
  <2> HIDE DEF rest, kind
  <2>4. rest \o x \in Seq(Plain)
    BY <2>1, <2>3
  <2>5. Step(kind, acc, x) \in S
    BY <2>2, <2>4
  <2> QED BY <2>5 DEF x
<1>4. zones \in S
  OBVIOUS
<1> HIDE DEF S, kind
<1>5. f[1 .. n] \in S
  BY <1>1, <1>2, <1>3, <1>4, FoldInvariant
<1>6. f[1 .. n] \in Seq(Plain)
  BY <1>5 DEF S
<1> QED BY <1>2, <1>6, ByLowTyped

LEMMA DailyZonesTyped ==
  ASSUME NEW daily \in Seq(Pivots)
  PROVE  DailyZones(daily) \in Seq(Plain)
<1> DEFINE places == {k \in DOMAIN daily : daily[k].kind = "low"}
           lows == Pick(daily, places)
           made(k) == Zone("daily_body_support", "body", lows[k].body - ZoneWidth,
                           lows[k].body, <<lows[k].body>>, {lows[k].index}, 1, DailyScore)
<1>1. DailyZones(daily) = [k \in DOMAIN lows |-> made(k)]
  BY DEF DailyZones, Selection
<1>2. lows \in Seq(Pivots)
  BY PickTyped
<1> HIDE DEF lows
<1>3. ASSUME NEW k \in DOMAIN lows PROVE made(k) \in Plain
  <2> DEFINE p == lows[k]
             low == p.body - ZoneWidth
  <2>1. p \in Pivots
    BY <1>2
  <2> HIDE DEF p
  <2>2. p.body \in Int /\ {p.index} \in SUBSET Nat
    BY <2>1, PivotFields
  <2>3. low \in Int /\ low <= p.body
    BY <2>2 DEF ZoneWidth
  <2>4. <<p.body>> \in Closes /\ 1 \in Int /\ DailyScore \in Int
    <3>1. \A a \in Int : <<a>> \in Closes
      BY PairClosed
    <3>2. 1 \in Int /\ DailyScore \in Int
      BY DEF DailyScore
    <3> QED BY <2>2, <3>1, <3>2
  <2>5. "daily_body_support" \in PlainOrigins /\ "body" \in Styles
    BY DEF PlainOrigins, Styles
  <2> HIDE DEF low
  <2>6. Zone("daily_body_support", "body", low, p.body, <<p.body>>, {p.index}, 1,
             DailyScore) \in Plain
    BY <2>2, <2>3, <2>4, <2>5, ZoneMade
  <2> QED BY <2>6 DEF low, p
<1> HIDE DEF made
<1>4. DOMAIN lows = 1 .. Len(lows) /\ Len(lows) \in Nat
  BY <1>2
<1>5. [k \in DOMAIN lows |-> made(k)] \in Seq(Plain)
  BY <1>3, <1>4
<1> QED BY <1>1, <1>5

LEMMA NearestThere ==
  ASSUME NEW s \in Seq(Plain), NEW d, Crowding(s, d) # {}
  PROVE  NearestAbove(s, d) \in DOMAIN s
<1> DEFINE C == Crowding(s, d)
           R == {p \in C \X C : \/ s[p[1]].low < s[p[2]].low
                                \/ s[p[1]].low = s[p[2]].low /\ p[1] < p[2]}
           Near(k) == \A j \in C : s[k].low < s[j].low \/ (s[k].low = s[j].low /\ k <= j)
<1>1. C \subseteq DOMAIN s
  BY DEF Crowding
<1>2. IsFiniteSet(C) /\ C # {}
  <2>1. IsFiniteSet(1 .. Len(s)) /\ DOMAIN s = 1 .. Len(s)
    BY FS_Interval
  <2> HIDE DEF C
  <2> QED BY <1>1, <2>1, FS_Subset DEF C
<1>3. \A k \in C : k \in Int /\ s[k].low \in Int
  <2>1. \A k \in DOMAIN s : k \in Int /\ s[k] \in Plain
    OBVIOUS
  <2>2. \A z \in Plain : z.low \in Int
    BY PlainFields
  <2> HIDE DEF C
  <2> QED BY <1>1, <2>1, <2>2
<1> HIDE DEF C
<1>4. \A j, k \in C : <<j, k>> \in R <=> s[j].low < s[k].low \/ (s[j].low = s[k].low /\ j < k)
  OBVIOUS
<1> HIDE DEF R
<1>5. StrictOrder(C, R)
  BY <1>3, <1>4, SMTT(30) DEF StrictOrder
<1>6. PICK k \in C : \A j \in C : <<j, k>> \notin R
  BY <1>2, <1>5, FirstExists
<1>7. Near(k)
  <2> SUFFICES ASSUME NEW j \in C PROVE s[k].low < s[j].low \/ (s[k].low = s[j].low /\ k <= j)
    OBVIOUS
  <2>1. ~(s[j].low < s[k].low \/ (s[j].low = s[k].low /\ j < k))
    BY <1>4, <1>6
  <2> QED BY <1>3, <2>1
<1>8. NearestAbove(s, d) = CHOOSE i \in C : Near(i)
  BY DEF NearestAbove, C
<1> HIDE DEF Near
<1>9. NearestAbove(s, d) \in C
  BY <1>7, <1>8
<1> QED BY <1>1, <1>9

LEMMA RemovedTyped ==
  ASSUME NEW T, NEW s \in Seq(T), NEW i \in DOMAIN s
  PROVE  RemoveAt(s, i) \in Seq(T)
<1> DEFINE n == Len(s)
<1>1. n \in Nat /\ i \in 1 .. n /\ \A k \in 1 .. n : s[k] \in T
  OBVIOUS
<1>2. RemoveAt(s, i) = SubSeq(s, 1, i - 1) \o SubSeq(s, i + 1, n)
  BY DEF RemoveAt
<1> HIDE DEF n
<1>3. (\A k \in 1 .. i - 1 : s[k] \in T) /\ (\A k \in i + 1 .. n : s[k] \in T)
  BY <1>1
<1>4. 1 \in Int /\ i - 1 \in Int /\ i + 1 \in Int /\ n \in Int
  BY <1>1
<1>5. SubSeq(s, 1, i - 1) \in Seq(T)
  BY <1>3, <1>4, SubSeqProperties
<1>6. SubSeq(s, i + 1, n) \in Seq(T)
  BY <1>3, <1>4, SubSeqProperties
<1> QED BY <1>2, <1>5, <1>6

LEMMA DailyFold ==
  ASSUME NEW T, NEW zones, NEW dailyZones, dailyZones # << >>, ByLow(dailyZones) \in Seq(T)
  PROVE  LET t == ByLow(dailyZones)
         IN  \E f : /\ IsFold(<<"daily">>, zones, t, Len(t), f)
                    /\ OverlayDaily(zones, dailyZones) = ByLow(f[1 .. Len(t)])
<1> DEFINE t == ByLow(dailyZones)
           n == Len(t)
           kind == <<"daily">>
           step(acc, x) ==
             IF \E k \in DOMAIN acc : Overlap(acc[k], x) /\ ~DailyMayReplace(acc[k])
             THEN acc
             ELSE IF \E k \in DOMAIN acc : Overlap(acc[k], x)
             THEN Append(Pick(acc, {k \in DOMAIN acc : ~Overlap(acc[k], x)}), x)
             ELSE IF Crowding(acc, x) = {} THEN Append(acc, x)
             ELSE Append(RemoveAt(acc, NearestAbove(acc, x)), x)
           Is(f) == f = [D \in SUBSET (1 .. n) |->
                           IF D = {} THEN zones ELSE step(f[D \ {Max(D)}], t[Max(D)])]
           it == CHOOSE f : Is(f)
<1>1. n \in Nat /\ DOMAIN t = 1 .. n
  OBVIOUS
<1>2. OverlayDaily(zones, dailyZones) = ByLow(it[1 .. n])
  BY <1>1 DEF OverlayDaily, FoldLeft, MapThenFoldSet, Max, AnyOf, Selection
<1> HIDE DEF t
<1>3. \A f : IsFold(kind, zones, t, n, f) <=> Is(f)
  <2>1. \A acc, x : Step(kind, acc, x) = step(acc, x)
    BY DEF Step, AnyOf, Selection
  <2> HIDE DEF kind, step, n
  <2> QED BY <2>1 DEF IsFold
<1> HIDE DEF Is, kind
<1>4. \E f : Is(f)
  BY <1>1, <1>3, FoldExists
<1>5. IsFold(kind, zones, t, n, it)
  BY <1>3, <1>4
<1> HIDE DEF it
<1> QED BY <1>2, <1>5 DEF kind, t

LEMMA OverlayDailyTyped ==
  ASSUME NEW zones \in Seq(Plain), NEW dailyZones \in Seq(Plain)
  PROVE  OverlayDaily(zones, dailyZones) \in Seq(Plain)
<1>1. CASE dailyZones = << >>
  BY <1>1 DEF OverlayDaily
<1>2. CASE dailyZones # << >>
  <2> DEFINE kind == <<"daily">>
             t == ByLow(dailyZones)
             n == Len(t)
             S == Seq(Plain)
  <2>1. t \in Seq(Plain)
    BY ByLowTyped
  <2>2. PICK f : /\ IsFold(kind, zones, t, n, f)
                 /\ OverlayDaily(zones, dailyZones) = ByLow(f[1 .. n])
    BY <1>2, <2>1, DailyFold
  <2> HIDE DEF t
  <2>3. n \in Nat /\ n <= n /\ \A k \in 1 .. n : t[k] \in Plain
    BY <2>1
  <2> HIDE DEF n
  <2>4. ASSUME NEW acc \in S, NEW k \in 1 .. n PROVE Step(kind, acc, t[k]) \in S
    <3> DEFINE x == t[k]
               rest == Pick(acc, {j \in DOMAIN acc : ~Overlap(acc[j], x)})
               cut == RemoveAt(acc, NearestAbove(acc, x))
    <3>1. x \in Plain
      BY <2>3
    <3> HIDE DEF x
    <3>2. \/ Step(kind, acc, x) \in {acc, Append(rest, x), Append(acc, x)}
          \/ Crowding(acc, x) # {} /\ Step(kind, acc, x) = Append(cut, x)
      BY DEF Step, Selection
    <3>3. rest \in Seq(Plain)
      BY PickTyped
    <3>4. Crowding(acc, x) # {} => cut \in Seq(Plain)
      BY NearestThere, RemovedTyped
    <3> HIDE DEF rest, kind, cut
    <3>5. /\ Append(acc, x) \in S /\ Append(rest, x) \in S
          /\ Crowding(acc, x) # {} => Append(cut, x) \in S
      BY <3>1, <3>3, <3>4
    <3> HIDE DEF S
    <3>6. Step(kind, acc, x) \in S
      BY <3>2, <3>5
    <3> QED BY <3>6 DEF x
  <2>5. zones \in S
    OBVIOUS
  <2> HIDE DEF S, kind
  <2>6. f[1 .. n] \in S
    BY <2>2, <2>3, <2>4, <2>5, FoldInvariant
  <2>7. f[1 .. n] \in Seq(Plain)
    BY <2>6 DEF S
  <2> QED BY <2>2, <2>7, ByLowTyped
<1> QED BY <1>1, <1>2

(***************************************************************************)
(* Persistent floors.                                                      *)
(***************************************************************************)
\* All that is picked, and nothing else.
LEMMA PickElems ==
  ASSUME NEW T, NEW s \in Seq(T), NEW places
  PROVE  Elems(Pick(s, places)) = {s[k] : k \in places \intersect DOMAIN s}
<1> DEFINE n == Len(s)
           at == [k \in 1 .. n |-> k]
           kind == <<"pick", places, s>>
           Is(f) == f = [k \in 0 .. n |->
                           IF k = 0 THEN << >>
                           ELSE IF k \in places THEN Append(f[k - 1], s[k]) ELSE f[k - 1]]
           it == CHOOSE f : Is(f)
           Taken(k) == {s[j] : j \in places \intersect 1 .. k}
           Good(k) == it[k] \in Seq(T) /\ Elems(it[k]) = Taken(k)
           K == {k \in Nat : k <= n => Good(k)}
<1>1. n \in Nat /\ DOMAIN s = 1 .. n
  OBVIOUS
<1>2. Pick(s, places) = it[n]
  BY DEF Pick
<1>3. ASSUME NEW f PROVE IsRec(kind, << >>, at, n, f) <=> Is(f)
  <2>1. ASSUME NEW k \in 0 .. n, k # 0
        PROVE  Step(kind, f[k - 1], at[k]) = IF k \in places THEN Append(f[k - 1], s[k]) ELSE f[k - 1]
    <3>1. at[k] = k
      BY <1>1, <2>1
    <3>2. \A acc : Step(kind, acc, k) = IF k \in places THEN Append(acc, s[k]) ELSE acc
      BY DEF Step
    <3> HIDE DEF kind, at
    <3> QED BY <3>1, <3>2
  <2> HIDE DEF kind, at
  <2> QED BY <2>1 DEF IsRec
<1>4. \E f : Is(f)
  <2> HIDE DEF Is, kind, at
  <2> QED BY <1>1, <1>3, RecExists
<1>5. /\ it[0] = << >>
      /\ \A k \in 1 .. n : it[k] = IF k \in places THEN Append(it[k - 1], s[k]) ELSE it[k - 1]
  <2>1. Is(it)
    <3> HIDE DEF Is
    <3> QED BY <1>4
  <2> HIDE DEF it
  <2>2. 0 \in 0 .. n /\ \A k \in 1 .. n : k \in 0 .. n /\ k # 0
    BY <1>1
  <2> QED BY <2>1, <2>2
<1> HIDE DEF it
<1>6. 0 \in K
  <2>1. 1 .. 0 = {} /\ Elems(<< >>) = {} /\ << >> \in Seq(T)
    BY DEF Elems
  <2> QED BY <1>5, <2>1
<1>7. ASSUME NEW k \in Nat, k \in K PROVE k + 1 \in K
  <2> SUFFICES ASSUME k + 1 <= n PROVE Good(k + 1)
    OBVIOUS
  <2>1. Good(k) /\ k + 1 \in 1 .. n /\ (k + 1) - 1 = k
    BY <1>1, <1>7
  <2>2. it[k + 1] = IF k + 1 \in places THEN Append(it[k], s[k + 1]) ELSE it[k]
    BY <1>5, <2>1
  <2>3. 1 .. k + 1 = 1 .. k \union {k + 1}
    OBVIOUS
  <2>4. Taken(k + 1) = IF k + 1 \in places THEN Taken(k) \union {s[k + 1]} ELSE Taken(k)
    BY <2>3
  <2>5. it[k] \in Seq(T) /\ Elems(it[k]) = Taken(k) /\ s[k + 1] \in T
    BY <1>1, <2>1
  <2> HIDE DEF Taken
  <2>6. CASE k + 1 \in places
    <3>1. it[k + 1] = Append(it[k], s[k + 1])
      BY <2>2, <2>6
    <3>2. Elems(Append(it[k], s[k + 1])) = Elems(it[k]) \union {s[k + 1]}
      BY <2>5, ElemsAppended
    <3>3. Append(it[k], s[k + 1]) \in Seq(T)
      BY <2>5
    <3> QED BY <2>4, <2>5, <2>6, <3>1, <3>2, <3>3
  <2>7. CASE k + 1 \notin places
    BY <2>2, <2>4, <2>5, <2>7
  <2> QED BY <2>6, <2>7
<1> HIDE DEF K
<1>8. \A k \in Nat : k \in K
  BY <1>6, <1>7, Induction
<1>9. Good(n)
  <2>1. n \in K /\ n <= n
    BY <1>1, <1>8
  <2> HIDE DEF Good
  <2> QED BY <2>1 DEF K
<1> QED BY <1>1, <1>2, <1>9

FloorZone(p) ==
  Zone("persistent_wick_floor", "support_floor", p.wick, p.wick + ZoneWidth,
       <<p.wick>>, {p.index}, 1, 2)

LongWicks(raw) ==
  {k \in DOMAIN raw : /\ raw[k].kind = "low" /\ raw[k].wick > 0
                      /\ 100 * (raw[k].body - raw[k].wick) >= PersistentWickPct * raw[k].wick}

Far == {z \in Lawful : ~z.near}

\* Floors are as wide as a zone, and as old as their one candle.
Floors ==
  {z \in Far : /\ z.origin = "persistent_wick_floor" /\ z.high = z.low + ZoneWidth
               /\ z.style = "support_floor" /\ \E i \in Nat : z.sources = {i}}

LEMMA FloorZoneTyped ==
  ASSUME NEW p \in Pivots
  PROVE  FloorZone(p) \in Floors /\ FloorZone(p).sources = {p.index} /\ FloorZone(p).low = p.wick
<1> DEFINE high == p.wick + ZoneWidth
           z == [origin |-> "persistent_wick_floor", style |-> "support_floor", low |-> p.wick,
                 high |-> high, closes |-> <<p.wick>>, sources |-> {p.index},
                 touches |-> 1, score |-> 2, near |-> FALSE]
<1>1. FloorZone(p) = z
  BY DEF FloorZone, Zone
<1>2. p.wick \in Int /\ p.index \in Nat
  BY PivotFields
<1>3. high \in Int /\ p.wick <= high
  BY <1>2 DEF ZoneWidth
<1>4. \A a \in Int : <<a>> \in Closes
  BY PairClosed
<1>5. high = p.wick + ZoneWidth
  OBVIOUS
<1> HIDE DEF high
<1>6. z \in Lawful
  <2>1. <<p.wick>> \in Closes /\ {p.index} \in SUBSET Nat /\ "support_floor" \in Styles
    BY <1>2, <1>4 DEF Styles
  <2> QED BY <1>2, <1>3, <2>1 DEF Lawful
<1>7. z \in Floors
  BY <1>2, <1>5, <1>6 DEF Floors, Far
<1> QED BY <1>1, <1>7

LEMMA PersistentFloorsAre ==
  ASSUME NEW raw \in Seq(Pivots)
  PROVE  /\ PersistentFloors(raw) \in Seq(Floors)
         /\ Elems(PersistentFloors(raw)) = {FloorZone(raw[k]) : k \in LongWicks(raw)}
<1> DEFINE long == Pick(raw, LongWicks(raw))
           made == [k \in DOMAIN long |-> FloorZone(long[k])]
<1>1. PersistentFloors(raw) = made
  BY DEF PersistentFloors, Selection, LongWicks, FloorZone
<1>2. long \in Seq(Pivots) /\ Elems(long) = {raw[k] : k \in LongWicks(raw) \intersect DOMAIN raw}
  BY PickTyped, PickElems
<1> HIDE DEF long
<1>3. DOMAIN long = 1 .. Len(long) /\ Len(long) \in Nat /\ \A k \in 1 .. Len(long) : long[k] \in Pivots
  BY <1>2
<1>4. \A k \in 1 .. Len(long) : FloorZone(long[k]) \in Floors
  BY <1>3, FloorZoneTyped
<1>5. made \in Seq(Floors)
  BY <1>3, <1>4
<1>6. LongWicks(raw) \subseteq DOMAIN raw
  BY DEF LongWicks
<1>7. Elems(made) = {FloorZone(long[k]) : k \in DOMAIN long}
  BY DEF Elems
<1>8. {FloorZone(long[k]) : k \in DOMAIN long} = {FloorZone(x) : x \in Elems(long)}
  BY DEF Elems
<1>9. {FloorZone(x) : x \in Elems(long)} = {FloorZone(raw[k]) : k \in LongWicks(raw)}
  BY <1>2, <1>6
<1> HIDE DEF made
<1> QED BY <1>1, <1>5, <1>7, <1>8, <1>9

\* What a ranked clearing returns.
LEMMA OverlapClears ==
  ASSUME NEW T, NEW s \in Seq(T)
  PROVE  /\ KeepClear(s, Overlap) \in Seq(T)
         /\ Cleared(s, Len(s), "overlap", KeepClear(s, Overlap))
<1> DEFINE kept == KeepClear(s, Overlap)
<1>1. PICK f : IsFold(<<"clear", "overlap">>, << >>, s, Len(s), f) /\ kept = f[1 .. Len(s)]
  BY KeepFoldOverlap
<1> HIDE DEF kept
<1>2. Len(s) \in Nat /\ Len(s) <= Len(s)
  OBVIOUS
<1>3. Cleared(s, Len(s), "overlap", kept)
  BY <1>1, <1>2, Clearing
<1>4. kept \in Seq(Upto(s, Len(s))) /\ Upto(s, Len(s)) \subseteq T
  BY <1>3 DEF Cleared, Upto
<1>5. kept \in Seq(T)
  BY <1>4
<1> QED BY <1>3, <1>5 DEF kept

LEMMA CrowdsClears ==
  ASSUME NEW T, NEW s \in Seq(T)
  PROVE  /\ KeepClear(s, Crowds) \in Seq(T)
         /\ Cleared(s, Len(s), "crowds", KeepClear(s, Crowds))
<1> DEFINE kept == KeepClear(s, Crowds)
<1>1. PICK f : IsFold(<<"clear", "crowds">>, << >>, s, Len(s), f) /\ kept = f[1 .. Len(s)]
  BY KeepFoldCrowds
<1> HIDE DEF kept
<1>2. Len(s) \in Nat /\ Len(s) <= Len(s)
  OBVIOUS
<1>3. Cleared(s, Len(s), "crowds", kept)
  BY <1>1, <1>2, Clearing
<1>4. kept \in Seq(Upto(s, Len(s))) /\ Upto(s, Len(s)) \subseteq T
  BY <1>3 DEF Cleared, Upto
<1>5. kept \in Seq(T)
  BY <1>4
<1> QED BY <1>3, <1>5 DEF kept

(***************************************************************************)
(* What a clearing by age leaves of the floors.                            *)
(***************************************************************************)
\* Each is kept unless an older one that is kept stands in its way.
Kernel(F, K, name) ==
  /\ K \subseteq F
  /\ \A z \in F : z \in K \/ \E y \in K : Age(y) < Age(z) /\ Conflict(name, z, y)
  /\ \A y, z \in K : y # z => ~Conflict(name, z, y)

LEMMA FloorAge ==
  ASSUME NEW z \in Floors
  PROVE  Age(z) \in Nat /\ z.sources = {Age(z)} /\ IsPersistent(z)
<1>1. PICK i \in Nat : z.sources = {i}
  BY DEF Floors
<1>2. Min({i}) = i
  BY DEF Min
<1>3. Age(z) = i
  BY <1>1, <1>2 DEF Age
<1> QED BY <1>1, <1>3 DEF IsPersistent, Floors

\* Floors that are younger than all before change nothing among those.
LEMMA KernelStays ==
  ASSUME NEW name, NEW F \in SUBSET Floors, NEW G \in SUBSET Floors, F \subseteq G,
         NEW K, NEW L, Kernel(F, K, name), Kernel(G, L, name),
         \A z \in F : \A y \in G : Age(y) < Age(z) => y \in F
  PROVE  K = L \intersect F
<1> DEFINE Same(n) == \A z \in F : Age(z) < n => (z \in K <=> z \in L)
           S == {n \in Nat : Same(n)}
<1>1. \A z \in G : Age(z) \in Nat
  BY FloorAge
<1>2. 0 \in S
  BY <1>1
<1>3. ASSUME NEW n \in Nat, n \in S PROVE n + 1 \in S
  <2> SUFFICES ASSUME NEW z \in F, Age(z) < n + 1 PROVE z \in K <=> z \in L
    OBVIOUS
  <2>0. Age(z) \in Nat /\ z \in G
    BY <1>1
  <2>1. \A y \in F : Age(y) < Age(z) => (y \in K <=> y \in L)
    <3> SUFFICES ASSUME NEW y \in F, Age(y) < Age(z) PROVE y \in K <=> y \in L
      OBVIOUS
    <3>1. Age(y) \in Nat /\ Age(y) < n
      BY <1>1, <2>0
    <3> QED BY <1>3, <3>1
  <2>2. ASSUME z \in K, z \notin L PROVE FALSE
    <3>1. PICK y \in L : Age(y) < Age(z) /\ Conflict(name, z, y)
      BY <2>0, <2>2 DEF Kernel
    <3>2. y \in F
      BY <3>1 DEF Kernel
    <3>3. y \in K /\ y # z
      BY <2>0, <2>1, <3>1, <3>2
    <3> QED BY <2>2, <3>1, <3>3 DEF Kernel
  <2>3. ASSUME z \in L, z \notin K PROVE FALSE
    <3>1. PICK y \in K : Age(y) < Age(z) /\ Conflict(name, z, y)
      BY <2>3 DEF Kernel
    <3>2. y \in F
      BY DEF Kernel
    <3>3. y \in L /\ y # z
      BY <2>0, <2>1, <3>1, <3>2
    <3> QED BY <2>3, <3>1, <3>3 DEF Kernel
  <2> QED BY <2>2, <2>3
<1> HIDE DEF S
<1>4. \A n \in Nat : n \in S
  BY <1>2, <1>3, Induction
<1>5. ASSUME NEW z \in F PROVE z \in K <=> z \in L
  <2>1. Age(z) \in Nat
    BY <1>1
  <2>2. Age(z) + 1 \in S
    BY <1>4, <2>1
  <2>3. Same(Age(z) + 1)
    BY <2>2 DEF S
  <2> QED BY <2>1, <2>3
<1>6. K \subseteq F
  BY DEF Kernel
<1> QED BY <1>5, <1>6

MutualOn(T, name) == \A a, b \in T : Conflict(name, a, b) => Conflict(name, b, a)

\* Before a floor come only older floors.
FloorsFirst(F, s, r) ==
  \A z \in F : \A y \in Elems(s) :
    r[y] <= r[z] /\ y # z => y \in F /\ Age(y) < Age(z)

\* What a clearing keeps is clear of each other, and what it leaves out was not.
LEMMA ClearedSet ==
  ASSUME NEW T, NEW s \in Seq(T), NEW name, NEW t, Cleared(s, Len(s), name, t),
         MutualOn(T, name)
  PROVE  /\ Elems(t) \subseteq Elems(s) /\ t \in Seq(Elems(s))
         /\ \A y, z \in Elems(t) : y # z => ~Conflict(name, z, y)
         /\ \A z \in Elems(s) \ Elems(t) : \E y \in Elems(t) : Conflict(name, z, y)
<1> DEFINE n == Len(s)
<1>1. /\ t \in Seq(Upto(s, n))
      /\ \A i \in 1 .. n : \/ s[i] \in Elems(t)
                           \/ \E j \in 1 .. n : j < i /\ s[j] \in Elems(t) /\ Conflict(name, s[i], s[j])
      /\ \A a, b \in 1 .. Len(t) : a < b => ~Conflict(name, t[b], t[a])
  BY DEF Cleared
<1>2. DOMAIN s = 1 .. n /\ n \in Nat /\ \A k \in 1 .. n : s[k] \in T /\ s[k] \in Elems(s)
  BY DEF Elems
<1>3. Upto(s, n) = Elems(s)
  BY <1>2 DEF Upto, Elems
<1>4. t \in Seq(Elems(s)) /\ DOMAIN t = 1 .. Len(t) /\ Len(t) \in Nat
  BY <1>1, <1>3
<1>5. Elems(t) \subseteq Elems(s)
  BY <1>4 DEF Elems
<1>6. ASSUME NEW z \in Elems(s), z \notin Elems(t) PROVE \E y \in Elems(t) : Conflict(name, z, y)
  BY <1>1, <1>2, <1>6 DEF Elems
<1>7. ASSUME NEW y \in Elems(t), NEW z \in Elems(t), y # z PROVE ~Conflict(name, z, y)
  <2>1. PICK a \in 1 .. Len(t) : y = t[a]
    BY <1>4 DEF Elems
  <2>2. PICK b \in 1 .. Len(t) : z = t[b]
    BY <1>4 DEF Elems
  <2>3. y \in T /\ z \in T
    BY <1>2, <1>5 DEF Elems
  <2>4. CASE a < b
    BY <1>1, <2>1, <2>2, <2>4
  <2>5. CASE b < a
    <3>1. ~Conflict(name, y, z)
      BY <1>1, <2>1, <2>2, <2>5
    <3> QED BY <2>3, <3>1 DEF MutualOn
  <2> QED BY <1>7, <2>1, <2>2, <2>4, <2>5
<1> QED BY <1>4, <1>5, <1>6, <1>7

\* A clearing of a list in which the floors come first and by age.
LEMMA KernelOf ==
  ASSUME NEW T, NEW s \in Seq(T), NEW F \in SUBSET Elems(s), NEW name, NEW t,
         Cleared(s, Len(s), name, t),
         MutualOn(T, name), NEW r, Ascends(s, r), FloorsFirst(F, s, r)
  PROVE  Kernel(F, F \intersect Elems(t), name) /\ Elems(t) \subseteq Elems(s)
<1> DEFINE K == F \intersect Elems(t)
           n == Len(s)
<1>1. \A i \in 1 .. n : \/ s[i] \in Elems(t)
                         \/ \E j \in 1 .. n : j < i /\ s[j] \in Elems(t) /\ Conflict(name, s[i], s[j])
  BY DEF Cleared
<1>2. DOMAIN s = 1 .. n /\ n \in Nat /\ \A k \in 1 .. n : s[k] \in T /\ s[k] \in Elems(s)
  BY DEF Elems
<1>5. Elems(t) \subseteq Elems(s) /\ \A y, z \in Elems(t) : y # z => ~Conflict(name, z, y)
  BY ClearedSet
<1>6. ASSUME NEW z \in F, z \notin K
      PROVE  \E y \in K : Age(y) < Age(z) /\ Conflict(name, z, y)
  <2>1. PICK i \in 1 .. n : z = s[i]
    BY <1>2 DEF Elems
  <2>2. z \notin Elems(t)
    BY <1>6
  <2>3. PICK j \in 1 .. n : j < i /\ s[j] \in Elems(t) /\ Conflict(name, s[i], s[j])
    BY <1>1, <2>1, <2>2
  <2>4. r[s[j]] <= r[z] /\ s[j] # z /\ s[j] \in Elems(s)
    BY <1>2, <2>1, <2>2, <2>3 DEF Ascends
  <2>5. s[j] \in F /\ Age(s[j]) < Age(z)
    BY <2>4 DEF FloorsFirst
  <2> QED BY <2>1, <2>3, <2>5
<1> HIDE DEF K
<1>8. Kernel(F, K, name)
  <2>1. K \subseteq F /\ K \subseteq Elems(t)
    BY DEF K
  <2> QED BY <1>5, <1>6, <2>1 DEF Kernel
<1> QED BY <1>5, <1>8 DEF K

(***************************************************************************)
(* The orders of the zones, and when they are mutual.                      *)
(***************************************************************************)
LEMMA FarFields ==
  ASSUME NEW z \in Far
  PROVE  z.low \in Int /\ z.high \in Int /\ z.low <= z.high /\ z.near = FALSE /\ z \in Lawful
BY DEF Far, Lawful

LEMMA Mutual ==
  ASSUME NEW a \in Far, NEW b \in Far
  PROVE  /\ Conflict("overlap", a, b) <=> Overlap(a, b)
         /\ Conflict("crowds", a, b) <=> ShareLadderSlot(a, b)
         /\ Conflict("overlap", a, b) => Conflict("overlap", b, a)
         /\ Conflict("crowds", a, b) => Conflict("crowds", b, a)
<1>1. /\ a.low \in Int /\ a.high \in Int /\ a.low <= a.high /\ a.near = FALSE
      /\ b.low \in Int /\ b.high \in Int /\ b.low <= b.high /\ b.near = FALSE
  BY FarFields
<1>2. \A x, y : Conflict("overlap", x, y) <=> Overlap(x, y)
  BY DEF Conflict
<1>3. \A x, y : Conflict("crowds", x, y) <=> Crowds(x, y)
  BY DEF Conflict
<1>4. (Crowds(a, b) <=> ShareLadderSlot(a, b)) /\ (Crowds(b, a) <=> ShareLadderSlot(b, a))
  BY <1>1 DEF Crowds
<1>5. Overlap(a, b) => Overlap(b, a)
  BY DEF Overlap
<1>6. ShareLadderSlot(a, b) => ShareLadderSlot(b, a)
  BY <1>1 DEF ShareLadderSlot, ShareSlotWithin, Mid2, MinGap, Spacing
<1> QED BY <1>2, <1>3, <1>4, <1>5, <1>6

LEMMA ByLowAscends ==
  ASSUME NEW s \in Seq(Lawful)
  PROVE  LET t == ByLow(s)
         IN  \A j, k \in 1 .. Len(t) : j < k => t[j].low <= t[k].low
<1> DEFINE t == ByLow(s)
           T == Elems(s)
           R == LowOrder(s)
           r == [z \in T |-> z.low]
<1>1. s \in Seq(T) /\ ToSet(s) = T /\ T \subseteq Lawful
  BY ListElems DEF Elems
<1>2. \A z \in T : z.low \in Int
  BY <1>1 DEF Lawful
<1>3. R = {p \in T \X T : p[1].low < p[2].low}
  BY <1>1 DEF LowOrder
<1> HIDE DEF T, R
<1>4. Ranked(T, R, r)
  <2>1. r \in [T -> Int]
    BY <1>2
  <2>2. ASSUME NEW a \in T, NEW b \in T
        PROVE  /\ r[a] < r[b] => <<a, b>> \in R
               /\ <<a, b>> \in R => r[a] <= r[b]
    <3>1. <<a, b>> \in R <=> a.low < b.low
      BY <1>3
    <3> QED BY <1>2, <3>1
  <2> HIDE DEF r
  <2> QED BY <2>1, <2>2 DEF Ranked
<1>5. t = Sorted(s, R) /\ t \in Seq(T)
  BY <1>1, ByLowTyped DEF R
<1>6. Ascends(t, r)
  <2> HIDE DEF r, t
  <2> QED BY <1>1, <1>4, <1>5, SortedAscends
<1>7. \A j \in 1 .. Len(t) : r[t[j]] = t[j].low
  <2> HIDE DEF t
  <2> QED BY <1>5
<1> HIDE DEF t, r
<1>8. \A j, k \in 1 .. Len(t) : j < k => t[j].low <= t[k].low
  BY <1>6, <1>7 DEF Ascends
<1> QED BY <1>8 DEF t

(***************************************************************************)
(* The floors of the evidence.                                             *)
(***************************************************************************)
FloorsOf(raw) == {FloorZone(raw[k]) : k \in LongWicks(raw)}

\* The oldest floors that do not overlap.
OldFloors(raw) ==
  Elems(KeepClear(OldestFirst(PersistentFloors(raw)), Overlap))

LEMMA FloorsByAge ==
  ASSUME NEW raw \in Seq(Pivots), NEW n, Dated(raw, n)
  PROVE  /\ FloorsOf(raw) \in SUBSET Floors
         /\ \A y, z \in FloorsOf(raw) : Age(y) = Age(z) => y = z
<1>1. LongWicks(raw) \subseteq DOMAIN raw /\ DOMAIN raw = 1 .. Len(raw)
  BY DEF LongWicks
<1>2. \A k \in DOMAIN raw : raw[k] \in Pivots
  OBVIOUS
<1>3. \A k \in LongWicks(raw) : /\ FloorZone(raw[k]) \in Floors
                                /\ FloorZone(raw[k]).sources = {raw[k].index}
  BY <1>1, <1>2, FloorZoneTyped
<1>4. \A k \in LongWicks(raw) : Age(FloorZone(raw[k])) = raw[k].index
  BY <1>3, FloorAge
<1>5. \A j, k \in LongWicks(raw) : raw[j].index = raw[k].index => j = k
  <2> SUFFICES ASSUME NEW j \in LongWicks(raw), NEW k \in LongWicks(raw), j # k
               PROVE  raw[j].index # raw[k].index
    OBVIOUS
  <2>1. j \in Int /\ k \in Int /\ raw[j].index \in Int /\ raw[k].index \in Int
    BY <1>1, <1>2, PivotFields
  <2>2. (j < k => raw[j].index < raw[k].index) /\ (k < j => raw[k].index < raw[j].index)
    BY <1>1 DEF Dated
  <2> QED BY <2>1, <2>2
<1> QED BY <1>3, <1>4, <1>5 DEF FloorsOf

LEMMA OldFloorsKernel ==
  ASSUME NEW raw \in Seq(Pivots), NEW n, Dated(raw, n)
  PROVE  /\ Kernel(FloorsOf(raw), OldFloors(raw), "overlap")
         /\ KeepClear(OldestFirst(PersistentFloors(raw)), Overlap)
              \in Seq(OldFloors(raw))
<1> DEFINE all == PersistentFloors(raw)
           T == Elems(all)
           R == {p \in ToSet(all) \X ToSet(all) :
                   \/ Age(p[1]) < Age(p[2])
                   \/ Age(p[1]) = Age(p[2]) /\ p[1].low < p[2].low}
           s == OldestFirst(all)
           r == [z \in T |-> Age(z)]
           t == KeepClear(s, Overlap)
<1>1. all \in Seq(Floors) /\ T = FloorsOf(raw)
  BY PersistentFloorsAre DEF FloorsOf
<1>2. s = Sorted(all, R)
  BY DEF OldestFirst, SortBy
<1> HIDE DEF all
<1>3. all \in Seq(T) /\ ToSet(all) = T /\ T \subseteq Floors
  BY <1>1, ListElems DEF Elems
<1>4. \A z \in T : Age(z) \in Int /\ z.low \in Int
  <2>1. T \subseteq Far
    BY <1>3 DEF Floors
  <2>2. \A z \in T : z.low \in Int
    BY <2>1, FarFields
  <2>3. \A z \in T : Age(z) \in Nat
    BY <1>3, FloorAge
  <2> QED BY <2>2, <2>3
<1> HIDE DEF T
<1>5. \A a, b \in T : <<a, b>> \in R <=> \/ Age(a) < Age(b)
                                         \/ Age(a) = Age(b) /\ a.low < b.low
  BY <1>3
<1> HIDE DEF R
<1>6. Ranked(T, R, r)
  <2>1. r \in [T -> Int] /\ \A z \in T : r[z] = Age(z)
    BY <1>4
  <2> HIDE DEF r
  <2> QED BY <1>4, <1>5, <2>1 DEF Ranked
<1>7. s \in Seq(T) /\ Elems(s) = T
  BY <1>2, <1>3, SortedKeeps DEF T
<1>8. Ascends(s, r)
  <2> HIDE DEF r, s
  <2> QED BY <1>2, <1>3, <1>6, SortedAscends
<1> HIDE DEF s
<1>9. Cleared(s, Len(s), "overlap", t)
  BY <1>7, OverlapClears
<1> HIDE DEF t
<1>10. MutualOn(T, "overlap")
  <2>1. T \subseteq Far
    BY <1>3 DEF Floors
  <2> QED BY <2>1, Mutual DEF MutualOn
<1>11. FloorsFirst(T, s, r)
  <2> SUFFICES ASSUME NEW z \in T, NEW y \in T, r[y] <= r[z], y # z PROVE Age(y) < Age(z)
    BY <1>7 DEF FloorsFirst
  <2>1. Age(y) # Age(z)
    BY <1>1, FloorsByAge
  <2> QED BY <1>4, <2>1
<1> HIDE DEF r
<1>12. Kernel(T, T \intersect Elems(t), "overlap") /\ Elems(t) \subseteq Elems(s)
  <2>1. T \in SUBSET Elems(s)
    BY <1>7
  <2> QED BY <1>7, <1>8, <1>9, <1>10, <1>11, <2>1, KernelOf
<1>13. T \intersect Elems(t) = Elems(t)
  BY <1>7, <1>12
<1>14. OldFloors(raw) = Elems(t)
  BY DEF OldFloors, t, s, all
<1>15. t \in Seq(Elems(t))
  <2>1. t \in Seq(T)
    BY <1>7, OverlapClears DEF t
  <2> QED BY <2>1, ListElems
<1> QED BY <1>1, <1>12, <1>13, <1>14, <1>15 DEF t, s, all

(***************************************************************************)
(* The ladder before its gaps are filled.                                  *)
(***************************************************************************)
LEMMA ElemsJoined ==
  ASSUME NEW S, NEW T, NEW s \in Seq(S), NEW t \in Seq(T)
  PROVE  Elems(s \o t) = Elems(s) \union Elems(t)
<1>1. /\ DOMAIN s = 1 .. Len(s) /\ DOMAIN t = 1 .. Len(t) /\ Len(s) \in Nat /\ Len(t) \in Nat
  OBVIOUS
<1>2. s \in Seq(S \union T) /\ t \in Seq(S \union T)
  OBVIOUS
<1>3. /\ DOMAIN (s \o t) = 1 .. Len(s) + Len(t)
      /\ \A k \in 1 .. Len(s) + Len(t) :
           (s \o t)[k] = IF k <= Len(s) THEN s[k] ELSE t[k - Len(s)]
  BY <1>2
<1> DEFINE u == s \o t
<1> HIDE DEF u
<1>4. Elems(u) \subseteq Elems(s) \union Elems(t)
  <2> SUFFICES ASSUME NEW k \in 1 .. Len(s) + Len(t) PROVE u[k] \in Elems(s) \union Elems(t)
    BY <1>3 DEF Elems, u
  <2>1. CASE k <= Len(s)
    <3>1. k \in 1 .. Len(s) /\ u[k] = s[k]
      BY <1>1, <1>3, <2>1 DEF u
    <3> QED BY <1>1, <3>1 DEF Elems
  <2>2. CASE ~(k <= Len(s))
    <3>1. k - Len(s) \in 1 .. Len(t) /\ u[k] = t[k - Len(s)]
      BY <1>1, <1>3, <2>2 DEF u
    <3> QED BY <1>1, <3>1 DEF Elems
  <2> QED BY <2>1, <2>2
<1>5. Elems(s) \subseteq Elems(u)
  <2> SUFFICES ASSUME NEW k \in 1 .. Len(s) PROVE s[k] \in Elems(u)
    BY <1>1 DEF Elems
  <2>1. k \in 1 .. Len(s) + Len(t) /\ u[k] = s[k]
    BY <1>1, <1>3 DEF u
  <2> QED BY <1>3, <2>1 DEF Elems, u
<1>6. Elems(t) \subseteq Elems(u)
  <2> SUFFICES ASSUME NEW k \in 1 .. Len(t) PROVE t[k] \in Elems(u)
    BY <1>1 DEF Elems
  <2> DEFINE j == k + Len(s)
  <2>1. j \in 1 .. Len(s) + Len(t) /\ ~(j <= Len(s)) /\ j - Len(s) = k
    BY <1>1
  <2> HIDE DEF j
  <2>2. u[j] = t[k]
    BY <1>3, <2>1 DEF u
  <2> QED BY <1>3, <2>1, <2>2 DEF Elems, u
<1> QED BY <1>4, <1>5, <1>6 DEF u

LEMMA DistinctElems ==
  ASSUME NEW T, NEW s \in Seq(T)
  PROVE  /\ Elems(Distinct(s)) \subseteq Elems(s)
         /\ \A z \in Elems(s) : (\A y \in Elems(s) : y # z => ~Overlap(y, z))
                                  => z \in Elems(Distinct(s))
<1>1. s \in Seq(Elems(s))
  BY DEF Elems
<1>2. Distinct(s) \in Seq(Elems(s))
  BY <1>1, DistinctTyped
<1>3. Elems(Distinct(s)) \subseteq Elems(s)
  <2> DEFINE d == Distinct(s)
             E == Elems(s)
  <2>1. d \in Seq(E)
    BY <1>2
  <2> HIDE DEF d, E
  <2>2. Elems(d) \subseteq E
    BY <2>1 DEF Elems
  <2> QED BY <2>2 DEF d, E
<1>4. ASSUME NEW z \in Elems(s), \A y \in Elems(s) : y # z => ~Overlap(y, z)
      PROVE  z \in Elems(Distinct(s))
  <2> DEFINE t == ByLow(s)
             n == Len(t)
  <2>1. t \in Seq(T) /\ Elems(t) = Elems(s)
    BY ByLowTyped
  <2>2. PICK f : IsFold(<<"distinct">>, << >>, t, n, f) /\ Distinct(s) = f[1 .. n]
    BY <2>1, DistinctFold
  <2> HIDE DEF t
  <2>3. n \in Nat /\ n <= n /\ DOMAIN t = 1 .. n
    BY <2>1
  <2> HIDE DEF n
  <2>4. Upto(t, n) = Elems(t)
    BY <2>3 DEF Upto, Elems
  <2>5. \A i \in 1 .. n : t[i] # z => ~Overlap(t[i], z)
    <3>1. \A i \in 1 .. n : t[i] \in Elems(s)
      BY <2>1, <2>3 DEF Elems
    <3> QED BY <1>4, <3>1
  <2>6. z \in Upto(t, n) => z \in Elems(f[1 .. n])
    BY <2>2, <2>3, <2>5, LoneStays
  <2> QED BY <2>1, <2>2, <2>4, <2>6
<1> QED BY <1>3, <1>4

LEMMA FloorsLaid ==
  ASSUME NEW zones \in Seq(Plain), NEW raw \in Seq(Pivots), NEW n, Dated(raw, n)
  PROVE  LET laid == Distinct(OverlayPersistent(zones, PersistentFloors(raw)))
         IN  /\ laid \in Seq(Far)
             /\ {z \in Elems(laid) : IsPersistent(z)} = OldFloors(raw)
<1> DEFINE kept == KeepClear(OldestFirst(PersistentFloors(raw)), Overlap)
           places == {k \in DOMAIN zones : /\ ~IsPersistent(zones[k])
                                           /\ ~\E j \in DOMAIN kept : Overlap(zones[k], kept[j])}
           rest == Pick(zones, places)
           K == OldFloors(raw)
           all == ByLow(rest \o kept)
           laid == Distinct(all)
<1>1. OverlayPersistent(zones, PersistentFloors(raw)) = all
  BY DEF OverlayPersistent, Selection, AnyOf
<1>2. kept \in Seq(K) /\ Elems(kept) = K /\ Kernel(FloorsOf(raw), K, "overlap")
      /\ FloorsOf(raw) \in SUBSET Floors
  BY OldFloorsKernel, FloorsByAge DEF OldFloors
<1> HIDE DEF kept, K
<1>3. rest \in Seq(Plain) /\ \A i \in DOMAIN rest : \E k \in DOMAIN zones : k \in places /\ rest[i] = zones[k]
  <2> HIDE DEF places
  <2> QED BY PickTyped
<1> HIDE DEF rest
<1>4. \A x \in Elems(rest) : x \in Plain /\ ~\E k \in K : Overlap(x, k)
  <2> SUFFICES ASSUME NEW i \in DOMAIN rest
               PROVE  rest[i] \in Plain /\ ~\E k \in K : Overlap(rest[i], k)
    BY DEF Elems
  <2>1. rest[i] \in Plain /\ ~\E j \in DOMAIN kept : Overlap(rest[i], kept[j])
    BY <1>3
  <2> QED BY <1>2, <2>1 DEF Elems
<1>5. K \subseteq Far /\ Plain \subseteq Far /\ K \subseteq Floors
  BY <1>2 DEF Kernel, Floors, Plain, Far
<1>6. rest \o kept \in Seq(Far)
  <2>1. rest \in Seq(Far) /\ kept \in Seq(Far)
    BY <1>2, <1>3, <1>5
  <2> QED BY <2>1
<1>7. Elems(rest \o kept) = Elems(rest) \union K
  BY <1>2, <1>3, ElemsJoined
<1>8. all \in Seq(Far) /\ Elems(all) = Elems(rest) \union K
  BY <1>6, <1>7, ByLowTyped
<1> HIDE DEF all
<1>9. laid \in Seq(Far) /\ Elems(laid) \subseteq Elems(rest) \union K
  BY <1>8, DistinctTyped, DistinctElems
<1>10. ASSUME NEW z \in K PROVE z \in Elems(laid)
  <2>1. ASSUME NEW y \in Elems(rest) \union K, y # z PROVE ~Overlap(y, z)
    <3>1. CASE y \in Elems(rest)
      BY <1>4, <3>1
    <3>2. CASE y \in K
      <4>1. ~Conflict("overlap", y, z)
        BY <1>2, <2>1, <3>2 DEF Kernel
      <4>2. y \in Far /\ z \in Far
        BY <1>5, <3>2
      <4> QED BY <4>1, <4>2, Mutual
    <3> QED BY <3>1, <3>2
  <2> QED BY <1>8, <2>1, DistinctElems
<1> HIDE DEF laid
<1>11. \A x \in Elems(rest) : ~IsPersistent(x)
  BY <1>4 DEF Plain, IsPersistent
<1>12. \A z \in K : IsPersistent(z)
  BY <1>5, FloorAge
<1>13. {z \in Elems(laid) : IsPersistent(z)} = K
  BY <1>9, <1>10, <1>11, <1>12
<1> QED BY <1>1, <1>9, <1>13 DEF laid, K

(***************************************************************************)
(* The spacing.                                                            *)
(***************************************************************************)
\* A zone that no other crowds stays through the spacing, and none is added.
LEMMA SpacingKeepsClear ==
  ASSUME NEW T, NEW s \in Seq(T),
         \A y, z \in Elems(s) : y # z => ~Crowds(z, y)
  PROVE  Elems(EnforceSpacing(s)) = Elems(s) /\ EnforceSpacing(s) \in Seq(T)
<1> DEFINE R == {p \in ToSet(s) \X ToSet(s) :
                   IF IsPersistent(p[1]) /\ IsPersistent(p[2])
                   THEN Age(p[1]) < Age(p[2])
                   ELSE IF IsPersistent(p[1]) # IsPersistent(p[2])
                   THEN IsPersistent(p[1])
                   ELSE Outranks(p[1], p[2])}
           q == ByPriority(s)
           t == KeepClear(q, Crowds)
<1>1. q = Sorted(s, R)
  BY DEF ByPriority, SortBy
<1> HIDE DEF R
<1>2. q \in Seq(T) /\ Elems(q) = Elems(s)
  BY <1>1, SortedKeeps
<1> HIDE DEF q
<1>3. t \in Seq(T) /\ Cleared(q, Len(q), "crowds", t)
  BY <1>2, CrowdsClears
<1> HIDE DEF t
<1> DEFINE n == Len(q)
<1>4. DOMAIN q = 1 .. n /\ n \in Nat /\ \A k \in 1 .. n : q[k] \in Elems(q)
  BY <1>2 DEF Elems
<1>5. /\ t \in Seq(Upto(q, n))
      /\ \A i \in 1 .. n : \/ q[i] \in Elems(t)
                           \/ \E j \in 1 .. n : j < i /\ q[j] \in Elems(t) /\ Conflict("crowds", q[i], q[j])
  BY <1>3 DEF Cleared
<1>6. Upto(q, n) = Elems(q)
  BY <1>4 DEF Upto, Elems
<1> HIDE DEF n
<1>7. Elems(t) \subseteq Elems(q)
  <2>1. \A k \in DOMAIN t : t[k] \in Elems(q)
    BY <1>5, <1>6
  <2> QED BY <2>1 DEF Elems
<1>8. ASSUME NEW i \in 1 .. n, q[i] \notin Elems(t) PROVE FALSE
  <2>1. PICK j \in 1 .. n : q[j] \in Elems(t) /\ Conflict("crowds", q[i], q[j])
    BY <1>5, <1>8
  <2>2. Crowds(q[i], q[j])
    BY <2>1 DEF Conflict
  <2>3. q[i] = q[j]
    BY <1>2, <1>4, <2>2
  <2> QED BY <1>8, <2>1, <2>3
<1>9. Elems(q) \subseteq Elems(t)
  <2>1. \A x \in Elems(q) : \E i \in 1 .. n : x = q[i]
    BY <1>4 DEF Elems
  <2> QED BY <1>8, <2>1
<1>10. Elems(ByLow(t)) = Elems(t) /\ ByLow(t) \in Seq(T)
  BY <1>3, ByLowTyped
<1>11. Elems(t) = Elems(s)
  BY <1>2, <1>7, <1>9
<1>12. EnforceSpacing(s) = ByLow(t)
  BY DEF EnforceSpacing, t, q
<1> QED BY <1>10, <1>11, <1>12

Lone(F) == \A y, z \in F : Age(y) = Age(z) => y = z

\* Floors before other zones, the older first: the spacing leaves a kernel of them.
LEMMA SpacingFloors ==
  ASSUME NEW s \in Seq(Far), NEW K \in SUBSET Floors,
         K = {z \in Elems(s) : IsPersistent(z)}, Lone(K),
         NEW n \in Nat, \A z \in K : Age(z) <= n
  PROVE  LET w == EnforceSpacing(s)
         IN  /\ w \in Seq(Far) /\ Elems(w) \subseteq Elems(s)
             /\ \A j, k \in 1 .. Len(w) : j < k => w[j].low <= w[k].low
             /\ \A y, z \in Elems(w) : y # z => ~ShareLadderSlot(z, y)
             /\ Kernel(K, K \intersect Elems(w), "crowds")
<1> DEFINE T == Elems(s)
           R == {p \in ToSet(s) \X ToSet(s) :
                   IF IsPersistent(p[1]) /\ IsPersistent(p[2])
                   THEN Age(p[1]) < Age(p[2])
                   ELSE IF IsPersistent(p[1]) # IsPersistent(p[2])
                   THEN IsPersistent(p[1])
                   ELSE Outranks(p[1], p[2])}
           r == [z \in T |-> IF z \in K THEN Age(z) ELSE n + 1]
           q == ByPriority(s)
           t == KeepClear(q, Crowds)
           w == ByLow(t)
<1>1. q = Sorted(s, R)
  BY DEF ByPriority, SortBy
<1>2. s \in Seq(T) /\ ToSet(s) = T /\ T \subseteq Far
  BY ListElems DEF Elems
<1>3. \A a \in T : IsPersistent(a) <=> a \in K
  OBVIOUS
<1>4. \A a \in K : Age(a) \in Nat /\ Age(a) <= n
  BY FloorAge
<1>5. \A a, b \in T : <<a, b>> \in R <=>
        IF a \in K /\ b \in K THEN Age(a) < Age(b)
        ELSE IF (a \in K) # (b \in K) THEN a \in K
        ELSE Outranks(a, b)
  <2> SUFFICES ASSUME NEW a \in T, NEW b \in T
               PROVE  <<a, b>> \in R <=>
                        IF a \in K /\ b \in K THEN Age(a) < Age(b)
                        ELSE IF (a \in K) # (b \in K) THEN a \in K
                        ELSE Outranks(a, b)
    OBVIOUS
  <2>1. <<a, b>> \in R <=>
          IF IsPersistent(a) /\ IsPersistent(b)
          THEN Age(a) < Age(b)
          ELSE IF IsPersistent(a) # IsPersistent(b)
          THEN IsPersistent(a)
          ELSE Outranks(a, b)
    BY <1>2
  <2> HIDE DEF R
  <2>2. IsPersistent(a) = (a \in K) /\ IsPersistent(b) = (b \in K)
    BY <1>3 DEF IsPersistent
  <2> QED BY <2>1, <2>2
<1> HIDE DEF R
<1>6. \A a \in T : r[a] = IF a \in K THEN Age(a) ELSE n + 1
  OBVIOUS
<1>7. Ranked(T, R, r)
  <2>1. r \in [T -> Int]
    BY <1>4
  <2> HIDE DEF r
  <2>2. ASSUME NEW a \in T, NEW b \in T
        PROVE  /\ r[a] < r[b] => <<a, b>> \in R
               /\ <<a, b>> \in R => r[a] <= r[b]
    BY <1>4, <1>5, <1>6
  <2> QED BY <2>1, <2>2 DEF Ranked
<1>8. K \subseteq T
  OBVIOUS
<1> HIDE DEF T
<1>9. q \in Seq(T) /\ Elems(q) = T
  BY <1>1, <1>2, SortedKeeps DEF T
<1>10. Ascends(q, r)
  <2> HIDE DEF r, q
  <2> QED BY <1>1, <1>2, <1>7, SortedAscends
<1> HIDE DEF q
<1>11. t \in Seq(T) /\ Cleared(q, Len(q), "crowds", t)
  BY <1>9, CrowdsClears
<1> HIDE DEF t
<1>12. MutualOn(T, "crowds")
  BY <1>2, Mutual DEF MutualOn
<1>13. FloorsFirst(K, q, r)
  <2> SUFFICES ASSUME NEW z \in K, NEW y \in T, r[y] <= r[z], y # z
               PROVE  y \in K /\ Age(y) < Age(z)
    BY <1>9 DEF FloorsFirst
  <2>1. y \in K
    <3> HIDE DEF r
    <3> QED BY <1>4, <1>6, <1>8
  <2>2. Age(y) # Age(z)
    BY <2>1 DEF Lone
  <2>3. Age(y) <= Age(z)
    <3> HIDE DEF r
    <3> QED BY <1>6, <1>8, <2>1
  <2> QED BY <1>4, <2>1, <2>2, <2>3
<1> HIDE DEF r
<1>14. Kernel(K, K \intersect Elems(t), "crowds") /\ Elems(t) \subseteq Elems(q)
  <2>1. K \in SUBSET Elems(q)
    BY <1>8, <1>9
  <2> QED BY <1>9, <1>10, <1>11, <1>12, <1>13, <2>1, KernelOf
<1>15. \A y, z \in Elems(t) : y # z => ~Conflict("crowds", z, y)
  BY <1>9, <1>11, <1>12, ClearedSet
<1>16. w \in Seq(T) /\ Elems(w) = Elems(t)
  BY <1>11, ByLowTyped
<1>17. \A j, k \in 1 .. Len(w) : j < k => w[j].low <= w[k].low
  <2>1. t \in Seq(Lawful)
    <3>1. T \subseteq Lawful
      BY <1>2 DEF Far
    <3> QED BY <1>11, <3>1
  <2> QED BY <2>1, ByLowAscends
<1>18. EnforceSpacing(s) = w
  BY DEF EnforceSpacing, t, q
<1> HIDE DEF w
<1>19. \A y, z \in Elems(w) : y # z => ~ShareLadderSlot(z, y)
  <2>1. \A y, z \in Elems(w) : y \in Far /\ z \in Far
    BY <1>2, <1>9, <1>14, <1>16
  <2> QED BY <1>15, <1>16, <2>1, Mutual
<1>20. w \in Seq(Far)
  BY <1>2, <1>16
<1> QED BY <1>9, <1>14, <1>16, <1>17, <1>18, <1>19, <1>20 DEF T

LEMMA FloorsDated ==
  ASSUME NEW raw \in Seq(Pivots), NEW n, Dated(raw, n)
  PROVE  \A z \in FloorsOf(raw) : Age(z) \in 1 .. n
<1> SUFFICES ASSUME NEW k \in LongWicks(raw) PROVE Age(FloorZone(raw[k])) \in 1 .. n
  BY DEF FloorsOf
<1>1. k \in DOMAIN raw /\ raw[k] \in Pivots
  BY DEF LongWicks
<1>2. FloorZone(raw[k]) \in Floors /\ FloorZone(raw[k]).sources = {raw[k].index}
  BY <1>1, FloorZoneTyped
<1>3. Age(FloorZone(raw[k])) = raw[k].index
  BY <1>2, FloorAge
<1> QED BY <1>1, <1>3 DEF Dated

\* The ladder before its gaps are filled: apart, from low to high, and of the old
\* floors a kernel.
Spaced(ev, w) ==
  /\ w \in Seq(Far)
  /\ \A j, k \in 1 .. Len(w) : j < k => w[j].low <= w[k].low
  /\ \A y, z \in Elems(w) : y # z => ~ShareLadderSlot(z, y)
  /\ ev.prominent # << >> =>
       Kernel(OldFloors(ev.raw), {z \in Elems(w) : IsPersistent(z)}, "crowds")

LEMMA SpacedLadderIs ==
  ASSUME NEW ev, NEW n \in Nat, EvidenceUpTo(ev, n), NEW m, NEW p
  PROVE  Spaced(ev, SpacedLadder(ev, m, p))
<1>1. ev \in Evidence /\ ev.raw \in Seq(Pivots) /\ Dated(ev.raw, n)
  BY DEF EvidenceUpTo, Evidence
<1>2. CASE ev.prominent = << >>
  <2>1. SpacedLadder(ev, m, p) = << >>
    BY <1>2 DEF SpacedLadder
  <2>2. Elems(<< >>) = {} /\ << >> \in Seq(Far) /\ Len(<< >>) = 0
    BY DEF Elems
  <2> QED BY <1>2, <2>1, <2>2 DEF Spaced
<1>3. CASE ev.prominent # << >>
  <2> DEFINE stairs == Staircase(ev, m, p)
             rejected == WithRejections(stairs, ev)
             daily == WithDaily(rejected, ev)
             laid == WithFloors(daily, ev)
             w == EnforceSpacing(laid)
             K == OldFloors(ev.raw)
  <2>1. SpacedLadder(ev, m, p) = w
    BY <1>3 DEF SpacedLadder
  <2>2. stairs \in Seq(Plain)
    BY <1>1, StaircaseTyped
  <2> HIDE DEF stairs
  <2>3. rejected \in Seq(Plain)
    BY <1>1, <2>2, OverlayRejectionsTyped, RejectionPairsTyped, DistinctTyped
       DEF WithRejections, Evidence
  <2> HIDE DEF rejected
  <2>4. daily \in Seq(Plain)
    BY <1>1, <2>3, OverlayDailyTyped, DailyZonesTyped, DistinctTyped DEF WithDaily, Evidence
  <2> HIDE DEF daily
  <2>5. laid \in Seq(Far) /\ {z \in Elems(laid) : IsPersistent(z)} = K
    BY <1>1, <2>4, FloorsLaid DEF WithFloors
  <2>6. K \subseteq FloorsOf(ev.raw) /\ FloorsOf(ev.raw) \in SUBSET Floors
    BY <1>1, OldFloorsKernel, FloorsByAge DEF Kernel
  <2>7. Lone(K)
    BY <1>1, <2>6, FloorsByAge DEF Lone
  <2>8. \A z \in K : Age(z) <= n
    BY <1>1, <2>6, FloorsDated
  <2> HIDE DEF laid, K
  <2>9. /\ w \in Seq(Far) /\ Elems(w) \subseteq Elems(laid)
        /\ \A j, k \in 1 .. Len(w) : j < k => w[j].low <= w[k].low
        /\ \A y, z \in Elems(w) : y # z => ~ShareLadderSlot(z, y)
        /\ Kernel(K, K \intersect Elems(w), "crowds")
    <3>1. K \in SUBSET Floors /\ K = {z \in Elems(laid) : IsPersistent(z)}
      BY <2>5, <2>6
    <3> QED BY <2>5, <2>7, <2>8, <3>1, SpacingFloors
  <2> HIDE DEF w
  <2>10. {z \in Elems(w) : IsPersistent(z)} = K \intersect Elems(w)
    BY <2>5, <2>9
  <2> QED BY <2>1, <2>9, <2>10 DEF Spaced, K
<1> QED BY <1>2, <1>3

(***************************************************************************)
(* The stairs of the last fill.                                            *)
(***************************************************************************)
Between(lower, upper) == {z \in Plain : z.low > lower.high /\ z.high < upper.low}

\* A stair in a gap, at the distance its kind keeps from both sides of it.
Stairs(lower, upper) ==
  {z \in Lawful : /\ z.origin # "persistent_wick_floor"
                  /\ z.low > lower.high /\ z.high < upper.low
                  /\ IF z.near THEN ClearsBoth(z, lower, upper, FillClearance, FillSpacing)
                     ELSE ClearsBoth(z, lower, upper, MinGap, Spacing)}

FoundIn(x, lower, upper, minTouches) ==
  Inside(ZonesOfClusters(InGap(x, lower, upper, FALSE, 0), minTouches), lower, upper)

LEMMA FoundInTyped ==
  ASSUME NEW x \in Seq(Candidates), NEW lower, NEW upper, NEW minTouches
  PROVE  FoundIn(x, lower, upper, minTouches) \in Seq(Between(lower, upper))
<1> DEFINE in == InGap(x, lower, upper, FALSE, 0)
           zones == ZonesOfClusters(in, minTouches)
           t == Inside(zones, lower, upper)
<1>1. in \in Seq(Candidates)
  BY InGapTyped
<1> HIDE DEF in
<1>2. zones \in Seq(Plain)
  BY <1>1, ZonesOfClustersTyped
<1> HIDE DEF zones
<1>3. t \in Seq(Plain) /\ \A i \in DOMAIN t : t[i].low > lower.high /\ t[i].high < upper.low
  BY <1>2, InsideTyped
<1> HIDE DEF t
<1>4. DOMAIN t = 1 .. Len(t) /\ Len(t) \in Nat /\ t = [i \in DOMAIN t |-> t[i]]
      /\ \A i \in DOMAIN t : t[i] \in Plain
  BY <1>3
<1>5. \A i \in 1 .. Len(t) : t[i] \in Between(lower, upper)
  BY <1>3, <1>4 DEF Between
<1>6. t \in Seq(Between(lower, upper))
  BY <1>4, <1>5, ListMade
<1> QED BY <1>6 DEF FoundIn, t, zones, in

LEMMA FoundFold ==
  ASSUME NEW lower, NEW upper, NEW T, NEW s \in Seq(T), NEW minTouches, NEW clearance, NEW spacing
  PROVE  \E f, places :
           /\ IsFold(<<"found", lower, upper, minTouches>>, << >>, s, Len(s), f)
           /\ places = {k \in DOMAIN f[1 .. Len(s)] :
                          ClearsBoth(f[1 .. Len(s)][k], lower, upper, clearance, spacing)}
           /\ GapFills(lower, upper, s, minTouches, clearance, spacing) \in
                {<< >>, Pick(f[1 .. Len(s)], places)}
<1> DEFINE n == Len(s)
           kind == <<"found", lower, upper, minTouches>>
           Is(f) == f = [D \in SUBSET (1 .. n) |->
                           IF D = {} THEN << >>
                           ELSE f[D \ {Max(D)}] \o FoundIn(s[Max(D)], lower, upper, minTouches)]
           it == CHOOSE f : Is(f)
           found == it[1 .. n]
           places == {k \in DOMAIN found : ClearsBoth(found[k], lower, upper, clearance, spacing)}
<1>1. n \in Nat /\ DOMAIN s = 1 .. n
  OBVIOUS
<1>2. GapFills(lower, upper, s, minTouches, clearance, spacing) \in
        {<< >>, Pick(found, places)}
  BY <1>1 DEF GapFills, FoldLeft, MapThenFoldSet, Max, Selection, FoundIn
<1>3. \A f : IsFold(kind, << >>, s, n, f) <=> Is(f)
  <2>1. \A acc, x : Step(kind, acc, x) = acc \o FoundIn(x, lower, upper, minTouches)
    <3> HIDE DEF Is, it, n, places, found
    <3>1. ASSUME NEW acc, NEW x PROVE Step(kind, acc, x) = acc \o FoundIn(x, lower, upper, minTouches)
      BY DEF Step, FoundIn
    <3> QED BY <3>1
  <2> HIDE DEF kind, n
  <2> QED BY <2>1 DEF IsFold
<1> HIDE DEF Is, kind
<1>4. \E f : Is(f)
  BY <1>1, <1>3, FoldExists
<1>5. IsFold(kind, << >>, s, n, it)
  BY <1>3, <1>4
<1> HIDE DEF it
<1> QED BY <1>2, <1>5 DEF kind

LEMMA GapFillsAre ==
  ASSUME NEW lower, NEW upper, NEW s \in Seq(Seq(Candidates)), NEW minTouches, NEW clearance,
         NEW spacing
  PROVE  LET t == GapFills(lower, upper, s, minTouches, clearance, spacing)
         IN  /\ t \in Seq(Between(lower, upper))
             /\ \A z \in Elems(t) : ClearsBoth(z, lower, upper, clearance, spacing)
<1> DEFINE T == Between(lower, upper)
           S == Seq(T)
           n == Len(s)
           kind == <<"found", lower, upper, minTouches>>
           t == GapFills(lower, upper, s, minTouches, clearance, spacing)
<1>1. n \in Nat /\ n <= n /\ \A k \in 1 .. n : s[k] \in Seq(Candidates)
  OBVIOUS
<1>2. PICK f, places :
        /\ IsFold(kind, << >>, s, n, f)
        /\ places = {k \in DOMAIN f[1 .. n] : ClearsBoth(f[1 .. n][k], lower, upper, clearance, spacing)}
        /\ t \in {<< >>, Pick(f[1 .. n], places)}
  BY FoundFold
<1> HIDE DEF n, t
<1>3. ASSUME NEW acc \in S, NEW k \in 1 .. n PROVE Step(kind, acc, s[k]) \in S
  <2> DEFINE x == s[k]
             more == FoundIn(x, lower, upper, minTouches)
  <2>1. x \in Seq(Candidates)
    BY <1>1
  <2> HIDE DEF x
  <2>2. Step(kind, acc, x) = acc \o more
    BY DEF Step, FoundIn
  <2>3. more \in Seq(T)
    BY <2>1, FoundInTyped
  <2> HIDE DEF kind, more, T
  <2>4. Step(kind, acc, x) \in S
    BY <2>2, <2>3
  <2> QED BY <2>4 DEF x
<1>4. << >> \in S
  OBVIOUS
<1> HIDE DEF S, kind
<1>5. f[1 .. n] \in S
  BY <1>1, <1>2, <1>3, <1>4, FoldInvariant
<1> DEFINE all == f[1 .. n]
<1>6. all \in Seq(T)
  BY <1>5 DEF S
<1> HIDE DEF all, T
<1>7. CASE t = << >>
  <2>1. Elems(<< >>) = {} /\ << >> \in Seq(T)
    BY DEF Elems
  <2> QED BY <1>7, <2>1 DEF T, t
<1>8. CASE t = Pick(all, places)
  <2>1. t \in Seq(T) /\ \A i \in DOMAIN t : \E k \in DOMAIN all : k \in places /\ t[i] = all[k]
    BY <1>6, <1>8, PickTyped
  <2>2. \A k \in places : ClearsBoth(all[k], lower, upper, clearance, spacing)
    BY <1>2 DEF all
  <2>3. \A i \in DOMAIN t : ClearsBoth(t[i], lower, upper, clearance, spacing)
    BY <2>1, <2>2
  <2>4. \A z \in Elems(t) : ClearsBoth(z, lower, upper, clearance, spacing)
    BY <2>3 DEF Elems
  <2> QED BY <2>1, <2>4 DEF T, t
<1> QED BY <1>2, <1>7, <1>8 DEF all

\* A gap gets one stair at most.
StairOrNone(lower, upper) == {<< >>} \union {<<z>> : z \in Stairs(lower, upper)}

LEMMA GapFillIs ==
  ASSUME NEW lower, NEW upper, NEW s \in Seq(Seq(Candidates)), NEW p
  PROVE  GapFill(lower, upper, s, p) \in StairOrNone(lower, upper)
<1> DEFINE regular == GapFills(lower, upper, s, MinTouches, MinGap, Spacing)
           more == Max({MinTouches, FillMinTouches})
           found == GapFills(lower, upper, s, more, FillClearance, FillSpacing)
           near == IF PriceState(lower, p) = "resistance" THEN << >> ELSE found
           a == BestIn(regular, lower, upper)
           b == BestIn(near, lower, upper)
           t == GapFill(lower, upper, s, p)
<1> SUFFICES t = << >> \/ \E z \in Stairs(lower, upper) : t = <<z>>
  BY DEF StairOrNone
<1>1. t = IF regular # << >> THEN <<a>>
          ELSE IF near # << >> THEN <<[b EXCEPT !.near = TRUE]>>
          ELSE << >>
  BY DEF GapFill
<1>2. /\ regular \in Seq(Between(lower, upper))
      /\ \A z \in Elems(regular) : ClearsBoth(z, lower, upper, MinGap, Spacing)
  BY GapFillsAre
<1>3. /\ found \in Seq(Between(lower, upper))
      /\ \A z \in Elems(found) : ClearsBoth(z, lower, upper, FillClearance, FillSpacing)
  <2> HIDE DEF more
  <2> QED BY GapFillsAre
<1> HIDE DEF regular, found
<1>4. near # << >> => near = found
  OBVIOUS
<1> HIDE DEF near
<1>5. CASE regular # << >>
  <2>1. a \in Elems(regular) /\ a \in Between(lower, upper)
    BY <1>2, <1>5, BestInTyped
  <2>2. ClearsBoth(a, lower, upper, MinGap, Spacing)
    BY <1>2, <2>1
  <2> HIDE DEF a
  <2>3. a \in Stairs(lower, upper)
    BY <2>1, <2>2 DEF Stairs, Between, Plain
  <2> QED BY <1>1, <1>5, <2>3
<1>6. CASE regular = << >> /\ near # << >>
  <2>1. b \in Elems(found) /\ b \in Between(lower, upper)
    BY <1>3, <1>4, <1>6, BestInTyped
  <2>2. ClearsBoth(b, lower, upper, FillClearance, FillSpacing)
    BY <1>3, <2>1
  <2> HIDE DEF b
  <2> DEFINE z == [b EXCEPT !.near = TRUE]
  <2>3. b \in Plain /\ b.low > lower.high /\ b.high < upper.low
    BY <2>1 DEF Between
  <2>4. /\ z.low = b.low /\ z.high = b.high /\ z.origin = b.origin /\ z.near = TRUE
        /\ z \in Lawful /\ z.origin # "persistent_wick_floor"
    BY <2>3 DEF Plain, Lawful
  <2> HIDE DEF z
  <2>5. ClearsBoth(z, lower, upper, FillClearance, FillSpacing)
    <3>1. \A other, c, d : ShareSlotWithin(z, other, c, d) <=> ShareSlotWithin(b, other, c, d)
      BY <2>4 DEF ShareSlotWithin, Mid2
    <3> QED BY <2>2, <3>1 DEF ClearsBoth
  <2>6. z \in Stairs(lower, upper)
    BY <2>3, <2>4, <2>5 DEF Stairs
  <2> QED BY <1>1, <1>6, <2>6 DEF z
<1> QED BY <1>1, <1>5, <1>6

(***************************************************************************)
(* The fills of all gaps, and how they stand to the zones.                 *)
(***************************************************************************)
LEMMA GapsOf ==
  ASSUME NEW T, NEW zones \in Seq(T)
  PROVE  LET n == Max({0, Len(zones) - 1})
         IN  n \in Nat /\ \A k \in 1 .. n : k \in 1 .. Len(zones) /\ k + 1 \in 1 .. Len(zones)
<1> DEFINE l == Len(zones)
           D == {0, l - 1}
           m == IF l = 0 THEN 0 ELSE l - 1
<1>1. l \in Nat
  OBVIOUS
<1> HIDE DEF l
<1>2. m \in D /\ \A y \in D : m >= y
  BY <1>1
<1>3. \A x \in D : (\A y \in D : x >= y) => x = m
  BY <1>1
<1> HIDE DEF m
<1>4. Max(D) = m
  BY <1>2, <1>3 DEF Max
<1>5. m \in Nat /\ \A k \in 1 .. m : k \in 1 .. l /\ k + 1 \in 1 .. l
  BY <1>1 DEF m
<1> QED BY <1>4, <1>5 DEF l

\* The stairs of the gaps up to the n-th.
GapStairs(zones, n, s, p) ==
  {z \in Lawful : \E k \in 1 .. n : /\ z \in Stairs(zones[k], zones[k + 1])
                                    /\ GapFill(zones[k], zones[k + 1], s, p) = <<z>>}

LEMMA FillFold ==
  ASSUME NEW zones, NEW s, NEW p, NEW n \in Nat, n = Max({0, Len(zones) - 1})
  PROVE  \E f : /\ IsFold(<<"fill", zones, s, p>>, << >>, [k \in 1 .. n |-> k], n, f)
                /\ FillGaps(zones, s, p) = Distinct(zones \o f[1 .. n])
<1> DEFINE q == [k \in 1 .. n |-> k]
           kind == <<"fill", zones, s, p>>
           fill(acc, k) == acc \o GapFill(zones[k], zones[k + 1], s, p)
           Is(f) == f = [D \in SUBSET (1 .. n) |->
                           IF D = {} THEN << >> ELSE fill(f[D \ {Max(D)}], q[Max(D)])]
           it == CHOOSE f : Is(f)
<1>1. DOMAIN q = 1 .. n /\ Len(q) = n /\ q = [k \in 1 .. Max({0, Len(zones) - 1}) |-> k]
  OBVIOUS
<1>2. FillGaps(zones, s, p) = Distinct(zones \o it[1 .. n])
  <2>1. FillGaps(zones, s, p) = Distinct(zones \o FoldLeft(fill, << >>, q))
    <3> HIDE DEF q
    <3> QED BY <1>1 DEF FillGaps
  <2>2. FoldLeft(fill, << >>, q) = it[1 .. n]
    <3> HIDE DEF q
    <3> QED BY <1>1 DEF FoldLeft, MapThenFoldSet, Max
  <2> QED BY <2>1, <2>2
<1>3. \A f : IsFold(kind, << >>, q, n, f) <=> Is(f)
  <2>1. \A acc, x : Step(kind, acc, x) = fill(acc, x)
    <3> HIDE DEF it, Is, q
    <3>1. ASSUME NEW acc, NEW x PROVE Step(kind, acc, x) = fill(acc, x)
      BY DEF Step
    <3> QED BY <3>1
  <2> SUFFICES ASSUME NEW f PROVE IsFold(kind, << >>, q, n, f) <=> Is(f)
    OBVIOUS
  <2>2. IsFold(kind, << >>, q, n, f) <=>
          f = [D \in SUBSET (1 .. n) |->
                 IF D = {} THEN << >> ELSE Step(kind, f[D \ {Max(D)}], q[Max(D)])]
    <3> HIDE DEF kind, q, it, fill
    <3> QED BY DEF IsFold
  <2>3. \A D : Step(kind, f[D \ {Max(D)}], q[Max(D)]) = fill(f[D \ {Max(D)}], q[Max(D)])
    <3> HIDE DEF kind, q, it, fill
    <3> QED BY <2>1
  <2> HIDE DEF kind, q, it, fill
  <2> QED BY <2>2, <2>3
<1> HIDE DEF Is, kind, q, fill
<1>4. \E f : Is(f)
  BY <1>3, FoldExists
<1>5. IsFold(kind, << >>, q, n, it)
  BY <1>3, <1>4
<1> HIDE DEF it
<1> QED BY <1>2, <1>5 DEF kind, q

LEMMA FillsAre ==
  ASSUME NEW zones \in Seq(Far), NEW s \in Seq(Seq(Candidates)), NEW p, NEW n \in Nat,
         n = Max({0, Len(zones) - 1})
  PROVE  \E t \in Seq(GapStairs(zones, n, s, p)) :
            FillGaps(zones, s, p) = Distinct(zones \o t)
<1> DEFINE T == GapStairs(zones, n, s, p)
           S == Seq(T)
           q == [k \in 1 .. n |-> k]
           kind == <<"fill", zones, s, p>>
<1>1. PICK f : /\ IsFold(kind, << >>, q, n, f)
               /\ FillGaps(zones, s, p) = Distinct(zones \o f[1 .. n])
  BY FillFold, ZenonT(30)
<1>2. ASSUME NEW acc \in S, NEW k \in 1 .. n PROVE Step(kind, acc, q[k]) \in S
  <2> DEFINE more == GapFill(zones[k], zones[k + 1], s, p)
  <2>1. q[k] = k
    OBVIOUS
  <2>2. Step(kind, acc, k) = acc \o more
    <3> HIDE DEF q, T
    <3> QED BY DEF Step
  <2>3. more = << >> \/ \E z \in Stairs(zones[k], zones[k + 1]) : more = <<z>>
    <3>1. more \in StairOrNone(zones[k], zones[k + 1])
      <4> HIDE DEF q, T, S, kind
      <4> QED BY GapFillIs
    <3> HIDE DEF more
    <3> QED BY <3>1 DEF StairOrNone
  <2>4. \A z \in Stairs(zones[k], zones[k + 1]) : more = <<z>> => z \in T
    BY DEF GapStairs, Stairs
  <2> HIDE DEF kind, more, T, q
  <2>5. more \in Seq(T)
    <3>1. CASE more = << >>
      BY <3>1
    <3>2. CASE \E z \in Stairs(zones[k], zones[k + 1]) : more = <<z>>
      <4>1. PICK z \in Stairs(zones[k], zones[k + 1]) : more = <<z>>
        BY <3>2
      <4>2. z \in T
        BY <2>4, <4>1
      <4> QED BY <4>1, <4>2
    <3> QED BY <2>3, <3>1, <3>2
  <2>6. Step(kind, acc, k) \in S
    BY <2>2, <2>5
  <2> QED BY <2>1, <2>6
<1>3. << >> \in S /\ n <= n
  OBVIOUS
<1> HIDE DEF S, kind, q, T
<1>4. f[1 .. n] \in S
  BY <1>1, <1>2, <1>3, FoldInvariant
<1> QED BY <1>1, <1>4 DEF S, T

\* One zone is wholly below another, with room.
Clear(a, b, clearance, spacing) ==
  /\ a.high < b.low /\ b.low - a.high >= clearance
  /\ Mid2(b) - Mid2(a) >= 2 * spacing

LEMMA ClearApart ==
  ASSUME FillClearance \in Int, FillSpacing \in Int, NEW a \in Lawful, NEW b \in Lawful,
         IF a.near \/ b.near THEN Clear(a, b, FillClearance, FillSpacing)
         ELSE Clear(a, b, MinGap, Spacing)
  PROVE  /\ ~Overlap(a, b) /\ ~Overlap(b, a)
         /\ ~Crowds(a, b) /\ ~Crowds(b, a)
<1>1. /\ a.low \in Int /\ a.high \in Int /\ a.low <= a.high
      /\ b.low \in Int /\ b.high \in Int /\ b.low <= b.high
  BY DEF Lawful
<1>2. a.high < b.low
  BY DEF Clear
<1>3. a.low < b.low
  BY <1>1, <1>2
<1>4. ASSUME NEW c \in Int, NEW d \in Int, Clear(a, b, c, d)
      PROVE  ~ShareSlotWithin(a, b, c, d) /\ ~ShareSlotWithin(b, a, c, d)
  <2>1. /\ ShareSlotWithin(a, b, c, d) <=>
             (b.low - a.high < c \/ (/\ Mid2(a) - Mid2(b) < 2 * d
                                     /\ -(Mid2(a) - Mid2(b)) < 2 * d))
        /\ ShareSlotWithin(b, a, c, d) <=>
             (b.low - a.high < c \/ (/\ Mid2(b) - Mid2(a) < 2 * d
                                     /\ -(Mid2(b) - Mid2(a)) < 2 * d))
    BY <1>1, <1>3 DEF ShareSlotWithin
  <2> QED BY <2>1, <1>1, <1>4 DEF Clear, Mid2
<1>5. ~Overlap(a, b) /\ ~Overlap(b, a)
  BY <1>1, <1>2 DEF Overlap
<1>6. ~Crowds(a, b) /\ ~Crowds(b, a)
  <2>1. MinGap \in Int /\ Spacing \in Int
    BY DEF MinGap, Spacing
  <2> QED BY <1>4, <2>1 DEF Crowds, ShareLadderSlot
<1> QED BY <1>5, <1>6

Room(near, a, b) ==
  IF near THEN Clear(a, b, FillClearance, FillSpacing) ELSE Clear(a, b, MinGap, Spacing)

LEMMA LawfulFields ==
  ASSUME NEW z \in Lawful
  PROVE  z.low \in Int /\ z.high \in Int /\ z.low <= z.high
BY DEF Lawful

\* Room to a zone is room to those beyond it.
LEMMA RoomBeyond ==
  ASSUME FillClearance \in Int, FillSpacing \in Int, NEW near, NEW a \in Lawful, NEW b \in Lawful,
         Room(near, a, b), NEW z \in Lawful
  PROVE  /\ z.low <= a.low /\ z.high <= a.high => Room(near, z, b)
         /\ z.low >= b.low /\ z.high >= b.high => Room(near, a, z)
<1>1. ASSUME NEW c \in Int, NEW d \in Int, Clear(a, b, c, d)
      PROVE  /\ z.low <= a.low /\ z.high <= a.high => Clear(z, b, c, d)
             /\ z.low >= b.low /\ z.high >= b.high => Clear(a, z, c, d)
  <2>1. /\ a.low \in Int /\ a.high \in Int /\ b.low \in Int /\ b.high \in Int
        /\ z.low \in Int /\ z.high \in Int
    BY LawfulFields
  <2> QED BY <1>1, <2>1 DEF Clear, Mid2
<1>2. MinGap \in Int /\ Spacing \in Int
  BY DEF MinGap, Spacing
<1> QED BY <1>1, <1>2 DEF Room

LEMMA StairRoom ==
  ASSUME FillClearance \in Int, FillSpacing \in Int, NEW lower \in Far, NEW upper \in Far,
         NEW f \in Stairs(lower, upper)
  PROVE  Room(f.near, lower, f) /\ Room(f.near, f, upper) /\ f \in Lawful
<1>1. /\ f \in Lawful /\ f.low > lower.high /\ f.high < upper.low
      /\ IF f.near THEN ClearsBoth(f, lower, upper, FillClearance, FillSpacing)
         ELSE ClearsBoth(f, lower, upper, MinGap, Spacing)
  BY DEF Stairs
<1>2. /\ f.low \in Int /\ f.high \in Int /\ f.low <= f.high
      /\ lower.low \in Int /\ lower.high \in Int /\ lower.low <= lower.high
      /\ upper.low \in Int /\ upper.high \in Int /\ upper.low <= upper.high
  BY <1>1, LawfulFields, FarFields
<1>3. ASSUME NEW c \in Int, NEW d \in Int, ClearsBoth(f, lower, upper, c, d)
      PROVE  Clear(lower, f, c, d) /\ Clear(f, upper, c, d)
  <2>1. ~ShareSlotWithin(f, lower, c, d) /\ ~ShareSlotWithin(f, upper, c, d)
    BY <1>3 DEF ClearsBoth
  <2>2. ShareSlotWithin(f, lower, c, d) <=>
          \/ f.low - lower.high < c
          \/ /\ Mid2(f) - Mid2(lower) < 2 * d
             /\ -(Mid2(f) - Mid2(lower)) < 2 * d
    BY <1>1, <1>2 DEF ShareSlotWithin
  <2>3. ShareSlotWithin(f, upper, c, d) <=>
          \/ upper.low - f.high < c
          \/ /\ Mid2(f) - Mid2(upper) < 2 * d
             /\ -(Mid2(f) - Mid2(upper)) < 2 * d
    BY <1>1, <1>2 DEF ShareSlotWithin
  <2>4. Clear(lower, f, c, d)
    BY <1>1, <1>2, <2>1, <2>2 DEF Clear, Mid2
  <2>5. Clear(f, upper, c, d)
    BY <1>1, <1>2, <2>1, <2>3 DEF Clear, Mid2
  <2> QED BY <2>4, <2>5
<1>4. MinGap \in Int /\ Spacing \in Int
  BY DEF MinGap, Spacing
<1> QED BY <1>1, <1>3, <1>4 DEF Room

\* Of two zones apart the one that starts lower ends below the other.
LEMMA ApartBelow ==
  ASSUME NEW a \in Far, NEW b \in Far, a.low <= b.low, a = b \/ ~ShareLadderSlot(a, b)
  PROVE  a.high <= b.high /\ (a # b => a.high < b.low)
<1>1. /\ a.low \in Int /\ a.high \in Int /\ a.low <= a.high
      /\ b.low \in Int /\ b.high \in Int /\ b.low <= b.high
  BY FarFields
<1>2. CASE a = b
  BY <1>1, <1>2
<1>3. CASE ~ShareLadderSlot(a, b)
  <2>1. ~(b.low - a.high < MinGap)
    BY <1>3 DEF ShareLadderSlot, ShareSlotWithin
  <2> QED BY <1>1, <2>1 DEF MinGap
<1> QED BY <1>2, <1>3

\* A zone below the lower side of a gap, or that side, and a stair in the gap; and
\* so above it.
LEMMA StairAndZone ==
  ASSUME FillClearance \in Int, FillSpacing \in Int, NEW lower \in Far, NEW upper \in Far,
         NEW f \in Stairs(lower, upper), NEW z \in Far
  PROVE  /\ z.low <= lower.low /\ (z = lower \/ ~ShareLadderSlot(z, lower)) => Room(f.near, z, f)
         /\ upper.low <= z.low /\ (upper = z \/ ~ShareLadderSlot(upper, z)) => Room(f.near, f, z)
<1>1. Room(f.near, lower, f) /\ Room(f.near, f, upper) /\ f \in Lawful
  BY StairRoom
<1>2. lower \in Lawful /\ upper \in Lawful /\ z \in Lawful
  BY FarFields
<1>3. ASSUME z.low <= lower.low, z = lower \/ ~ShareLadderSlot(z, lower) PROVE Room(f.near, z, f)
  <2>1. z.high <= lower.high
    BY <1>3, ApartBelow
  <2> QED BY <1>1, <1>2, <1>3, <2>1, RoomBeyond
<1>4. ASSUME upper.low <= z.low, upper = z \/ ~ShareLadderSlot(upper, z) PROVE Room(f.near, f, z)
  <2>1. upper.high <= z.high /\ z.low >= upper.low /\ z.high >= upper.high
    <3>1. upper.high <= z.high
      BY <1>4, ApartBelow
    <3> QED BY <1>4, <3>1, FarFields
  <2> QED BY <1>1, <1>2, <2>1, RoomBeyond
<1> QED BY <1>3, <1>4

\* The stairs of two gaps.
LEMMA StairAndStair ==
  ASSUME FillClearance \in Int, FillSpacing \in Int,
         NEW a \in Far, NEW b \in Far, NEW f \in Stairs(a, b),
         NEW c \in Far, NEW d \in Far, NEW g \in Stairs(c, d),
         b.low <= c.low, b = c \/ ~ShareLadderSlot(b, c)
  PROVE  Room(f.near \/ g.near, f, g)
<1>1. Room(f.near, f, b) /\ f \in Lawful /\ Room(g.near, c, g) /\ g \in Lawful
  BY StairRoom
<1>2. f.high < b.low /\ g.low > c.high
  BY DEF Stairs
<1>3. /\ f.low \in Int /\ f.high \in Int /\ f.low <= f.high
      /\ g.low \in Int /\ g.high \in Int /\ g.low <= g.high
      /\ b.low \in Int /\ b.high \in Int /\ b.low <= b.high
      /\ c.low \in Int /\ c.high \in Int /\ c.low <= c.high
      /\ b \in Lawful /\ c \in Lawful
  BY <1>1, LawfulFields, FarFields
<1>4. b.high <= c.high
  BY ApartBelow
<1>5. g.low >= b.low /\ g.high >= b.high /\ f.low <= c.low /\ f.high <= c.high
  BY <1>2, <1>3, <1>4
<1>6. Room(f.near, f, g) /\ Room(g.near, f, g)
  BY <1>1, <1>3, <1>5, RoomBeyond
<1> QED BY <1>6 DEF Room

LEMMA RoomApart ==
  ASSUME FillClearance \in Int, FillSpacing \in Int, NEW a \in Lawful, NEW b \in Lawful,
         Room(a.near \/ b.near, a, b)
  PROVE  /\ ~Overlap(a, b) /\ ~Overlap(b, a)
         /\ ~Crowds(a, b) /\ ~Crowds(b, a)
BY ClearApart DEF Room

\* Two zones neither of which is in the way of the other.
Separate(y, z) == ~Overlap(y, z) /\ ~Crowds(z, y)

\* Such zones are apart as the tracks expect it.
LEMMA SeparateApart ==
  ASSUME NEW y \in Lawful, NEW z \in Lawful, Separate(y, z)
  PROVE  Apart(BandOf(y), BandOf(z))
<1>1. /\ y.low \in Int /\ y.high \in Int /\ y.low <= y.high
      /\ z.low \in Int /\ z.high \in Int /\ z.low <= z.high
  BY LawfulFields
<1> DEFINE a == BandOf(y)
           b == BandOf(z)
<1>2. a.low = y.low /\ a.high = y.high /\ b.low = z.low /\ b.high = z.high
  BY DEF BandOf
<1> HIDE DEF a, b
<1>3. PICK c \in Int, d \in Int : /\ ~ShareSlotWithin(z, y, c, d)
                                 /\ (LadderEdge = 1 \/ LadderEdge <= c) /\ LadderMid <= d
  <2>1. ~Crowds(z, y)
    BY DEF Separate
  <2>2. MinGap \in Int /\ Spacing \in Int
    BY DEF MinGap, Spacing
  <2> QED BY <2>1, <2>2, StepAssumption, KnobAssumption DEF Crowds, ShareLadderSlot
<1>4. LadderEdge \in Int /\ LadderMid \in Int
  BY GapAssumption
<1>5. y.high < z.low \/ z.high < y.low
  BY <1>1 DEF Separate, Overlap
<1>6. ASSUME y.high < z.low PROVE Gap(a, b) >= LadderEdge
  <2>1. y.low < z.low
    BY <1>1, <1>6
  <2>2. z.low - y.high >= c
    BY <1>1, <1>3, <2>1 DEF ShareSlotWithin
  <2>3. Gap(a, b) = z.low - y.high
    BY <1>1, <1>2, <2>1 DEF Gap
  <2> QED BY <1>1, <1>3, <1>4, <1>6, <2>2, <2>3
<1>7. ASSUME z.high < y.low PROVE Gap(a, b) >= LadderEdge
  <2>1. z.low < y.low
    BY <1>1, <1>7
  <2>2. y.low - z.high >= c
    BY <1>1, <1>3, <2>1 DEF ShareSlotWithin
  <2>3. Gap(a, b) = y.low - z.high
    BY <1>1, <1>2, <2>1 DEF Gap
  <2> QED BY <1>1, <1>3, <1>4, <1>7, <2>2, <2>3
<1>8. Distance(a, b) >= 2 * LadderMid
  <2>1. Mid2(z) - Mid2(y) >= 2 * d \/ -(Mid2(z) - Mid2(y)) >= 2 * d
    BY <1>1, <1>3 DEF ShareSlotWithin, Mid2
  <2>2. TwiceMid(a) = Mid2(y) /\ TwiceMid(b) = Mid2(z) /\ Mid2(y) \in Int /\ Mid2(z) \in Int
    BY <1>1, <1>2 DEF TwiceMid, Mid2
  <2> QED BY <1>3, <1>4, <2>1, <2>2 DEF Distance
<1> QED BY <1>5, <1>6, <1>7, <1>8 DEF Apart, a, b

LEMMA AllSeparate ==
  ASSUME FillClearance \in Int, FillSpacing \in Int, NEW ev, NEW w, Spaced(ev, w), NEW s, NEW p,
         NEW n \in Nat, \A k \in 1 .. n : k \in 1 .. Len(w) /\ k + 1 \in 1 .. Len(w)
  PROVE  \A y, z \in Elems(w) \union GapStairs(w, n, s, p) : y # z => Separate(y, z)
<1> DEFINE G == GapStairs(w, n, s, p)
<1>1. /\ w \in Seq(Far) /\ DOMAIN w = 1 .. Len(w) /\ Len(w) \in Nat
      /\ \A k \in 1 .. Len(w) : w[k] \in Far /\ w[k] \in Elems(w) /\ w[k].low \in Int
      /\ \A j, k \in 1 .. Len(w) : j < k => w[j].low <= w[k].low
      /\ \A y, z \in Elems(w) : y # z => ~ShareLadderSlot(z, y)
  <2>1. w \in Seq(Far)
    BY DEF Spaced
  <2>2. \A k \in 1 .. Len(w) : w[k] \in Far /\ w[k] \in Elems(w)
    BY <2>1 DEF Elems
  <2>3. \A k \in 1 .. Len(w) : w[k].low \in Int
    BY <2>2, FarFields
  <2>4. /\ \A j, k \in 1 .. Len(w) : j < k => w[j].low <= w[k].low
        /\ \A y, z \in Elems(w) : y # z => ~ShareLadderSlot(z, y)
    BY DEF Spaced
  <2>5. DOMAIN w = 1 .. Len(w) /\ Len(w) \in Nat
    BY <2>1
  <2> QED BY <2>1, <2>2, <2>3, <2>4, <2>5
<1>2. \A z \in G : z \in Lawful /\ \E k \in 1 .. n : /\ z \in Stairs(w[k], w[k + 1])
                                                     /\ GapFill(w[k], w[k + 1], s, p) = <<z>>
  BY DEF GapStairs
<1> HIDE DEF G
<1>3. \A i \in 1 .. Len(w), j \in 1 .. Len(w) :
        i <= j => w[i].low <= w[j].low /\ (w[i] = w[j] \/ ~ShareLadderSlot(w[i], w[j]))
  <2> SUFFICES ASSUME NEW i \in 1 .. Len(w), NEW j \in 1 .. Len(w), i <= j
               PROVE  w[i].low <= w[j].low /\ (w[i] = w[j] \/ ~ShareLadderSlot(w[i], w[j]))
    OBVIOUS
  <2>1. w[i].low <= w[j].low
    <3>1. i < j \/ i = j
      OBVIOUS
    <3> QED BY <1>1, <3>1
  <2> QED BY <1>1, <2>1
<1>4. ASSUME NEW y \in Elems(w), NEW z \in Elems(w), y # z PROVE Separate(y, z)
  <2>1. y \in Far /\ z \in Far
    BY <1>1 DEF Elems
  <2>2. ~ShareLadderSlot(z, y) /\ ~ShareLadderSlot(y, z)
    BY <1>1, <1>4
  <2>3. ~Crowds(z, y)
    BY <2>1, <2>2, FarFields DEF Crowds
  <2>4. ~Overlap(y, z)
    <3>1. y.low \in Int /\ z.low \in Int /\ y.high \in Int /\ z.high \in Int
      BY <2>1, FarFields
    <3>2. CASE y.low <= z.low
      <4>1. y.high < z.low
        BY <1>4, <2>1, <2>2, <3>2, ApartBelow
      <4> QED BY <3>1, <4>1 DEF Overlap
    <3>3. CASE z.low <= y.low
      <4>1. z.high < y.low
        BY <1>4, <2>1, <2>2, <3>3, ApartBelow
      <4> QED BY <3>1, <4>1 DEF Overlap
    <3> QED BY <3>1, <3>2, <3>3
  <2> QED BY <2>3, <2>4 DEF Separate
<1>5. ASSUME NEW y \in Elems(w), NEW f \in G PROVE Separate(y, f) /\ Separate(f, y)
  <2>1. PICK i \in 1 .. Len(w) : y = w[i]
    BY <1>1 DEF Elems
  <2>2. PICK k \in 1 .. n : f \in Stairs(w[k], w[k + 1])
    BY <1>2
  <2>3. k \in 1 .. Len(w) /\ k + 1 \in 1 .. Len(w) /\ f \in Lawful /\ y \in Lawful /\ y.near = FALSE
    BY <1>1, <1>2, <2>1, FarFields
  <2>4. CASE i <= k
    <3>1. Room(f.near, y, f)
      BY <1>1, <1>3, <2>1, <2>2, <2>3, <2>4, StairAndZone
    <3>2. Room(y.near \/ f.near, y, f)
      BY <2>3, <3>1 DEF Room
    <3> QED BY <2>3, <3>2, RoomApart DEF Separate
  <2>5. CASE k + 1 <= i
    <3>1. Room(f.near, f, y)
      BY <1>1, <1>3, <2>1, <2>2, <2>3, <2>5, StairAndZone
    <3>2. Room(f.near \/ y.near, f, y)
      BY <2>3, <3>1 DEF Room
    <3> QED BY <2>3, <3>2, RoomApart DEF Separate
  <2> QED BY <2>4, <2>5
<1>6. ASSUME NEW j \in 1 .. n, NEW k \in 1 .. n, j < k,
             NEW f \in Stairs(w[j], w[j + 1]), NEW g \in Stairs(w[k], w[k + 1])
      PROVE  Separate(f, g) /\ Separate(g, f)
  <2>1. j + 1 <= k /\ j + 1 \in 1 .. Len(w) /\ k \in 1 .. Len(w) /\ j \in 1 .. Len(w) /\ k + 1 \in 1 .. Len(w)
    BY <1>6
  <2>2. w[j + 1].low <= w[k].low /\ (w[j + 1] = w[k] \/ ~ShareLadderSlot(w[j + 1], w[k]))
    BY <1>3, <2>1
  <2>3. w[j] \in Far /\ w[j + 1] \in Far /\ w[k] \in Far /\ w[k + 1] \in Far
    BY <1>1, <2>1
  <2>4. f \in Lawful /\ g \in Lawful
    BY DEF Stairs
  <2>5. Room(f.near \/ g.near, f, g)
    BY <2>2, <2>3, StairAndStair
  <2> QED BY <2>4, <2>5, RoomApart DEF Separate
<1>7. ASSUME NEW f \in G, NEW g \in G, f # g PROVE Separate(f, g)
  <2>1. PICK j \in 1 .. n : f \in Stairs(w[j], w[j + 1]) /\ GapFill(w[j], w[j + 1], s, p) = <<f>>
    BY <1>2
  <2>2. PICK k \in 1 .. n : g \in Stairs(w[k], w[k + 1]) /\ GapFill(w[k], w[k + 1], s, p) = <<g>>
    BY <1>2
  <2>3. j # k
    BY <1>7, <2>1, <2>2
  <2> QED BY <1>6, <2>1, <2>2, <2>3
<1> QED BY <1>4, <1>5, <1>7 DEF G

LEMMA FilledLadderIs ==
  ASSUME FillClearance \in Int, FillSpacing \in Int, NEW ev \in Evidence, NEW w, Spaced(ev, w), NEW p
  PROVE  LET l == FilledLadder(w, ev, p)
         IN  /\ ToSet(w) = Elems(w) /\ ToSet(l) = Elems(l)
             /\ Elems(w) \subseteq Elems(l)
             /\ \A z \in Elems(l) : IsPersistent(z) => z \in Elems(w)
             /\ l \in Seq(Lawful)
             /\ \A y, z \in Elems(l) : BandOf(y) # BandOf(z) => Apart(BandOf(y), BandOf(z))
<1> DEFINE s == PivotSets(ev)
           n == Max({0, Len(w) - 1})
           G == GapStairs(w, n, s, p)
           gaps == FillGaps(w, s, p)
           filled == EnforceSpacing(gaps)
           l == FilledLadder(w, ev, p)
<1>1. w \in Seq(Far)
  BY DEF Spaced
<1>2. s \in Seq(Seq(Candidates))
  <2> DEFINE a == ReclaimedHighs(ev.raw)
             b == ReclaimedHighs(ev.internal)
             T == Seq(Candidates)
  <2>1. s = <<a, b>> /\ a \in T /\ b \in T
    BY PivotSetsTyped
  <2> HIDE DEF a, b, T, s
  <2>2. s \in Seq(T)
    BY <2>1
  <2> QED BY <2>2 DEF T
<1>3. n \in Nat /\ \A k \in 1 .. n : k \in 1 .. Len(w) /\ k + 1 \in 1 .. Len(w)
  BY <1>1, GapsOf
<1>4. l = [k \in DOMAIN filled |-> [filled[k] EXCEPT !.near = FALSE]]
  BY DEF FilledLadder
<1> HIDE DEF s, l
<1>5. PICK t \in Seq(G) : gaps = Distinct(w \o t)
  <2> DEFINE m == n
  <2>1. m \in Nat /\ m = Max({0, Len(w) - 1})
    BY <1>3
  <2> HIDE DEF m
  <2>2. \E t \in Seq(GapStairs(w, m, s, p)) : gaps = Distinct(w \o t)
    BY <1>1, <1>2, <2>1, FillsAre
  <2> QED BY <2>2 DEF m
<1>6. \A y, z \in Elems(w) \union G : y # z => Separate(y, z)
  <2> HIDE DEF n
  <2> QED BY <1>3, AllSeparate
<1>7. G \subseteq Lawful /\ \A z \in G : z.origin # "persistent_wick_floor"
  BY DEF GapStairs, Stairs
<1> HIDE DEF n, G
<1> DEFINE E == Elems(w) \union G
           u == w \o t
<1>8. u \in Seq(E) /\ Elems(u) = Elems(w) \union Elems(t) /\ Elems(t) \subseteq G
  <2>1. w \in Seq(Elems(w))
    BY <1>1, ListElems
  <2>2. Elems(u) = Elems(w) \union Elems(t)
    BY <1>1, <1>5, ElemsJoined
  <2>3. \A k \in DOMAIN t : t[k] \in G
    BY <1>5
  <2>4. w \in Seq(E) /\ t \in Seq(E)
    BY <1>5, <2>1
  <2>5. u \in Seq(E)
    <3> HIDE DEF E
    <3> QED BY <2>4
  <2> QED BY <2>2, <2>3, <2>5 DEF Elems
<1> HIDE DEF u
<1>9. \A y, z \in Elems(u) : y # z => Separate(y, z)
  BY <1>6, <1>8
<1> HIDE DEF E
<1>10. gaps = Distinct(u)
  BY <1>5 DEF u
<1> HIDE DEF gaps
<1>11. Elems(gaps) = Elems(u) /\ gaps \in Seq(E)
  <2>1. Elems(gaps) \subseteq Elems(u) /\ gaps \in Seq(E)
    BY <1>8, <1>10, DistinctElems, DistinctTyped
  <2>2. ASSUME NEW z \in Elems(u) PROVE z \in Elems(gaps)
    <3>1. \A y \in Elems(u) : y # z => ~Overlap(y, z)
      BY <1>9 DEF Separate
    <3> QED BY <1>8, <1>10, <3>1, DistinctElems
  <2> QED BY <2>1, <2>2
<1>12. Elems(filled) = Elems(u) /\ filled \in Seq(E)
  <2>1. \A y, z \in Elems(gaps) : y # z => ~Crowds(z, y)
    BY <1>9, <1>11 DEF Separate
  <2> QED BY <1>11, <2>1, SpacingKeepsClear
<1> HIDE DEF filled
<1>13. DOMAIN l = DOMAIN filled /\ \A k \in DOMAIN filled : l[k] = [filled[k] EXCEPT !.near = FALSE]
  BY <1>4
<1>14. \A z \in Elems(w) : [z EXCEPT !.near = FALSE] = z
  <2> SUFFICES ASSUME NEW z \in Elems(w) PROVE [z EXCEPT !.near = FALSE] = z
    OBVIOUS
  <2>1. z \in Far
    BY <1>1 DEF Elems
  <2>2. z.near = FALSE /\ z \in Lawful
    BY <2>1, FarFields
  <2> QED BY <2>2 DEF Lawful
<1>15. Elems(w) \subseteq Elems(l)
  <2> SUFFICES ASSUME NEW z \in Elems(w) PROVE z \in Elems(l)
    OBVIOUS
  <2>1. z \in Elems(filled)
    BY <1>8, <1>12
  <2>2. PICK k \in DOMAIN filled : z = filled[k]
    BY <2>1 DEF Elems
  <2>3. l[k] = z
    BY <1>13, <1>14, <2>2
  <2> QED BY <1>13, <2>3 DEF Elems
<1>16. ASSUME NEW z \in Elems(l), IsPersistent(z) PROVE z \in Elems(w)
  <2>1. PICK k \in DOMAIN filled : z = [filled[k] EXCEPT !.near = FALSE]
    BY <1>13 DEF Elems
  <2> DEFINE x == filled[k]
  <2>2. x \in Elems(filled)
    BY DEF Elems
  <2>3. x \in Elems(w) \/ x \in G
    BY <1>8, <1>12, <2>2
  <2> HIDE DEF x
  <2>4. CASE x \in Elems(w)
    BY <1>14, <2>1, <2>4 DEF x
  <2>5. CASE x \in G
    <3>1. x \in Lawful /\ x.origin # "persistent_wick_floor"
      BY <1>7, <2>5
    <3>2. [x EXCEPT !.near = FALSE].origin = x.origin
      BY <3>1 DEF Lawful
    <3> QED BY <1>16, <2>1, <3>1, <3>2 DEF x, IsPersistent
  <2> QED BY <2>3, <2>4, <2>5
<1>17. ToSet(w) = Elems(w) /\ ToSet(l) = Elems(l)
  BY DEF ToSet, Elems
<1>18. \A k \in DOMAIN filled : filled[k] \in Lawful /\ filled[k] \in Elems(u)
  <2>1. E \subseteq Lawful
    <3>1. Elems(w) \subseteq Lawful
      <4>1. \A k \in DOMAIN w : w[k] \in Far
        BY <1>1
      <4> QED BY <4>1, FarFields DEF Elems
    <3> QED BY <1>7, <3>1 DEF E
  <2>2. \A k \in DOMAIN filled : filled[k] \in Elems(filled)
    BY DEF Elems
  <2>3. \A k \in DOMAIN filled : filled[k] \in E
    BY <1>12
  <2> QED BY <1>12, <2>1, <2>2, <2>3, Zenon
<1>19. \A k \in DOMAIN filled : l[k] \in Lawful /\ BandOf(l[k]) = BandOf(filled[k])
  <2> SUFFICES ASSUME NEW k \in DOMAIN filled
               PROVE  l[k] \in Lawful /\ BandOf(l[k]) = BandOf(filled[k])
    OBVIOUS
  <2> DEFINE z == filled[k]
             y == [z EXCEPT !.near = FALSE]
  <2>1. z \in Lawful /\ l[k] = y
    BY <1>13, <1>18
  <2> HIDE DEF z
  <2>2. y.low = z.low /\ y.high = z.high /\ y.origin = z.origin /\ y.style = z.style
    BY <2>1 DEF Lawful
  <2>3. y \in Lawful
    BY <2>1 DEF Lawful
  <2>4. BandOf(y) = BandOf(z)
    BY <2>2 DEF BandOf, Family
  <2> QED BY <2>1, <2>3, <2>4 DEF z
<1>20. l \in Seq(Lawful)
  <2>1. DOMAIN filled = 1 .. Len(filled) /\ Len(filled) \in Nat
    BY <1>12
  <2>2. \E g : l = [k \in 1 .. Len(filled) |-> g[k]]
    BY <1>4, <1>13, <2>1
  <2> QED BY <1>13, <1>19, <2>1, <2>2
<1>21. \A y, z \in Elems(l) : BandOf(y) # BandOf(z) => Apart(BandOf(y), BandOf(z))
  <2> SUFFICES ASSUME NEW j \in DOMAIN filled, NEW k \in DOMAIN filled, BandOf(l[j]) # BandOf(l[k])
               PROVE  Apart(BandOf(l[j]), BandOf(l[k]))
    BY <1>13 DEF Elems
  <2>1. BandOf(l[j]) = BandOf(filled[j]) /\ BandOf(l[k]) = BandOf(filled[k])
    BY <1>19
  <2>2. Separate(filled[j], filled[k])
    BY <1>9, <1>18, <2>1
  <2> QED BY <1>18, <2>1, <2>2, SeparateApart
<1> QED BY <1>15, <1>16, <1>17, <1>20, <1>21 DEF l

(***************************************************************************)
(* The fills, and the floors from one bar to the next.                     *)
(***************************************************************************)
LEMMA KnownSpaced ==
  ASSUME Known
  PROVE  /\ Spaced(evidence, spaced)
         /\ ToSet(spaced) = Elems(spaced) /\ ToSet(ladder) = Elems(ladder)
         /\ Elems(spaced) \subseteq Elems(ladder)
         /\ \A z \in Elems(ladder) : IsPersistent(z) => z \in Elems(spaced)
         /\ ladder \in Seq(Lawful)
         /\ \A y, z \in Elems(ladder) : BandOf(y) # BandOf(z) => Apart(BandOf(y), BandOf(z))
<1>1. /\ bars \in Nat /\ EvidenceUpTo(evidence, bars)
      /\ spaced = SpacedLadder(evidence, bars, price)
      /\ ladder = FilledLadder(spaced, evidence, price)
  BY DEF Known
<1>2. Spaced(evidence, spaced)
  BY <1>1, SpacedLadderIs
<1>3. FillClearance \in Int /\ FillSpacing \in Int
  BY KnobAssumption
<1>4. evidence \in Evidence
  BY <1>1 DEF EvidenceUpTo
<1> QED BY <1>1, <1>2, <1>3, <1>4, FilledLadderIs

\* FillsDisplaceNothing for all evidence and knobs: filling the gaps of the ladder and
\* spacing it again (_fill_persistent_wick_floor_gaps, _enforce_support_zone_spacing)
\* takes away no zone that the first spacing had kept.
THEOREM FillsDisplaceNothingAlways ==
  LadderSpec => []FillsDisplaceNothing
<1>1. Known => FillsDisplaceNothing
  <2> SUFFICES ASSUME Known PROVE FillsDisplaceNothing
    OBVIOUS
  <2>1. /\ ToSet(spaced) = Elems(spaced) /\ ToSet(ladder) = Elems(ladder)
        /\ Elems(spaced) \subseteq Elems(ladder)
    BY KnownSpaced
  <2> QED BY <2>1 DEF FillsDisplaceNothing
<1>2. LadderSpec => []Known
  BY LadderKnown
<1> QED BY <1>1, <1>2, PTL

\* A bar changes no low, and the pivot it may print is the youngest.
LEMMA FloorsGrow ==
  ASSUME NEW raw \in Seq(Pivots), NEW n \in Nat, Dated(raw, n), NEW close, NEW s, NEW new,
         s = ReclaimIn(raw, n + 1, close),
         new = s \/ \E p \in Pivots : p.index = n + 1 /\ new = Append(s, p)
  PROVE  /\ FloorsOf(raw) \subseteq FloorsOf(new)
         /\ \A z \in FloorsOf(new) : z \in FloorsOf(raw) \/ Age(z) = n + 1
<1> DEFINE m == n + 1
<1>1. /\ s \in Seq(Pivots) /\ DOMAIN s = DOMAIN raw
      /\ \A k \in DOMAIN raw : \/ s[k] = raw[k]
                               \/ raw[k].kind = "high" /\ s[k] = [raw[k] EXCEPT !.reclaim = m]
  <2>1. m \in Nat
    OBVIOUS
  <2>2. s = ReclaimIn(raw, m, close)
    OBVIOUS
  <2> HIDE DEF m
  <2> QED BY <2>1, <2>2, ReclaimTyped
<1> HIDE DEF m
<1>2. \A k \in DOMAIN raw : raw[k] \in Pivots
  OBVIOUS
<1>3. \A k \in DOMAIN raw : s[k] = raw[k] \/ (raw[k].kind = "high" /\ s[k].kind = "high")
  BY <1>1, <1>2 DEF Pivots
<1>4. LongWicks(s) = LongWicks(raw) /\ \A k \in LongWicks(raw) : s[k] = raw[k]
  <2>1. \A k \in LongWicks(raw) : k \in DOMAIN raw /\ s[k] = raw[k]
    BY <1>3 DEF LongWicks
  <2>2. \A k \in LongWicks(s) : k \in DOMAIN raw /\ s[k] = raw[k]
    BY <1>1, <1>3 DEF LongWicks
  <2>3. LongWicks(raw) \subseteq LongWicks(s)
    BY <1>1, <2>1 DEF LongWicks
  <2>4. LongWicks(s) \subseteq LongWicks(raw)
    BY <1>1, <2>2 DEF LongWicks
  <2> QED BY <2>1, <2>3, <2>4
<1>5. FloorsOf(s) = FloorsOf(raw)
  BY <1>4 DEF FloorsOf
<1>6. CASE new = s
  BY <1>5, <1>6
<1>7. CASE \E p \in Pivots : p.index = n + 1 /\ new = Append(s, p)
  <2>1. PICK p \in Pivots : p.index = n + 1 /\ new = Append(s, p)
    BY <1>7
  <2>2. /\ DOMAIN s = 1 .. Len(s) /\ DOMAIN new = 1 .. Len(s) + 1 /\ Len(s) \in Nat
        /\ new[Len(s) + 1] = p /\ \A k \in 1 .. Len(s) : new[k] = s[k]
    BY <1>1, <2>1
  <2>3. FloorsOf(s) \subseteq FloorsOf(new)
    <3>1. \A k \in LongWicks(s) : k \in LongWicks(new) /\ new[k] = s[k]
      BY <2>2 DEF LongWicks
    <3> QED BY <3>1 DEF FloorsOf
  <2>4. ASSUME NEW z \in FloorsOf(new) PROVE z \in FloorsOf(s) \/ Age(z) = n + 1
    <3>1. PICK k \in LongWicks(new) : z = FloorZone(new[k])
      BY DEF FloorsOf
    <3>2. k \in 1 .. Len(s) + 1
      BY <2>2 DEF LongWicks
    <3>3. CASE k \in 1 .. Len(s)
      <4>1. k \in LongWicks(s) /\ new[k] = s[k]
        BY <2>2, <3>3 DEF LongWicks
      <4> QED BY <3>1, <4>1 DEF FloorsOf
    <3>4. CASE k = Len(s) + 1
      <4>1. z = FloorZone(p)
        BY <2>2, <3>1, <3>4
      <4>2. z \in Floors /\ z.sources = {p.index}
        BY <4>1, FloorZoneTyped
      <4>3. Age(z) = p.index
        BY <4>2, FloorAge
      <4> QED BY <2>1, <4>3
    <3> QED BY <2>2, <3>2, <3>3, <3>4
  <2> QED BY <1>5, <2>3, <2>4
<1> QED BY <1>6, <1>7

LEMMA FloorsKept ==
  ASSUME Known, LadderNext
  PROVE  \A z \in ToSet(ladder) : IsPersistent(z) => z \in ToSet(ladder')
<1>1. /\ Known'
      /\ \E s : /\ s = ReclaimIn(evidence.raw, bars + 1, price')
                /\ \/ evidence'.raw = s
                   \/ \E p \in Pivots : p.index = bars + 1 /\ evidence'.raw = Append(s, p)
      /\ evidence.prominent # << >> => evidence'.prominent # << >>
  BY NextKnown
<1>2. /\ Spaced(evidence, spaced)
      /\ ToSet(spaced) = Elems(spaced) /\ ToSet(ladder) = Elems(ladder)
      /\ Elems(spaced) \subseteq Elems(ladder)
      /\ \A z \in Elems(ladder) : IsPersistent(z) => z \in Elems(spaced)
  BY KnownSpaced
<1>3. /\ Spaced(evidence', spaced')
      /\ ToSet(ladder') = Elems(ladder')
      /\ Elems(spaced') \subseteq Elems(ladder')
  <2>1. Known => /\ Spaced(evidence, spaced)
               /\ ToSet(ladder) = Elems(ladder)
                                     /\ Elems(spaced) \subseteq Elems(ladder)
    BY KnownSpaced
  <2>2. (Known => /\ Spaced(evidence, spaced)
                                      /\ ToSet(ladder) = Elems(ladder)
                                      /\ Elems(spaced) \subseteq Elems(ladder))'
    BY KnownSpaced, PTL
  <2> QED BY <1>1, <2>2
<1> DEFINE raw == evidence.raw
           new == evidence'.raw
           F == FloorsOf(raw)
           G == FloorsOf(new)
           K == OldFloors(raw)
           L == OldFloors(new)
           P == {z \in Elems(spaced) : IsPersistent(z)}
           Q == {z \in Elems(spaced') : IsPersistent(z)}
<1> SUFFICES ASSUME NEW z \in P PROVE z \in Elems(spaced')
  BY <1>2, <1>3
<1>4. CASE evidence.prominent = << >>
  <2>1. spaced = << >>
    BY <1>4 DEF Known, SpacedLadder
  <2> QED BY <2>1 DEF Elems
<1>5. CASE evidence.prominent # << >>
  <2>1. /\ raw \in Seq(Pivots) /\ Dated(raw, bars) /\ bars \in Nat
        /\ new \in Seq(Pivots) /\ Dated(new, bars') /\ bars' \in Nat
    BY <1>1 DEF Known, EvidenceUpTo, Evidence
  <2>2. F \subseteq G /\ \A y \in G : y \in F \/ Age(y) = bars + 1
    <3>1. PICK s : /\ s = ReclaimIn(raw, bars + 1, price')
                   /\ new = s \/ \E p \in Pivots : p.index = bars + 1 /\ new = Append(s, p)
      BY <1>1
    <3> HIDE DEF raw, new
    <3>2. /\ FloorsOf(raw) \subseteq FloorsOf(new)
          /\ \A y \in FloorsOf(new) : y \in FloorsOf(raw) \/ Age(y) = bars + 1
      BY <2>1, <3>1, FloorsGrow
    <3> QED BY <3>2
  <2>3. /\ F \in SUBSET Floors /\ G \in SUBSET Floors
        /\ Kernel(F, K, "overlap") /\ Kernel(G, L, "overlap")
        /\ \A y \in F : Age(y) \in 1 .. bars
    BY <2>1, FloorsByAge, OldFloorsKernel, FloorsDated
  <2>4. Kernel(K, P, "crowds") /\ Kernel(L, Q, "crowds")
    BY <1>1, <1>2, <1>3, <1>5 DEF Spaced
  <2> HIDE DEF F, G, K, L, P, Q
  <2>5. \A y \in G : \A x \in F : Age(y) < Age(x) => y \in F
    BY <2>1, <2>2, <2>3
  <2>6. K = L \intersect F
    BY <2>2, <2>3, <2>5, KernelStays
  <2>7. K \subseteq L /\ K \subseteq F /\ L \subseteq G
    BY <2>3, <2>6 DEF Kernel
  <2>8. P = Q \intersect K
    <3>1. \A y \in L : \A x \in K : Age(y) < Age(x) => y \in K
      BY <2>5, <2>6, <2>7
    <3>2. K \in SUBSET Floors /\ L \in SUBSET Floors
      BY <2>3, <2>7
    <3> QED BY <2>4, <2>7, <3>1, <3>2, KernelStays
  <2> QED BY <2>8 DEF Q
<1> QED BY <1>4, <1>5

\* PersistentFloorsStay for all evidence and knobs: no bar, whatever pivot it confirms,
\* drops or reclaims, takes a persistent floor off the ladder or moves it.
THEOREM PersistentFloorsAlwaysStay ==
  LadderSpec => PersistentFloorsStay
<1>1. Known /\ [LadderNext]_ladderVars
        => [\A z \in ToSet(ladder) : IsPersistent(z) => z \in ToSet(ladder')]_ladderVars
  BY FloorsKept
<1>2. LadderSpec => []Known
  BY LadderKnown
<1> QED BY <1>1, <1>2, PTL DEF LadderSpec, PersistentFloorsStay

(***************************************************************************)
(* THE TRACKS.                                                             *)
(***************************************************************************)

(***************************************************************************)
(* The geometry of the ladder, and its orders.                             *)
(***************************************************************************)
LEMMA Geometry ==
  ASSUME NEW a \in Band, NEW b \in Band
  PROVE  /\ a.low \in Int /\ a.high \in Int /\ a.low <= a.high /\ TwiceMid(a) \in Int
         /\ Distance(a, b) \in Int /\ Distance(a, b) >= 0
         /\ a.low = b.low => ShareSlot(a, b)
         /\ Apart(a, b) => a.low # b.low /\ TwiceMid(a) # TwiceMid(b)
<1>1. /\ a.low \in Int /\ a.high \in Int /\ a.low <= a.high
      /\ b.low \in Int /\ b.high \in Int /\ b.low <= b.high
  BY BandAssumption
<1>2. EdgeGap \in Nat \ {0} /\ LadderEdge \in Nat \ {0}
  BY GapAssumption
<1>4. a.low = b.low => Gap(a, b) < EdgeGap
  BY <1>1, <1>2 DEF Gap
<1>5. Apart(a, b) => a.low # b.low /\ TwiceMid(a) # TwiceMid(b)
  BY <1>1, <1>2 DEF Apart, Gap, TwiceMid
<1> QED BY <1>1, <1>4, <1>5 DEF TwiceMid, Distance, ShareSlot

LEMMA ScoreTypes ==
  ASSUME NEW score \in Scores, NEW b \in Band
  PROVE  score[b] \in Int
BY ScoreAssumption

LEMMA InBand ==
  ASSUME NEW snapshot \in Snapshot, NEW b \in snapshot
  PROVE  b \in Band /\ b # None
BY NoneAssumption DEF Snapshot

\* Low to high, the bands of a snapshot stand one after the other.
LEMMA LowToHighSeq ==
  ASSUME NEW snapshot \in Snapshot, NEW bands \in SUBSET snapshot
  PROVE  /\ LowToHigh(bands) \in Seq(bands)
         /\ \A b \in bands : \E k \in DOMAIN LowToHigh(bands) : LowToHigh(bands)[k] = b
<1> DEFINE R == {p \in bands \X bands : p[1].low < p[2].low}
<1>1. /\ bands \in SUBSET Band /\ IsFiniteSet(snapshot)
      /\ \A a, b \in bands : a # b => Apart(a, b)
  BY DEF Snapshot
<1>2. IsFiniteSet(bands)
  BY <1>1, FS_Subset
<1>3. \A a, b \in bands : <<a, b>> \in R <=> a.low < b.low
  OBVIOUS
<1>4. \A a \in bands : a.low \in Int
  BY <1>1, Geometry
<1>5. \A a, b \in bands : a # b => a.low # b.low
  BY <1>1, Geometry
<1> HIDE DEF R
<1>6. StrictOrder(bands, R)
  BY <1>3, <1>4 DEF StrictOrder
<1>7. Total(bands, R)
  BY <1>3, <1>4, <1>5 DEF Total
<1>8. \A k \in 1 .. Cardinality(bands) : \E x \in bands : Cardinality(Below(bands, R, x)) = k - 1
  BY <1>2, <1>6, <1>7, RanksFull
<1>9. \A x \in bands : Below(bands, R, x) = {y \in bands : y.low < x.low}
  BY <1>3 DEF Below
<1> DEFINE n == Cardinality(bands)
           at(k) == CHOOSE x \in bands : Cardinality({y \in bands : y.low < x.low}) = k - 1
<1>10. LowToHigh(bands) = [k \in 1 .. n |-> at(k)]
  BY DEF LowToHigh, InOrder
<1>11. \A k \in 1 .. n : at(k) \in bands /\ Cardinality(Below(bands, R, at(k))) = k - 1
  BY <1>8, <1>9
<1>12. n \in Nat
  BY <1>2, FS_CardinalityType
<1> DEFINE s == LowToHigh(bands)
<1> HIDE DEF at, s
<1>13. s \in Seq(bands) /\ DOMAIN s = 1 .. n /\ \A k \in 1 .. n : s[k] = at(k)
  <2>1. s = [k \in 1 .. n |-> at(k)]
    BY <1>10 DEF s
  <2> HIDE DEF n
  <2> QED BY <1>11, <1>12, <2>1
<1>14. \A b \in bands : \E k \in 1 .. n : s[k] = b
  <2>1. \A k \in 1 .. Cardinality(bands) : s[k] \in bands /\ Cardinality(Below(bands, R, s[k])) = k - 1
    BY <1>11, <1>13
  <2> QED BY <1>2, <1>6, <1>7, <2>1, RanksInPlace
<1> HIDE DEF n
<1> QED BY <1>13, <1>14 DEF s

\* Every track has one turn, and no active track waits for a pending one.
LEMMA MatchOrderSeq ==
  ASSUME NEW ts \in Seq(Track)
  PROVE  LET s == MatchOrder(ts) IN
         /\ s \in Seq(DOMAIN ts)
         /\ \A i \in DOMAIN ts : \E p \in 1 .. Len(s) : s[p] = i
         /\ \A p, q \in 1 .. Len(s) : s[p] = s[q] => p = q
         /\ \A p, q \in 1 .. Len(s) : q < p /\ ts[s[p]].active => ts[s[q]].active
<1> DEFINE first(i, j) ==
             \/ ts[i].active /\ ~ts[j].active
             \/ /\ ts[i].active = ts[j].active
                /\ \/ TwiceMid(ts[i].zone) < TwiceMid(ts[j].zone)
                   \/ TwiceMid(ts[i].zone) = TwiceMid(ts[j].zone) /\ i < j
           S == DOMAIN ts
           R == {p \in S \X S : first(p[1], p[2])}
<1>1. /\ Len(ts) \in Nat /\ S = 1 .. Len(ts) /\ \A i \in S : ts[i] \in Track
  OBVIOUS
<1>2. IsFiniteSet(S)
  <2>1. 1 \in Int /\ Len(ts) \in Int
    BY <1>1
  <2> QED BY <1>1, <2>1, FS_Interval
<1>3. \A i, j \in S : <<i, j>> \in R <=> first(i, j)
  <2> HIDE DEF first, S
  <2> QED OBVIOUS
<1>4. \A i \in S : i \in Int /\ ts[i].active \in BOOLEAN /\ TwiceMid(ts[i].zone) \in Int
  <2> SUFFICES ASSUME NEW i \in S PROVE i \in Int /\ ts[i].active \in BOOLEAN /\ TwiceMid(ts[i].zone) \in Int
    OBVIOUS
  <2>1. ts[i].active \in BOOLEAN /\ ts[i].zone \in Band
    BY <1>1 DEF Track
  <2> QED BY <1>1, <2>1, Geometry
<1> HIDE DEF R, S
<1>6. StrictOrder(S, R)
  <2>1. \A i \in S : ~first(i, i)
    BY <1>4
  <2>2. \A i, j, k \in S : first(i, j) /\ first(j, k) => first(i, k)
    BY <1>4
  <2> HIDE DEF first
  <2> QED BY <1>3, <2>1, <2>2 DEF StrictOrder
<1>7. Total(S, R)
  BY <1>3, <1>4 DEF Total
<1>8. \A k \in 1 .. Cardinality(S) : \E x \in S : Cardinality(Below(S, R, x)) = k - 1
  BY <1>2, <1>6, <1>7, RanksFull
<1>9. \A x \in S : Below(S, R, x) = {y \in S : first(y, x)}
  <2> HIDE DEF first
  <2> QED BY <1>3 DEF Below
<1> DEFINE n == Cardinality(S)
           at(k) == CHOOSE x \in S : Cardinality({y \in S : first(y, x)}) = k - 1
<1>10. MatchOrder(ts) = [k \in 1 .. n |-> at(k)]
  BY DEF MatchOrder, InOrder, S
<1>11. \A k \in 1 .. n : at(k) \in S /\ Cardinality(Below(S, R, at(k))) = k - 1
  <2> HIDE DEF first
  <2> QED BY <1>8, <1>9
<1>12. n \in Nat
  BY <1>2, FS_CardinalityType
<1> DEFINE s == MatchOrder(ts)
<1> HIDE DEF at, s
<1>13. s \in Seq(S) /\ Len(s) = n /\ \A k \in 1 .. n : s[k] = at(k)
  <2>1. s = [k \in 1 .. n |-> at(k)]
    BY <1>10 DEF s
  <2> HIDE DEF n
  <2> QED BY <1>11, <1>12, <2>1
<1>14. /\ \A i \in S : \E k \in 1 .. n : s[k] = i
       /\ \A j, k \in 1 .. n : s[j] = s[k] => j = k
       /\ \A j, k \in 1 .. n : j < k => <<s[k], s[j]>> \notin R
  <2>1. \A k \in 1 .. Cardinality(S) : s[k] \in S /\ Cardinality(Below(S, R, s[k])) = k - 1
    BY <1>11, <1>13
  <2> QED BY <1>2, <1>6, <1>7, <2>1, RanksInPlace
<1> HIDE DEF n
<1>15. \A p, q \in 1 .. n : q < p /\ ts[s[p]].active => ts[s[q]].active
  <2> SUFFICES ASSUME NEW p \in 1 .. n, NEW q \in 1 .. n, q < p, ts[s[p]].active, ~ts[s[q]].active
               PROVE  FALSE
    OBVIOUS
  <2>1. first(s[p], s[q])
    OBVIOUS
  <2>2. s[p] \in S /\ s[q] \in S
    BY <1>11, <1>13
  <2> HIDE DEF first
  <2> QED BY <1>3, <1>14, <2>1, <2>2
<1> QED BY <1>13, <1>14, <1>15 DEF s, S

\* The nearest candidate is one of them.
LEMMA NearestFits ==
  ASSUME NEW t \in Track, NEW score \in Scores,
         NEW fits, IsFiniteSet(fits), fits \subseteq Band, fits # {}
  PROVE  /\ Nearest(t, fits, score) \in fits
         /\ \A c \in fits : Distance(Nearest(t, fits, score), t.zone) <= Distance(c, t.zone)
<1> DEFINE d(b) == Distance(b, t.zone)
           before(c, b) == \/ d(c) < d(b)
                           \/ /\ d(c) = d(b)
                              /\ score[c] > score[b] \/ (score[c] = score[b] /\ c.low < b.low)
           R == {p \in fits \X fits : before(p[1], p[2])}
<1>1. \A b \in fits : d(b) \in Int /\ score[b] \in Int /\ b.low \in Int
  <2>1. t.zone \in Band
    BY DEF Track
  <2> QED BY <2>1, Geometry, ScoreTypes
<1>2. \A b, c \in fits : <<c, b>> \in R <=> before(c, b)
  OBVIOUS
<1> HIDE DEF R, d
<1>3. StrictOrder(fits, R)
  BY <1>1, <1>2 DEF StrictOrder
<1>4. PICK b \in fits : \A c \in fits : <<c, b>> \notin R
  BY <1>3, FirstExists
<1>5. \A c \in fits : \/ d(b) < d(c)
                       \/ /\ d(b) = d(c)
                          /\ score[b] > score[c] \/ (score[b] = score[c] /\ b.low <= c.low)
  <2> SUFFICES ASSUME NEW c \in fits
               PROVE  \/ d(b) < d(c)
                      \/ /\ d(b) = d(c)
                         /\ score[b] > score[c] \/ (score[b] = score[c] /\ b.low <= c.low)
    OBVIOUS
  <2>1. ~before(c, b)
    BY <1>2, <1>4
  <2> DEFINE x == score[b]
             y == score[c]
             u == d(b)
             v == d(c)
  <2>2. /\ x \in Int /\ y \in Int /\ u \in Int /\ v \in Int
        /\ b.low \in Int /\ c.low \in Int
    BY <1>1
  <2>3. ~(v < u) /\ ~(v = u /\ (y > x \/ (y = x /\ c.low < b.low)))
    BY <2>1
  <2> HIDE DEF x, y, u, v
  <2>4. u < v \/ (u = v /\ (x > y \/ (x = y /\ b.low <= c.low)))
    BY <2>2, <2>3
  <2> QED BY <2>4 DEF x, y, u, v
<1>6. /\ Nearest(t, fits, score) \in fits
      /\ LET n == Nearest(t, fits, score) IN
         \A c \in fits : \/ d(n) < d(c)
                        \/ /\ d(n) = d(c)
                           /\ score[n] > score[c] \/ (score[n] = score[c] /\ n.low <= c.low)
  BY <1>5 DEF Nearest, d
<1> DEFINE n == Nearest(t, fits, score)
<1>7. n \in fits /\ \A c \in fits : d(n) < d(c) \/ d(n) = d(c)
  BY <1>6
<1> HIDE DEF n
<1>8. \A c \in fits : d(n) <= d(c)
  BY <1>1, <1>7
<1> QED BY <1>7, <1>8 DEF d, n

\* A fold is, after k elements, where its base and its steps lead.
LEMMA FoldLeads ==
  ASSUME NEW kind, NEW base, NEW s, NEW n \in Nat, NEW f, IsFold(kind, base, s, n, f),
         NEW G, base \in G[0],
         \A k \in Nat : k + 1 <= n => \A g \in G[k] : Step(kind, g, s[k + 1]) \in G[k + 1]
  PROVE  f[1 .. n] \in G[n]
<1> DEFINE S == {k \in Nat : k <= n => f[1 .. k] \in G[k]}
<1>1. 0 \in S
  <2>1. 1 .. 0 = {} /\ f[{}] = base
    BY DEF IsFold
  <2> QED BY <2>1
<1>2. ASSUME NEW k \in Nat, k \in S PROVE k + 1 \in S
  <2> SUFFICES ASSUME k + 1 <= n PROVE f[1 .. k + 1] \in G[k + 1]
    OBVIOUS
  <2>1. f[1 .. k + 1] = Step(kind, f[1 .. k], s[k + 1])
    BY FoldUnrolls
  <2>2. f[1 .. k] \in G[k]
    BY <1>2
  <2> QED BY <2>1, <2>2
<1> HIDE DEF S
<1>3. n \in S /\ n <= n
  BY <1>1, <1>2, Induction
<1> QED BY <1>3 DEF S

\* A fold stays where its base and its steps are.
LEMMA FoldKeeps ==
  ASSUME NEW kind, NEW base, NEW s, NEW n \in Nat, NEW f, IsFold(kind, base, s, n, f),
         NEW G, base \in G, \A g \in G : \A k \in 1 .. n : Step(kind, g, s[k]) \in G
  PROVE  f[1 .. n] \in G
<1> DEFINE S == {k \in Nat : k <= n => f[1 .. k] \in G}
<1>1. 0 \in S
  <2>1. 1 .. 0 = {} /\ f[{}] = base
    BY DEF IsFold
  <2> QED BY <2>1
<1>2. ASSUME NEW k \in Nat, k \in S PROVE k + 1 \in S
  <2> SUFFICES ASSUME k + 1 <= n PROVE f[1 .. k + 1] \in G
    OBVIOUS
  <2>1. f[1 .. k + 1] = Step(kind, f[1 .. k], s[k + 1])
    BY FoldUnrolls
  <2>2. f[1 .. k] \in G /\ k + 1 \in 1 .. n
    BY <1>2
  <2> QED BY <2>1, <2>2
<1> HIDE DEF S
<1>3. n \in S /\ n <= n
  BY <1>1, <1>2, Induction
<1> QED BY <1>3 DEF S

\* A track takes a candidate of its family in its step, and only then.
Fits(t, b) == b.family = t.id.family /\ ShareSlot(t.zone, b)

LEMMA MatchesFit ==
  ASSUME NEW ts \in Seq(Track), NEW snapshot \in Snapshot, NEW score \in Scores
  PROVE  /\ Matches(ts, snapshot, score) \in [DOMAIN ts -> snapshot \union {None}]
         /\ \A i \in DOMAIN ts : LET b == Matches(ts, snapshot, score)[i] IN
              b # None => b \in snapshot /\ Fits(ts[i], b)
<1> DEFINE base == [i \in DOMAIN ts |-> None]
           kind == <<"take", ts, snapshot, score>>
           s == MatchOrder(ts)
           n == Len(s)
           Is(f) == f = [D \in SUBSET (1 .. n) |->
                           IF D = {} THEN base ELSE Take(ts, snapshot, score, f[D \ {Max(D)}], s[Max(D)])]
           it == CHOOSE f : Is(f)
           G == {m \in [DOMAIN ts -> snapshot \union {None}] :
                   \A i \in DOMAIN ts : m[i] # None => m[i] \in snapshot /\ Fits(ts[i], m[i])}
<1>1. s \in Seq(DOMAIN ts)
  BY MatchOrderSeq
<1> HIDE DEF s
<1>2. n \in Nat /\ DOMAIN s = 1 .. n /\ \A k \in 1 .. n : s[k] \in DOMAIN ts
  BY <1>1
<1>3. Matches(ts, snapshot, score) = it[1 .. n]
  BY <1>2 DEF Matches, FoldLeft, MapThenFoldSet, s
<1>4. \A f : IsFold(kind, base, s, n, f) <=> Is(f)
  BY DEF IsFold, Step
<1> HIDE DEF Is
<1>5. IsFold(kind, base, s, n, it)
  BY <1>2, <1>4, FoldExists
<1>6. base \in G
  OBVIOUS
<1>7. ASSUME NEW m \in G, NEW i \in DOMAIN ts PROVE Take(ts, snapshot, score, m, i) \in G
  <2> DEFINE fits == {b \in snapshot \ Range(m) : b.family = ts[i].id.family /\ ShareSlot(ts[i].zone, b)}
  <2> SUFFICES ASSUME fits # {} PROVE [m EXCEPT ![i] = Nearest(ts[i], fits, score)] \in G
    BY <1>7 DEF Take
  <2>1. snapshot \subseteq Band /\ IsFiniteSet(snapshot) /\ fits \in SUBSET snapshot
    BY DEF Snapshot
  <2>2. ts[i] \in Track /\ IsFiniteSet(fits) /\ fits \subseteq Band
    BY <2>1, FS_Subset
  <2>3. Nearest(ts[i], fits, score) \in fits
    <3> HIDE DEF fits
    <3> QED BY <2>2, NearestFits
  <2> DEFINE b == Nearest(ts[i], fits, score)
  <2>4. b \in snapshot /\ Fits(ts[i], b)
    BY <2>3 DEF Fits
  <2> HIDE DEF b
  <2>5. [m EXCEPT ![i] = b] \in G
    BY <1>7, <2>4
  <2> QED BY <2>5 DEF b
<1>8. \A m \in G : \A k \in 1 .. n : Step(kind, m, s[k]) \in G
  <2> HIDE DEF G
  <2>1. \A m, i : Step(kind, m, i) = Take(ts, snapshot, score, m, i)
    BY DEF Step
  <2> QED BY <1>2, <1>7, <2>1
<1> HIDE DEF kind, base, n, it, G
<1>9. it[1 .. n] \in G
  BY <1>2, <1>5, <1>6, <1>8, FoldKeeps
<1> QED BY <1>3, <1>9 DEF G

\* The candidate of track t is as near as c.
NearAs(m, t, i, c) == m[i] # None /\ Distance(m[i], t.zone) <= Distance(c, t.zone)

\* A candidate that fits a track went to one whose turn was earlier, or the
\* track took another one that was as near.
LEMMA TakenInTurn ==
  ASSUME NEW ts \in Seq(Track), NEW snapshot \in Snapshot, NEW score \in Scores
  PROVE  LET s == MatchOrder(ts)
             m == Matches(ts, snapshot, score)
         IN \A p \in 1 .. Len(s) : \A c \in snapshot :
              Fits(ts[s[p]], c) => (\E q \in 1 .. p : m[s[q]] = c) \/ NearAs(m, ts[s[p]], s[p], c)
<1> DEFINE base == [l \in DOMAIN ts |-> None]
           kind == <<"take", ts, snapshot, score>>
           s == MatchOrder(ts)
           n == Len(s)
           Is(f) == f = [D \in SUBSET (1 .. n) |->
                           IF D = {} THEN base ELSE Take(ts, snapshot, score, f[D \ {Max(D)}], s[Max(D)])]
           it == CHOOSE f : Is(f)
           Served(m, p) == \A c \in snapshot : Fits(ts[s[p]], c) =>
                             (\E q \in 1 .. p : m[s[q]] = c) \/ NearAs(m, ts[s[p]], s[p], c)
           G == [k \in Nat |-> {m \in [DOMAIN ts -> snapshot \union {None}] :
                                  /\ \A p \in 1 .. n : p > k => m[s[p]] = None
                                  /\ \A p \in 1 .. n : p <= k => Served(m, p)}]
<1>1. /\ s \in Seq(DOMAIN ts)
      /\ \A l \in DOMAIN ts : \E p \in 1 .. n : s[p] = l
      /\ \A p, q \in 1 .. n : s[p] = s[q] => p = q
      /\ \A p, q \in 1 .. n : q < p /\ ts[s[p]].active => ts[s[q]].active
  BY MatchOrderSeq
<1>0. None \notin snapshot /\ snapshot \subseteq Band /\ IsFiniteSet(snapshot)
  BY NoneAssumption DEF Snapshot
<1>s. s \in Seq(DOMAIN ts)
  BY <1>1
<1> HIDE DEF s
<1>2. n \in Nat /\ DOMAIN s = 1 .. n /\ \A k \in 1 .. n : s[k] \in DOMAIN ts
  BY <1>s
<1>3. Matches(ts, snapshot, score) = it[1 .. n]
  BY <1>2 DEF Matches, FoldLeft, MapThenFoldSet, s
<1>4. \A f : IsFold(kind, base, s, n, f) <=> Is(f)
  BY DEF IsFold, Step
<1> HIDE DEF Is
<1>5. IsFold(kind, base, s, n, it)
  BY <1>2, <1>4, FoldExists
<1> HIDE DEF n, it
<1>6. base \in G[0]
  <2>1. base \in [DOMAIN ts -> snapshot \union {None}] /\ \A p \in 1 .. n : base[s[p]] = None
    BY <1>2
  <2>2. \A p \in 1 .. n : ~(p <= 0)
    BY <1>2
  <2> HIDE DEF base, Served
  <2> QED BY <2>1, <2>2
<1>7. ASSUME NEW k \in Nat, k + 1 <= n, NEW m \in G[k] PROVE Take(ts, snapshot, score, m, s[k + 1]) \in G[k + 1]
  <2> DEFINE t == s[k + 1]
             fits == {c \in snapshot \ Range(m) : c.family = ts[t].id.family /\ ShareSlot(ts[t].zone, c)}
             c0 == Nearest(ts[t], fits, score)
             w == Take(ts, snapshot, score, m, t)
  <2>1. /\ m \in [DOMAIN ts -> snapshot \union {None}]
        /\ \A p \in 1 .. n : p > k => m[s[p]] = None
        /\ \A p \in 1 .. n : p <= k => Served(m, p)
    <3> HIDE DEF Served
    <3> QED BY <1>7
  <2>2. k + 1 \in 1 .. n /\ t \in DOMAIN ts /\ m[t] = None
    BY <1>2, <1>7, <2>1
  <2>3. w = IF fits = {} THEN m ELSE [m EXCEPT ![t] = c0]
    BY DEF Take
  <2>4. fits # {} => /\ c0 \in snapshot
                     /\ \A c \in fits : Distance(c0, ts[t].zone) <= Distance(c, ts[t].zone)
    <3>1. ts[t] \in Track /\ fits \in SUBSET snapshot
      BY <2>2
    <3>2. IsFiniteSet(fits) /\ fits \subseteq Band
      BY <1>0, <3>1, FS_Subset
    <3> HIDE DEF fits
    <3> QED BY <3>1, <3>2, NearestFits
  <2>5. \A c \in snapshot : Fits(ts[t], c) => c \in fits \/ \E q \in 1 .. k : m[s[q]] = c
    <3> SUFFICES ASSUME NEW c \in snapshot, Fits(ts[t], c), c \notin fits
                 PROVE  \E q \in 1 .. k : m[s[q]] = c
      OBVIOUS
    <3>1. c \in Range(m)
      BY DEF Fits
    <3>2. PICK l \in DOMAIN ts : m[l] = c
      BY <2>1, <3>1 DEF Range
    <3>3. PICK q \in 1 .. n : s[q] = l
      BY <1>1
    <3>4. ~(q > k)
      BY <1>0, <2>1, <3>2, <3>3
    <3> QED BY <1>2, <3>2, <3>3, <3>4
  <2> HIDE DEF fits, c0
  <2>6. w \in [DOMAIN ts -> snapshot \union {None}]
    BY <2>1, <2>2, <2>3, <2>4
  <2>7. \A p \in 1 .. n : p # k + 1 => w[s[p]] = m[s[p]]
    BY <1>1, <1>2, <2>1, <2>2, <2>3
  <2>9. \A c \in fits : NearAs(w, ts[t], t, c)
    <3> SUFFICES ASSUME NEW c \in fits PROVE NearAs(w, ts[t], t, c)
      OBVIOUS
    <3>1. w[t] = c0 /\ c0 # None
      BY <1>0, <2>1, <2>2, <2>3, <2>4
    <3> QED BY <2>4, <3>1 DEF NearAs
  <2> HIDE DEF w
  <2>10. \A p \in 1 .. n : p > k + 1 => w[s[p]] = None
    BY <1>2, <2>1, <2>7
  <2>11. \A p \in 1 .. n : p <= k + 1 => Served(w, p)
    <3> SUFFICES ASSUME NEW p \in 1 .. n, p <= k + 1, NEW c \in snapshot, Fits(ts[s[p]], c)
                 PROVE  (\E q \in 1 .. p : w[s[q]] = c) \/ NearAs(w, ts[s[p]], s[p], c)
      OBVIOUS
    <3>0. \A q \in 1 .. k : q \in 1 .. n /\ w[s[q]] = m[s[q]]
      BY <1>2, <1>7, <2>7
    <3>1. CASE p = k + 1
      <4>1. c \in fits \/ \E q \in 1 .. k : m[s[q]] = c
        BY <2>5, <3>1
      <4>2. ASSUME NEW q \in 1 .. k, m[s[q]] = c PROVE \E o \in 1 .. p : w[s[o]] = c
        BY <3>0, <3>1, <4>2
      <4> QED BY <2>9, <3>1, <4>1, <4>2
    <3>2. CASE p # k + 1
      <4>1. p <= k /\ p \in 1 .. k
        BY <1>2, <3>2
      <4>2. (\E q \in 1 .. p : m[s[q]] = c) \/ NearAs(m, ts[s[p]], s[p], c)
        BY <2>1, <4>1
      <4>3. \A q \in 1 .. p : q \in 1 .. k
        BY <4>1
      <4>4. NearAs(m, ts[s[p]], s[p], c) => NearAs(w, ts[s[p]], s[p], c)
        BY <3>0, <4>1 DEF NearAs
      <4> QED BY <3>0, <4>2, <4>3, <4>4
    <3> QED BY <3>1, <3>2
  <2>12. w \in G[k + 1]
    <3>1. k + 1 \in Nat
      OBVIOUS
    <3> HIDE DEF Served
    <3> QED BY <2>6, <2>10, <2>11, <3>1
  <2> QED BY <2>12 DEF w
<1>8. \A k \in Nat : k + 1 <= n => \A m \in G[k] : Step(kind, m, s[k + 1]) \in G[k + 1]
  <2> HIDE DEF G
  <2>1. \A m, l : Step(kind, m, l) = Take(ts, snapshot, score, m, l)
    BY DEF Step
  <2> QED BY <1>7, <2>1
<1> HIDE DEF kind, base, G
<1>9. it[1 .. n] \in G[n]
  BY <1>2, <1>5, <1>6, <1>8, FoldLeads
<1> DEFINE m == Matches(ts, snapshot, score)
<1>10. \A p \in 1 .. n : Served(m, p)
  <2>1. \A p \in 1 .. n : p <= n
    BY <1>2
  <2> HIDE DEF Served
  <2> QED BY <1>2, <1>3, <1>9, <2>1 DEF G
<1> QED BY <1>10 DEF n, s

\* A candidate that fits a published track left without one went to another
\* published track.
LEMMA MatchesServe ==
  ASSUME NEW ts \in Seq(Track), NEW snapshot \in Snapshot, NEW score \in Scores,
         NEW i \in DOMAIN ts, ts[i].active,
         Matches(ts, snapshot, score)[i] = None, NEW b \in snapshot, Fits(ts[i], b)
  PROVE  \E j \in DOMAIN ts : ts[j].active /\ Matches(ts, snapshot, score)[j] = b
<1> DEFINE m == Matches(ts, snapshot, score)
           s == MatchOrder(ts)
           n == Len(s)
<1>1. /\ s \in Seq(DOMAIN ts)
      /\ \A l \in DOMAIN ts : \E p \in 1 .. n : s[p] = l
      /\ \A p, q \in 1 .. n : q < p /\ ts[s[p]].active => ts[s[q]].active
  BY MatchOrderSeq
<1>2. \A p \in 1 .. n : \A c \in snapshot :
        Fits(ts[s[p]], c) => (\E q \in 1 .. p : m[s[q]] = c) \/ NearAs(m, ts[s[p]], s[p], c)
  BY TakenInTurn
<1> HIDE DEF s, m
<1>s. s \in Seq(DOMAIN ts)
  BY <1>1
<1>3. n \in Nat /\ \A k \in 1 .. n : s[k] \in DOMAIN ts
  BY <1>s
<1>4. PICK p \in 1 .. n : s[p] = i
  BY <1>1
<1>5. PICK q \in 1 .. p : m[s[q]] = b
  BY <1>2, <1>4 DEF NearAs, m
<1>6. b # None /\ q # p
  BY <1>4, <1>5, InBand DEF m
<1>7. q \in 1 .. n /\ q < p
  BY <1>3, <1>6
<1> QED BY <1>1, <1>3, <1>4, <1>5, <1>7 DEF m

\* A candidate that fits a track and that no track took leaves it one as near.
LEMMA LeftFarther ==
  ASSUME NEW ts \in Seq(Track), NEW snapshot \in Snapshot, NEW score \in Scores,
         NEW i \in DOMAIN ts, NEW b \in snapshot \ Range(Matches(ts, snapshot, score)), Fits(ts[i], b)
  PROVE  NearAs(Matches(ts, snapshot, score), ts[i], i, b)
<1> DEFINE m == Matches(ts, snapshot, score)
           s == MatchOrder(ts)
           n == Len(s)
<1>1. s \in Seq(DOMAIN ts) /\ \A l \in DOMAIN ts : \E p \in 1 .. n : s[p] = l
  BY MatchOrderSeq
<1>2. \A p \in 1 .. n : \A c \in snapshot :
        Fits(ts[s[p]], c) => (\E q \in 1 .. p : m[s[q]] = c) \/ NearAs(m, ts[s[p]], s[p], c)
  BY TakenInTurn
<1>3. DOMAIN m = DOMAIN ts
  BY MatchesFit
<1> HIDE DEF s, m
<1>s. s \in Seq(DOMAIN ts)
  BY <1>1
<1>4. n \in Nat /\ \A k \in 1 .. n : s[k] \in DOMAIN ts
  BY <1>s
<1>5. PICK p \in 1 .. n : s[p] = i
  BY <1>1
<1>6. ASSUME NEW q \in 1 .. p, m[s[q]] = b PROVE FALSE
  <2>1. q \in 1 .. n
    BY <1>4
  <2>2. b \in Range(m)
    BY <1>3, <1>4, <1>6, <2>1 DEF Range
  <2> QED BY <2>2 DEF m
<1> QED BY <1>2, <1>5, <1>6 DEF m

\* Only a published track is challenged, and in its step.
LEMMA ChallengersActive ==
  ASSUME NEW ts \in Seq(Track), NEW snapshot \in Snapshot, NEW matched
  PROVE  /\ Challengers(ts, matched, snapshot) \in [DOMAIN ts -> snapshot \union {None}]
         /\ \A i \in DOMAIN ts : LET b == Challengers(ts, matched, snapshot)[i] IN
              b # None => b \in snapshot /\ ts[i].active /\ ShareSlot(ts[i].zone, b)
<1> DEFINE base == [i \in DOMAIN ts |-> None]
           kind == <<"face", ts, matched>>
           s == LowToHigh(snapshot \ Range(matched))
           n == Len(s)
           Is(f) == f = [D \in SUBSET (1 .. n) |->
                           IF D = {} THEN base ELSE Face(ts, matched, f[D \ {Max(D)}], s[Max(D)])]
           it == CHOOSE f : Is(f)
           G == {m \in [DOMAIN ts -> snapshot \union {None}] :
                   \A i \in DOMAIN ts : m[i] # None => /\ m[i] \in snapshot /\ ts[i].active
                                                  /\ ShareSlot(ts[i].zone, m[i])}
<1>1. s \in Seq(snapshot \ Range(matched))
  BY LowToHighSeq
<1> HIDE DEF s
<1>2. n \in Nat /\ DOMAIN s = 1 .. n /\ \A k \in 1 .. n : s[k] \in snapshot
  BY <1>1
<1>3. Challengers(ts, matched, snapshot) = it[1 .. n]
  BY <1>2 DEF Challengers, FoldLeft, MapThenFoldSet, s
<1>4. \A f : IsFold(kind, base, s, n, f) <=> Is(f)
  BY DEF IsFold, Step
<1> HIDE DEF Is
<1>5. IsFold(kind, base, s, n, it)
  BY <1>2, <1>4, FoldExists
<1>6. base \in G
  OBVIOUS
<1>7. ASSUME NEW m \in G, NEW b \in snapshot PROVE Face(ts, matched, m, b) \in G
  <2> DEFINE open == {i \in DOMAIN ts : /\ ts[i].active
                                        /\ matched[i] = None /\ m[i] = None
                                        /\ ShareSlot(ts[i].zone, b)}
             closest == CHOOSE i \in open : \A j \in open :
                          \/ Distance(ts[i].zone, b) < Distance(ts[j].zone, b)
                          \/ Distance(ts[i].zone, b) = Distance(ts[j].zone, b) /\ i <= j
  <2> SUFFICES ASSUME open # {} PROVE [m EXCEPT ![closest] = b] \in G
    BY <1>7 DEF Face
  <2>1. open \in SUBSET (1 .. Len(ts)) /\ Len(ts) \in Nat /\ \A i \in open : i \in Int
    OBVIOUS
  <2>2. IsFiniteSet(open)
    <3>1. IsFiniteSet(1 .. Len(ts))
      BY <2>1, FS_Interval
    <3> HIDE DEF open
    <3> QED BY <2>1, <3>1, FS_Subset
  <2>3. \A i \in open : Distance(ts[i].zone, b) \in Int
    <3> SUFFICES ASSUME NEW i \in open PROVE Distance(ts[i].zone, b) \in Int
      OBVIOUS
    <3>1. ts[i] \in Track /\ b \in Band
      BY DEF Snapshot
    <3>2. ts[i].zone \in Band
      BY <3>1 DEF Track
    <3> QED BY <3>1, <3>2, Geometry
  <2> DEFINE d(i) == Distance(ts[i].zone, b)
             before(i, j) == d(i) < d(j) \/ (d(i) = d(j) /\ i < j)
             R == {p \in open \X open : before(p[1], p[2])}
  <2>4. \A i, j \in open : <<i, j>> \in R <=> before(i, j)
    <3> HIDE DEF open
    <3> QED OBVIOUS
  <2>5. \A i \in open : d(i) \in Int
    BY <2>3
  <2> HIDE DEF R, d, open
  <2>6. StrictOrder(open, R)
    <3>1. \A i \in open : ~before(i, i)
      BY <2>1, <2>5
    <3>2. \A i, j, k \in open : before(i, j) /\ before(j, k) => before(i, k)
      BY <2>1, <2>5
    <3> HIDE DEF before
    <3> QED BY <2>4, <3>1, <3>2 DEF StrictOrder
  <2>7. PICK i \in open : \A j \in open : <<j, i>> \notin R
    BY <2>2, <2>6, FirstExists
  <2>8. \A j \in open : d(i) < d(j) \/ (d(i) = d(j) /\ i <= j)
    <3> SUFFICES ASSUME NEW j \in open PROVE d(i) < d(j) \/ (d(i) = d(j) /\ i <= j)
      OBVIOUS
    <3>1. ~before(j, i)
      BY <2>4, <2>7
    <3> DEFINE u == d(i)
               v == d(j)
    <3>2. u \in Int /\ v \in Int /\ i \in Int /\ j \in Int
      BY <2>1, <2>5
    <3>3. ~(v < u) /\ ~(v = u /\ j < i)
      BY <3>1
    <3> HIDE DEF u, v
    <3>4. u < v \/ (u = v /\ i <= j)
      BY <3>2, <3>3
    <3> QED BY <3>4 DEF u, v
  <2>9. closest \in open
    BY <2>8 DEF d
  <2> HIDE DEF closest
  <2>10. closest \in DOMAIN ts /\ ts[closest].active /\ ShareSlot(ts[closest].zone, b)
    BY <2>9 DEF open
  <2> QED BY <1>7, <2>10
<1>8. \A m \in G : \A k \in 1 .. n : Step(kind, m, s[k]) \in G
  <2> HIDE DEF G
  <2>1. \A m, b : Step(kind, m, b) = Face(ts, matched, m, b)
    BY DEF Step
  <2> QED BY <1>2, <1>7, <2>1
<1> HIDE DEF kind, base, n, it, G
<1>9. it[1 .. n] \in G
  BY <1>2, <1>5, <1>6, <1>8, FoldKeeps
<1> QED BY <1>3, <1>9 DEF G

LEMMA RangeConcat ==
  ASSUME NEW T, NEW a \in Seq(T), NEW b \in Seq(T)
  PROVE  Range(a \o b) = Range(a) \union Range(b)
<1> DEFINE c == a \o b
<1>1. /\ Len(a) \in Nat /\ DOMAIN a = 1 .. Len(a) /\ Len(b) \in Nat /\ DOMAIN b = 1 .. Len(b)
      /\ DOMAIN c = 1 .. Len(a) + Len(b)
      /\ \A i \in 1 .. Len(a) : c[i] = a[i]
      /\ \A i \in 1 .. Len(b) : c[Len(a) + i] = b[i]
  OBVIOUS
<1> HIDE DEF c
<1>2. \A i \in DOMAIN c : c[i] \in Range(a) \union Range(b)
  <2> SUFFICES ASSUME NEW i \in DOMAIN c PROVE c[i] \in Range(a) \union Range(b)
    OBVIOUS
  <2>1. CASE i <= Len(a)
    BY <1>1, <2>1 DEF Range
  <2>2. CASE ~(i <= Len(a))
    <3> DEFINE j == i - Len(a)
    <3>1. j \in 1 .. Len(b) /\ Len(a) + j = i
      BY <1>1, <2>2
    <3> HIDE DEF j
    <3> QED BY <1>1, <3>1 DEF Range
  <2> QED BY <2>1, <2>2
<1>3. \A i \in DOMAIN a : a[i] \in Range(c)
  BY <1>1 DEF Range
<1>4. \A i \in DOMAIN b : b[i] \in Range(c)
  <2> SUFFICES ASSUME NEW i \in DOMAIN b PROVE b[i] \in Range(c)
    OBVIOUS
  <2>1. Len(a) + i \in DOMAIN c /\ c[Len(a) + i] = b[i]
    BY <1>1
  <2> QED BY <2>1 DEF Range
<1>5. Range(c) = Range(a) \union Range(b)
  BY <1>2, <1>3, <1>4 DEF Range
<1> QED BY <1>5 DEF c

\* Flattened, sequences hold what they held.
LEMMA FlattenKeeps ==
  ASSUME NEW T, NEW xs \in Seq(Seq(T))
  PROVE  FlattenSeq(xs) \in Seq(T) /\ \A i \in DOMAIN xs : Range(xs[i]) \subseteq Range(FlattenSeq(xs))
<1> DEFINE n == Len(xs)
           Is(h) == h = [i \in 1 .. n |-> IF i = 1 THEN xs[i] ELSE h[i - 1] \o xs[i]]
           it == CHOOSE h : Is(h)
<1>1. n \in Nat /\ \A i \in 1 .. n : xs[i] \in Seq(T)
  OBVIOUS
<1>2. CASE n = 0
  <2>1. FlattenSeq(xs) = xs /\ xs = << >>
    BY <1>2 DEF FlattenSeq
  <2>2. DOMAIN xs = {}
    BY <1>2
  <2> QED BY <2>1, <2>2
<1>3. CASE n # 0
  <2>1. PICK f : IsFold(<<"flat">>, << >>, xs, n, f)
    BY <1>1, FoldExists
  <2>2. FlattenSeq(xs) = it[n]
    BY <1>1, <1>3 DEF FlattenSeq
  <2> HIDE DEF n, it
  <2>3. \A i \in Nat : i + 1 <= n => f[1 .. i + 1] = f[1 .. i] \o xs[i + 1]
    <3> SUFFICES ASSUME NEW i \in Nat, i + 1 <= n PROVE f[1 .. i + 1] = f[1 .. i] \o xs[i + 1]
      OBVIOUS
    <3> DEFINE kind == <<"flat">>
    <3>1. IsFold(kind, << >>, xs, n, f)
      BY <2>1
    <3> HIDE DEF kind
    <3>2. f[1 .. i + 1] = Step(kind, f[1 .. i], xs[i + 1])
      BY <1>1, <3>1, FoldUnrolls
    <3>3. Step(kind, f[1 .. i], xs[i + 1]) = f[1 .. i] \o xs[i + 1]
      BY DEF Step, kind
    <3> QED BY <3>2, <3>3
  <2>4. f[1 .. 1] = xs[1]
    <3>1. 1 .. 0 = {} /\ f[{}] = << >> /\ 1 <= n /\ 0 + 1 = 1
      BY <1>1, <1>3, <2>1 DEF IsFold
    <3>2. f[1 .. 1] = << >> \o xs[1]
      BY <2>3, <3>1
    <3>3. xs[1] \in Seq(T)
      BY <1>1, <3>1
    <3> QED BY <3>2, <3>3
  <2>5. Is(it)
    <3> DEFINE h == [i \in 1 .. n |-> f[1 .. i]]
    <3>1. \A i \in 1 .. n : h[i] = IF i = 1 THEN xs[i] ELSE h[i - 1] \o xs[i]
      <4> SUFFICES ASSUME NEW i \in 1 .. n, i # 1 PROVE h[i] = h[i - 1] \o xs[i]
        BY <2>4
      <4>1. i - 1 \in Nat /\ i - 1 \in 1 .. n /\ (i - 1) + 1 = i /\ i <= n
        BY <1>1
      <4>2. f[1 .. (i - 1) + 1] = f[1 .. i - 1] \o xs[(i - 1) + 1]
        BY <2>3, <4>1
      <4> QED BY <4>1, <4>2
    <3>2. Is(h)
      <4>1. h = [i \in 1 .. n |-> h[i]]
        OBVIOUS
      <4> HIDE DEF h
      <4> QED BY <3>1, <4>1
    <3> HIDE DEF h, Is
    <3> QED BY <3>2 DEF it
  <2>6. \A i \in 1 .. n : it[i] = IF i = 1 THEN xs[i] ELSE it[i - 1] \o xs[i]
    BY <2>5
  <2> DEFINE Holds(k) == it[k] \in Seq(T) /\ \A i \in 1 .. k : Range(xs[i]) \subseteq Range(it[k])
             S == {k \in Nat : k + 1 <= n => Holds(k + 1)}
  <2>7. 0 \in S
    <3>1. 0 + 1 = 1 /\ 1 \in 1 .. n /\ \A i \in 1 .. 1 : i = 1
      BY <1>1, <1>3
    <3>2. it[1] = xs[1] /\ xs[1] \in Seq(T)
      BY <1>1, <2>6, <3>1
    <3>3. Holds(1)
      BY <3>1, <3>2
    <3> QED BY <3>1, <3>3
  <2>8. ASSUME NEW k \in Nat, k \in S PROVE k + 1 \in S
    <3> SUFFICES ASSUME (k + 1) + 1 <= n PROVE Holds((k + 1) + 1)
      OBVIOUS
    <3>1. it[k + 1] \in Seq(T) /\ \A i \in 1 .. k + 1 : Range(xs[i]) \subseteq Range(it[k + 1])
      BY <1>1, <2>8
    <3>2. (k + 1) + 1 \in 1 .. n /\ (k + 1) + 1 # 1 /\ ((k + 1) + 1) - 1 = k + 1
      BY <1>1
    <3>3. it[(k + 1) + 1] = it[k + 1] \o xs[(k + 1) + 1] /\ xs[(k + 1) + 1] \in Seq(T)
      BY <1>1, <2>6, <3>2
    <3>4. Range(it[(k + 1) + 1]) = Range(it[k + 1]) \union Range(xs[(k + 1) + 1])
      BY <3>1, <3>3, RangeConcat
    <3>5. it[(k + 1) + 1] \in Seq(T)
      BY <3>1, <3>3
    <3>6. \A i \in 1 .. (k + 1) + 1 : i \in 1 .. k + 1 \/ i = (k + 1) + 1
      OBVIOUS
    <3> QED BY <3>1, <3>4, <3>5, <3>6
  <2> HIDE DEF S, Holds
  <2>9. \A k \in Nat : k \in S
    BY <2>7, <2>8, Induction
  <2>10. n - 1 \in Nat /\ (n - 1) + 1 = n
    BY <1>1, <1>3
  <2>11. n - 1 \in S
    BY <2>9, <2>10
  <2>12. Holds(n)
    BY <2>10, <2>11, <1>1 DEF S
  <2>13. DOMAIN xs = 1 .. n
    BY DEF n
  <2> QED BY <2>2, <2>12, <2>13 DEF Holds
<1> QED BY <1>2, <1>3

(***************************************************************************)
(* What a step leaves of the tracks: each is what a track became, or new.  *)
(***************************************************************************)
Outcome(ts, snapshot, score, x) ==
  \/ \E i \in DOMAIN ts, b \in snapshot : Fits(ts[i], b) /\ x = OnMatch(ts[i], b)
  \/ \E i \in DOMAIN ts, b \in snapshot : /\ ts[i].active /\ Matches(ts, snapshot, score)[i] = None
                                           /\ x \in Range(OnChallenger(ts[i], b))
  \/ \E i \in DOMAIN ts : Matches(ts, snapshot, score)[i] = None /\ x \in Range(OnMiss(ts[i]))
  \/ \E b \in snapshot : x = NewTrack(b, FALSE)

LEMMA RangeOfShort ==
  ASSUME NEW x
  PROVE  /\ <<x>> \in Seq(Range(<<x>>)) /\ Range(<<x>>) = {x}
         /\ << >> \in Seq({}) /\ Range(<< >>) = {}
BY DEF Range

LEMMA AdvancedOutcomes ==
  ASSUME NEW ts \in Seq(Track), NEW snapshot \in Snapshot, NEW score \in Scores
  PROVE  /\ \E T : Advanced(ts, snapshot, score) \in Seq(T) /\ \A x \in T : Outcome(ts, snapshot, score, x)
         /\ LET m == Matches(ts, snapshot, score)
                f == Challengers(ts, m, snapshot)
            IN /\ \A i \in DOMAIN ts : Range(After(ts[i], m[i], f[i])) \subseteq Range(Advanced(ts, snapshot, score))
               /\ \A b \in snapshot \ (Range(m) \union Range(f)) :
                    NewTrack(b, FALSE) \in Range(Advanced(ts, snapshot, score))
<1> DEFINE m == Matches(ts, snapshot, score)
           f == Challengers(ts, m, snapshot)
           l == LowToHigh(snapshot \ (Range(m) \union Range(f)))
           xs == [i \in DOMAIN ts |-> After(ts[i], m[i], f[i])]
           fresh(b) == NewTrack(b, FALSE)
           news == [k \in DOMAIN l |-> fresh(l[k])]
           old == UNION {Range(xs[i]) : i \in DOMAIN ts}
           T == old \union {fresh(b) : b \in snapshot}
<1>1. \A i \in DOMAIN ts : m[i] # None => m[i] \in snapshot /\ Fits(ts[i], m[i])
  BY MatchesFit
<1>2. \A i \in DOMAIN ts : f[i] # None => f[i] \in snapshot /\ ts[i].active
  BY ChallengersActive
<1> DEFINE left == snapshot \ (Range(m) \union Range(f))
<1>3. l \in Seq(snapshot) /\ \A b \in left : \E k \in DOMAIN l : l[k] = b
  <2>1. l \in Seq(left) /\ \A b \in left : \E k \in DOMAIN l : l[k] = b
    <3> HIDE DEF m, f
    <3> QED BY LowToHighSeq
  <2>2. left \subseteq snapshot
    OBVIOUS
  <2> HIDE DEF l, left
  <2> QED BY <2>1, <2>2
<1>4. Advanced(ts, snapshot, score) = FlattenSeq(xs) \o news
  BY DEF Advanced
<1>m. m = Matches(ts, snapshot, score) /\ f = Challengers(ts, m, snapshot)
  OBVIOUS
<1> HIDE DEF m, f, l, left
<1>5. ASSUME NEW i \in DOMAIN ts PROVE xs[i] \in Seq(Range(xs[i]))
  <2> DEFINE x == After(ts[i], m[i], f[i])
  <2>1. \/ x = << >> \/ \E y : x = <<y>>
    BY DEF After, OnChallenger, OnMiss
  <2>2. x \in Seq(Range(x))
    <3> HIDE DEF x
    <3> QED BY <2>1, RangeOfShort
  <2> QED BY <2>2
<1>6. FlattenSeq(xs) \in Seq(T)
  <2>1. \A i \in DOMAIN ts : Range(xs[i]) \subseteq T
    OBVIOUS
  <2> HIDE DEF T
  <2>2. \A i \in DOMAIN ts : xs[i] \in Seq(T)
    <3> SUFFICES ASSUME NEW i \in DOMAIN ts PROVE xs[i] \in Seq(T)
      OBVIOUS
    <3>1. xs[i] \in Seq(Range(xs[i])) /\ Range(xs[i]) \subseteq T
      BY <1>5, <2>1
    <3> DEFINE x == xs[i]
    <3> HIDE DEF xs
    <3> QED BY <3>1
  <2>3. xs \in [1 .. Len(ts) -> Seq(T)] /\ Len(ts) \in Nat
    BY <2>2
  <2> HIDE DEF xs
  <2>4. xs \in Seq(Seq(T))
    BY <2>3
  <2> QED BY <2>4, FlattenKeeps
<1>10. \A i \in DOMAIN ts : Range(xs[i]) \subseteq Range(FlattenSeq(xs))
  <2>1. DOMAIN xs = DOMAIN ts
    OBVIOUS
  <2>2. xs \in Seq(Seq(T))
    <3>1. \A i \in DOMAIN ts : Range(xs[i]) \subseteq T
      OBVIOUS
    <3> HIDE DEF T
    <3>2. \A i \in DOMAIN ts : xs[i] \in Seq(T)
      <4> SUFFICES ASSUME NEW i \in DOMAIN ts PROVE xs[i] \in Seq(T)
        OBVIOUS
      <4>1. xs[i] \in Seq(Range(xs[i])) /\ Range(xs[i]) \subseteq T
        BY <1>5, <3>1
      <4> DEFINE x == xs[i]
      <4> HIDE DEF xs
      <4> QED BY <4>1
    <3>3. xs \in [1 .. Len(ts) -> Seq(T)] /\ Len(ts) \in Nat
      BY <3>2
    <3> HIDE DEF xs
    <3> QED BY <3>3
  <2> HIDE DEF xs, T
  <2> QED BY <2>1, <2>2, FlattenKeeps
<1>7. news \in Seq(T)
  <2>1. DOMAIN l = 1 .. Len(l) /\ Len(l) \in Nat /\ \A k \in DOMAIN l : l[k] \in snapshot
    BY <1>3
  <2> HIDE DEF old, fresh
  <2>2. \A k \in DOMAIN l : fresh(l[k]) \in T
    BY <2>1
  <2> HIDE DEF T
  <2> QED BY <2>1, <2>2
<1>8. \A x \in T : Outcome(ts, snapshot, score, x)
  <2> SUFFICES ASSUME NEW x \in T PROVE Outcome(ts, snapshot, score, x)
    OBVIOUS
  <2>0. (\E b \in snapshot : x = fresh(b)) \/ x \in old
    <3> HIDE DEF old, fresh
    <3> QED OBVIOUS
  <2>1. CASE \E b \in snapshot : x = fresh(b)
    BY <2>1 DEF Outcome
  <2>2. CASE x \in old
    <3>1. PICK i \in DOMAIN ts : x \in Range(After(ts[i], m[i], f[i]))
      BY <2>2
    <3>2. CASE m[i] # None
      <4>1. x = OnMatch(ts[i], m[i])
        BY <3>1, <3>2, RangeOfShort DEF After
      <4> QED BY <1>1, <3>2, <4>1 DEF Outcome
    <3>3. CASE m[i] = None /\ f[i] # None
      BY <1>2, <1>m, <3>1, <3>3 DEF After, Outcome
    <3>4. CASE m[i] = None /\ f[i] = None
      BY <1>m, <3>1, <3>4 DEF After, Outcome
    <3> QED BY <3>2, <3>3, <3>4
  <2> QED BY <2>0, <2>1, <2>2
<1>13. \A b \in left : fresh(b) \in Range(news)
  <2> SUFFICES ASSUME NEW b \in left PROVE fresh(b) \in Range(news)
    OBVIOUS
  <2>1. PICK k \in DOMAIN l : l[k] = b
    BY <1>3
  <2> HIDE DEF fresh
  <2>2. DOMAIN news = DOMAIN l /\ news[k] = fresh(b)
    BY <2>1
  <2> HIDE DEF news
  <2> QED BY <2>2 DEF Range
<1> HIDE DEF T, xs, news
<1>9. FlattenSeq(xs) \o news \in Seq(T)
  BY <1>6, <1>7
<1>11. \A i \in DOMAIN ts : Range(After(ts[i], m[i], f[i])) \subseteq Range(Advanced(ts, snapshot, score))
  <2> SUFFICES ASSUME NEW i \in DOMAIN ts
               PROVE  Range(After(ts[i], m[i], f[i])) \subseteq Range(Advanced(ts, snapshot, score))
    OBVIOUS
  <2>1. Range(Advanced(ts, snapshot, score)) = Range(FlattenSeq(xs)) \union Range(news)
    BY <1>4, <1>6, <1>7, RangeConcat
  <2>2. Range(xs[i]) \subseteq Range(FlattenSeq(xs))
    BY <1>10
  <2>3. xs[i] = After(ts[i], m[i], f[i])
    BY DEF xs
  <2> QED BY <2>1, <2>2, <2>3
<1>12. \E U : Advanced(ts, snapshot, score) \in Seq(U) /\ \A x \in U : Outcome(ts, snapshot, score, x)
  BY <1>4, <1>8, <1>9
<1>14. \A b \in left : fresh(b) \in Range(Advanced(ts, snapshot, score))
  <2>1. Range(Advanced(ts, snapshot, score)) = Range(FlattenSeq(xs)) \union Range(news)
    BY <1>4, <1>6, <1>7, RangeConcat
  <2> HIDE DEF fresh
  <2> QED BY <1>13, <2>1
<1> QED BY <1>11, <1>12, <1>14 DEF m, f, left

(***************************************************************************)
(* A track stands on the snapshots of its run of prints and misses: what   *)
(* waits, waits for the last one.                                          *)
(***************************************************************************)
Standing(t, r) ==
  /\ t \in Track /\ t.zone.family = t.id.family /\ Len(r) > t.miss
  /\ ~t.active => /\ t.appear < ActivateConfirms /\ t.moving = None /\ t.zone \in Last(r)
  /\ t.challenger # None => t.challenger \in Last(r)
  /\ t.moving # None => t.moving \in r[Len(r) - t.miss]

\* A shelf was printed in its step by the last snapshot it did not miss.
Backed(t, r) == t.active => \E b \in r[Len(r) - t.miss] : Fits(t, b)

History == recent \in Seq(Snapshot) /\ Len(recent) <= Memory

IInv ==
  /\ tracks \in Seq(Track)
  /\ \A k \in DOMAIN tracks : Standing(tracks[k], recent)
  /\ \A k \in DOMAIN tracks : Backed(tracks[k], recent)
  /\ bootstrapped \in BOOLEAN
  /\ bootstrapped => Len(recent) > 0
  /\ History

\* A step of history: the last snapshot is the new one, and the older ones
\* are one further back.
Remember(r, snapshot) ==
  LET all == Append(r, snapshot) IN IF Len(all) > Memory THEN Tail(all) ELSE all

LEMMA Remembers ==
  ASSUME NEW r \in Seq(Snapshot), Len(r) <= Memory, NEW snapshot \in Snapshot
  PROVE  LET q == Remember(r, snapshot) IN
         /\ q \in Seq(Snapshot) /\ Len(q) <= Memory /\ Len(q) > 0
         /\ Last(q) = snapshot /\ q[Len(q)] = snapshot
         /\ \A n \in 0 .. RetireMisses - 1 :
              Len(r) > n => Len(q) > n + 1 /\ q[Len(q) - (n + 1)] = r[Len(r) - n]
<1> DEFINE all == Append(r, snapshot)
           q == Remember(r, snapshot)
<1>1. /\ Memory \in Nat /\ RetireMisses \in Nat /\ RetireMisses < Memory /\ RetireMisses > 1
  BY ConfirmsAssumption
<1>2. /\ Len(r) \in Nat /\ all \in Seq(Snapshot) /\ Len(all) = Len(r) + 1
      /\ all[Len(r) + 1] = snapshot /\ \A i \in 1 .. Len(r) : all[i] = r[i]
  OBVIOUS
<1>3. CASE Len(all) > Memory
  <2>1. q = Tail(all) /\ Len(r) = Memory
    BY <1>1, <1>2, <1>3 DEF Remember
  <2> HIDE DEF all, q
  <2>2. q \in Seq(Snapshot) /\ Len(q) = Memory /\ \A i \in 1 .. Memory : q[i] = all[i + 1]
    BY <1>1, <1>2, <2>1
  <2>3. q[Len(q)] = snapshot
    BY <1>1, <1>2, <2>1, <2>2
  <2>4. ASSUME NEW n \in 0 .. RetireMisses - 1
        PROVE  Len(q) > n + 1 /\ q[Len(q) - (n + 1)] = r[Len(r) - n]
    <3>1. Memory - (n + 1) \in 1 .. Memory /\ Memory - n \in 1 .. Memory
          /\ (Memory - (n + 1)) + 1 = Memory - n
      BY <1>1
    <3> QED BY <1>1, <1>2, <2>1, <2>2, <3>1
  <2> QED BY <1>1, <2>2, <2>3, <2>4 DEF Last, q
<1>4. CASE ~(Len(all) > Memory)
  <2>1. q = all
    BY <1>4 DEF Remember
  <2> HIDE DEF all, q
  <2>2. ASSUME NEW n \in 0 .. RetireMisses - 1, Len(r) > n
        PROVE  Len(q) > n + 1 /\ q[Len(q) - (n + 1)] = r[Len(r) - n]
    <3>1. Len(r) - n \in 1 .. Len(r) /\ (Len(r) + 1) - (n + 1) = Len(r) - n
      BY <1>1, <1>2, <2>2
    <3> QED BY <1>1, <1>2, <2>1, <2>2, <3>1
  <2> QED BY <1>1, <1>2, <1>4, <2>1, <2>2 DEF Last, q
<1> QED BY <1>3, <1>4

LEMMA Confirms ==
  /\ ActivateConfirms \in Nat /\ RetireMisses \in Nat /\ ReplaceConfirms \in Nat
  /\ ActivateConfirms > 1 /\ RetireMisses > 1 /\ ReplaceConfirms > 1
BY ConfirmsAssumption

\* What an update of some fields of a track gives.
LEMMA EditBand ==
  ASSUME NEW t \in Track, NEW z \in Band
  PROVE  LET x == [t EXCEPT !.zone = z, !.moving = None, !.prints = 0] IN
         /\ x \in Track
         /\ x.id = t.id /\ x.zone = z /\ x.active = t.active /\ x.appear = t.appear /\ x.miss = t.miss
         /\ x.moving = None /\ x.prints = 0 /\ x.challenger = t.challenger /\ x.wins = t.wins
<1> DEFINE v == None
           n == 0
<1>1. v \in Band \union {None} /\ n \in 0 .. ReplaceConfirms - 1
  BY Confirms
<1> HIDE DEF v, n
<1>2. LET x == [t EXCEPT !.zone = z, !.moving = v, !.prints = n] IN
      /\ x \in Track
      /\ x.id = t.id /\ x.zone = z /\ x.active = t.active /\ x.appear = t.appear /\ x.miss = t.miss
      /\ x.moving = v /\ x.prints = n /\ x.challenger = t.challenger /\ x.wins = t.wins
  BY <1>1 DEF Track
<1> QED BY <1>2 DEF v, n

LEMMA EditMoving ==
  ASSUME NEW t \in Track, NEW z \in Band
  PROVE  LET x == [t EXCEPT !.moving = z, !.prints = 1] IN
         /\ x \in Track
         /\ x.id = t.id /\ x.zone = t.zone /\ x.active = t.active /\ x.appear = t.appear /\ x.miss = t.miss
         /\ x.moving = z /\ x.prints = 1 /\ x.challenger = t.challenger /\ x.wins = t.wins
<1> DEFINE v == z
           n == 1
<1>1. v \in Band \union {None} /\ n \in 0 .. ReplaceConfirms - 1
  BY Confirms
<1> HIDE DEF v, n
<1>2. LET x == [t EXCEPT !.moving = v, !.prints = n] IN
      /\ x \in Track
      /\ x.id = t.id /\ x.zone = t.zone /\ x.active = t.active /\ x.appear = t.appear /\ x.miss = t.miss
      /\ x.moving = v /\ x.prints = n /\ x.challenger = t.challenger /\ x.wins = t.wins
  BY <1>1 DEF Track
<1> QED BY <1>2 DEF v, n

LEMMA EditPrints ==
  ASSUME NEW t \in Track, NEW n \in 0 .. ReplaceConfirms - 1
  PROVE  LET x == [t EXCEPT !.prints = n] IN
         /\ x \in Track
         /\ x.id = t.id /\ x.zone = t.zone /\ x.active = t.active /\ x.appear = t.appear /\ x.miss = t.miss
         /\ x.moving = t.moving /\ x.prints = n /\ x.challenger = t.challenger /\ x.wins = t.wins
BY DEF Track

LEMMA EditMatched ==
  ASSUME NEW t \in Track
  PROVE  LET x == [t EXCEPT !.miss = 0, !.challenger = None, !.wins = 0] IN
         /\ x \in Track
         /\ x.id = t.id /\ x.zone = t.zone /\ x.active = t.active /\ x.appear = t.appear /\ x.miss = 0
         /\ x.moving = t.moving /\ x.prints = t.prints /\ x.challenger = None /\ x.wins = 0
<1> DEFINE m == 0
           c == None
           w == 0
<1>1. m \in 0 .. RetireMisses - 1 /\ c \in Band \union {None} /\ w \in 0 .. ReplaceConfirms - 1
  BY Confirms
<1> HIDE DEF m, c, w
<1>2. LET x == [t EXCEPT !.miss = m, !.challenger = c, !.wins = w] IN
      /\ x \in Track
      /\ x.id = t.id /\ x.zone = t.zone /\ x.active = t.active /\ x.appear = t.appear /\ x.miss = m
      /\ x.moving = t.moving /\ x.prints = t.prints /\ x.challenger = c /\ x.wins = w
  BY <1>1 DEF Track
<1> QED BY <1>2 DEF m, c, w

LEMMA EditActive ==
  ASSUME NEW t \in Track, NEW p \in 1 .. ActivateConfirms
  PROVE  LET x == [t EXCEPT !.appear = p, !.active = TRUE] IN
         /\ x \in Track
         /\ x.id = t.id /\ x.zone = t.zone /\ x.active = TRUE /\ x.appear = p /\ x.miss = t.miss
         /\ x.moving = t.moving /\ x.prints = t.prints /\ x.challenger = t.challenger /\ x.wins = t.wins
<1> DEFINE a == TRUE
<1>1. a \in BOOLEAN
  BY Confirms
<1> HIDE DEF a
<1>2. LET x == [t EXCEPT !.appear = p, !.active = a] IN
      /\ x \in Track
      /\ x.id = t.id /\ x.zone = t.zone /\ x.active = a /\ x.appear = p /\ x.miss = t.miss
      /\ x.moving = t.moving /\ x.prints = t.prints /\ x.challenger = t.challenger /\ x.wins = t.wins
  BY <1>1 DEF Track
<1> QED BY <1>2 DEF a

\* A history that ends with `snapshot`.
EndsWith(q, snapshot) ==
  q \in Seq(Snapshot) /\ Len(q) > 0 /\ Last(q) = snapshot /\ q[Len(q)] = snapshot

LEMMA NewStands ==
  ASSUME NEW snapshot \in Snapshot, NEW q, EndsWith(q, snapshot), NEW b \in snapshot, NEW on \in BOOLEAN
  PROVE  Standing(NewTrack(b, on), q)
<1>1. NewTrack(b, on) \in Track
  BY InBand, Confirms DEF NewTrack, Track
<1> QED BY <1>1, Confirms DEF NewTrack, Standing, EndsWith

LEMMA PublishTyped ==
  ASSUME NEW t \in Track, NEW b \in Band
  PROVE  /\ Publish(t, b) \in Track /\ Publish(t, b).active = t.active /\ Publish(t, b).zone = b
         /\ Publish(t, b).moving = None /\ Publish(t, b).challenger = t.challenger
         /\ Publish(t, b).id = t.id /\ Publish(t, b).miss = t.miss /\ Publish(t, b).wins = t.wins
BY EditBand DEF Publish

LEMMA MoveStands ==
  ASSUME NEW snapshot \in Snapshot, NEW q, EndsWith(q, snapshot), NEW b \in snapshot,
         NEW t \in Track, t.active, t.miss = 0, t.challenger = None,
         t.zone.family = t.id.family, b.family = t.id.family
  PROVE  /\ Standing(Move(t, b), q) /\ Move(t, b).active /\ Move(t, b).id = t.id
         /\ Move(t, b).miss = 0
         /\ Move(t, b).zone # t.zone => Move(t, b).zone = b /\ t.moving = b
<1> DEFINE p == Publish(t, b)
           u == [t EXCEPT !.moving = b, !.prints = 1]
           prints == t.prints + 1
           v == [t EXCEPT !.prints = prints]
<1>1. b \in Band /\ b # None
  BY InBand
<1>0. Len(q) \in Nat /\ Len(q) > 0
  BY DEF EndsWith
<1>2. Standing(p, q) /\ p.active /\ p.id = t.id /\ p.zone = b /\ p.miss = 0
  <2>1. /\ p \in Track /\ p.active /\ p.zone = b /\ p.moving = None /\ p.challenger = None
        /\ p.id = t.id /\ p.miss = 0
    BY <1>1, PublishTyped
  <2> HIDE DEF p
  <2> QED BY <1>0, <2>1 DEF Standing
<1>3. Standing(u, q) /\ u.active /\ u.id = t.id /\ u.zone = t.zone /\ u.miss = 0
  <2>3. /\ u \in Track /\ u.active = t.active /\ u.moving = b /\ u.challenger = t.challenger
        /\ u.miss = t.miss /\ u.zone = t.zone /\ u.id = t.id
    BY <1>1, EditMoving
  <2>1. /\ u \in Track /\ u.active /\ u.moving = b /\ u.challenger = None
        /\ u.miss = 0 /\ u.zone = t.zone /\ u.id = t.id
    <3> HIDE DEF u
    <3> QED BY <2>3
  <2>2. Len(q) \in Nat /\ Len(q) > 0 /\ b \in q[Len(q)]
    BY DEF EndsWith
  <2> HIDE DEF u
  <2> QED BY <2>1, <2>2 DEF Standing
<1>4. ASSUME t.moving = b, ~(t.prints + 1 >= ReplaceConfirms)
      PROVE  Standing(v, q) /\ v.active /\ v.id = t.id /\ v.zone = t.zone /\ v.miss = 0
  <2>0. prints \in 0 .. ReplaceConfirms - 1
    BY <1>4, Confirms DEF Track
  <2> HIDE DEF prints
  <2>1. /\ v \in Track /\ v.active /\ v.moving = b /\ v.challenger = None
        /\ v.miss = 0 /\ v.zone = t.zone /\ v.id = t.id
    BY <1>4, <2>0, EditPrints
  <2>2. Len(q) \in Nat /\ Len(q) > 0 /\ b \in q[Len(q)]
    BY DEF EndsWith
  <2> HIDE DEF v
  <2> QED BY <2>1, <2>2 DEF Standing
<1> HIDE DEF p, u, v
<1>5. \/ Move(t, b) = p /\ (t.zone = b \/ t.moving = b)
      \/ Move(t, b) = u
      \/ Move(t, b) = v /\ t.moving = b /\ ~(t.prints + 1 >= ReplaceConfirms)
  BY DEF Move, p, u, v
<1> QED BY <1>2, <1>3, <1>4, <1>5

\* A match: the shelf stays where it is unless this level was waiting for its
\* second print, and a pending track comes on the ladder at the candidate.
LEMMA OnMatchStands ==
  ASSUME NEW snapshot \in Snapshot, NEW q, EndsWith(q, snapshot), NEW b \in snapshot,
         NEW t, NEW r, Standing(t, r), Fits(t, b)
  PROVE  LET x == OnMatch(t, b) IN
         /\ Standing(x, q) /\ x.id = t.id /\ x.miss = 0
         /\ ~t.active /\ x.active => x.zone = b
         /\ t.active => x.active /\ (x.zone # t.zone => x.zone = b /\ t.moving = b)
<1> DEFINE s == [t EXCEPT !.miss = 0, !.challenger = None, !.wins = 0]
           seen == s.appear + 1
           u == [s EXCEPT !.appear = seen, !.active = TRUE]
           v == [s EXCEPT !.appear = seen, !.zone = b]
<1>1. b \in Band /\ b # None
  BY InBand
<1>0. /\ t \in Track /\ t.zone.family = t.id.family /\ b.family = t.id.family
      /\ Len(q) \in Nat /\ Len(q) > 0
  BY DEF Standing, Fits, EndsWith
<1>2. /\ s \in Track /\ s.miss = 0 /\ s.challenger = None /\ s.active = t.active /\ s.id = t.id
      /\ s.zone = t.zone /\ s.moving = t.moving /\ s.appear = t.appear
  BY <1>0, EditMatched
<1>3. CASE t.active
  <2>1. OnMatch(t, b) = Move(s, b)
    BY <1>3 DEF OnMatch
  <2> HIDE DEF s
  <2>3. s.active /\ s.zone.family = s.id.family /\ b.family = s.id.family
    BY <1>0, <1>2, <1>3
  <2>2. /\ Standing(Move(s, b), q) /\ Move(s, b).active /\ Move(s, b).id = s.id
        /\ Move(s, b).miss = 0
        /\ Move(s, b).zone # s.zone => Move(s, b).zone = b /\ s.moving = b
    BY <1>2, <2>3, MoveStands
  <2> QED BY <1>2, <1>3, <2>1, <2>2
<1>4. CASE ~t.active /\ Confirmed(t)
  <2>1. OnMatch(t, b) = Publish(u, b)
    BY <1>4 DEF OnMatch
  <2>2. t.appear \in 1 .. ActivateConfirms /\ t.appear < ActivateConfirms
    BY <1>4 DEF Standing, Track
  <2> HIDE DEF s
  <2>3. seen \in 1 .. ActivateConfirms /\ TRUE \in BOOLEAN
    BY <1>2, <2>2, Confirms
  <2> HIDE DEF seen
  <2>4. u \in Track /\ u.active /\ u.challenger = None /\ u.id = t.id /\ u.miss = 0
    BY <1>2, <2>3, EditActive
  <2> HIDE DEF u
  <2> DEFINE x == Publish(u, b)
  <2>5. /\ x \in Track /\ x.active /\ x.zone = b /\ x.moving = None /\ x.challenger = None
        /\ x.id = t.id /\ x.miss = 0
    BY <1>1, <2>4, PublishTyped
  <2> HIDE DEF x
  <2>6. Standing(x, q)
    BY <1>0, <2>5 DEF Standing
  <2> QED BY <1>4, <2>1, <2>5, <2>6 DEF x
<1>5. CASE ~t.active /\ ~Confirmed(t)
  <2>1. OnMatch(t, b) = v
    BY <1>5 DEF OnMatch
  <2>2. t.appear \in 1 .. ActivateConfirms /\ t.appear + 1 < ActivateConfirms /\ t.moving = None
    BY <1>5, Confirms DEF Standing, Track, Confirmed
  <2> HIDE DEF s
  <2>4. seen \in 1 .. ActivateConfirms /\ seen < ActivateConfirms
    BY <1>2, <2>2, Confirms
  <2> HIDE DEF seen
  <2>5. /\ v \in Track /\ v.active = s.active /\ v.challenger = s.challenger /\ v.id = s.id
        /\ v.zone = b /\ v.appear = seen /\ v.moving = s.moving /\ v.miss = s.miss
    <3>1. s \in Track /\ b \in Band /\ seen \in 1 .. ActivateConfirms
      BY <1>1, <1>2, <2>4
    <3> QED BY <3>1 DEF Track
  <2>3. /\ v \in Track /\ ~v.active /\ v.challenger = None /\ v.id = t.id /\ v.zone = b
        /\ v.appear < ActivateConfirms /\ v.moving = None /\ v.miss = 0
    BY <1>2, <1>5, <2>2, <2>4, <2>5
  <2> HIDE DEF v
  <2> QED BY <1>0, <1>5, <2>1, <2>3 DEF Standing, EndsWith
<1>6. t.active \in BOOLEAN
  BY DEF Standing, Track
<1> QED BY <1>3, <1>4, <1>5, <1>6

\* A challenge: the track stays as it is, or its rival, seen twice, comes on.
LEMMA OnChallengerStands ==
  ASSUME NEW r \in Seq(Snapshot), Len(r) <= Memory, NEW snapshot \in Snapshot, NEW b \in snapshot,
         NEW t, Standing(t, r), t.active, NEW x \in Range(OnChallenger(t, b))
  PROVE  /\ Standing(x, Remember(r, snapshot))
         /\ \/ x.id = t.id /\ x.zone = t.zone /\ x.miss = t.miss + 1
            \/ x.id = b /\ x.zone = b /\ b \in Last(r) /\ x.miss = 0
<1> DEFINE q == Remember(r, snapshot)
           wins == IF t.challenger = b THEN t.wins + 1 ELSE 1
           miss == t.miss + 1
           u == [t EXCEPT !.miss = miss, !.challenger = b, !.wins = wins]
<1>1. EndsWith(q, snapshot)
  BY Remembers DEF EndsWith
<1>2. b \in Band /\ b # None
  BY InBand
<1>3. t \in Track /\ t.wins \in Nat /\ t.miss \in Nat /\ wins \in Nat
  BY Confirms DEF Standing, Track
<1>4. \/ wins >= ReplaceConfirms /\ x = NewTrack(b, TRUE)
      \/ ~(wins >= ReplaceConfirms) /\ ~(miss >= RetireMisses) /\ x = u
  <2>1. OnChallenger(t, b) = IF wins >= ReplaceConfirms THEN <<NewTrack(b, TRUE)>>
                             ELSE IF miss >= RetireMisses THEN << >> ELSE <<u>>
    BY DEF OnChallenger
  <2> DEFINE won == wins >= ReplaceConfirms
             lost == miss >= RetireMisses
             new == NewTrack(b, TRUE)
  <2>2. OnChallenger(t, b) = IF won THEN <<new>> ELSE IF lost THEN << >> ELSE <<u>>
    BY <2>1
  <2> HIDE DEF won, lost, new, u
  <2>3. (won /\ x = new) \/ (~won /\ ~lost /\ x = u)
    BY <2>2, RangeOfShort
  <2> QED BY <2>3 DEF won, lost, new
<1>5. CASE wins >= ReplaceConfirms /\ x = NewTrack(b, TRUE)
  <2>1. t.challenger = b
    BY <1>5, Confirms
  <2>2. b \in Last(r)
    BY <1>2, <2>1 DEF Standing
  <2>3. x.id = b /\ x.zone = b /\ x.miss = 0
    BY <1>5 DEF NewTrack
  <2> HIDE DEF q
  <2> QED BY <1>1, <1>5, <2>2, <2>3, NewStands DEF q
<1>6. CASE ~(wins >= ReplaceConfirms) /\ ~(miss >= RetireMisses) /\ x = u
  <2>3. miss \in 0 .. RetireMisses - 1 /\ wins \in 0 .. ReplaceConfirms - 1
    BY <1>2, <1>3, <1>6, Confirms
  <2>4. t.miss \in 0 .. RetireMisses - 2
    BY <1>3, <1>6, Confirms
  <2>5. miss = t.miss + 1
    OBVIOUS
  <2> HIDE DEF q, wins, miss
  <2>6. /\ u \in Track /\ u.active = t.active /\ u.miss = miss /\ u.challenger = b /\ u.moving = t.moving
        /\ u.id = t.id /\ u.zone = t.zone
    <3>1. /\ t \in Track /\ b \in Band /\ miss \in 0 .. RetireMisses - 1
          /\ wins \in 0 .. ReplaceConfirms - 1
      BY <1>2, <1>3, <2>3
    <3> QED BY <3>1 DEF Track
  <2>1. /\ u \in Track /\ u.active /\ u.miss = t.miss + 1 /\ u.challenger = b /\ u.moving = t.moving
        /\ u.id = t.id /\ u.zone = t.zone
    BY <2>5, <2>6
  <2> HIDE DEF u
  <2>2. /\ Len(q) > u.miss /\ t.zone.family = t.id.family
        /\ u.moving # None => u.moving \in q[Len(q) - u.miss]
    <3>1. /\ Len(r) > t.miss /\ t.zone.family = t.id.family
          /\ t.moving # None => t.moving \in r[Len(r) - t.miss]
      BY DEF Standing
    <3>2. t.miss \in 0 .. RetireMisses - 1
      BY <2>4, Confirms
    <3>3. Len(q) > t.miss + 1 /\ q[Len(q) - (t.miss + 1)] = r[Len(r) - t.miss]
      BY <3>1, <3>2, Remembers DEF q
    <3> QED BY <2>1, <3>1, <3>3
  <2> QED BY <1>1, <1>6, <2>1, <2>2 DEF Standing, EndsWith, q
<1> QED BY <1>4, <1>5, <1>6

\* A miss: what waited for the track waits no more.
LEMMA OnMissStands ==
  ASSUME NEW r \in Seq(Snapshot), Len(r) <= Memory, NEW snapshot \in Snapshot,
         NEW t, Standing(t, r), NEW x \in Range(OnMiss(t))
  PROVE  /\ Standing(x, Remember(r, snapshot)) /\ t.active
         /\ x.id = t.id /\ x.zone = t.zone /\ x.miss = t.miss + 1
<1> DEFINE q == Remember(r, snapshot)
           miss == t.miss + 1
           u == [t EXCEPT !.miss = miss, !.challenger = None, !.wins = 0, !.moving = None, !.prints = 0]
<1>1. t.active /\ ~(miss >= RetireMisses) /\ x = u
  <2>1. OnMiss(t) = IF ~t.active \/ miss >= RetireMisses THEN << >> ELSE <<u>>
    BY DEF OnMiss
  <2> HIDE DEF miss, u
  <2> QED BY <2>1, RangeOfShort
<1>3. t \in Track /\ t.miss \in 0 .. RetireMisses - 1
  BY DEF Standing, Track
<1>4. miss \in 0 .. RetireMisses - 1
  BY <1>1, <1>3, Confirms
<1>7. Len(q) > miss
  <2>1. Len(r) > t.miss
    BY DEF Standing
  <2> QED BY <1>3, <2>1, Remembers
<1>8. miss = t.miss + 1
  OBVIOUS
<1> DEFINE v == None
           n == 0
<1>5. v \in Band \union {None} /\ n \in 0 .. ReplaceConfirms - 1
  BY Confirms
<1> HIDE DEF miss, v, n, q
<1>6. LET y == [t EXCEPT !.miss = miss, !.challenger = v, !.wins = n, !.moving = v, !.prints = n] IN
      /\ y \in Track /\ y.active = t.active /\ y.challenger = v /\ y.moving = v
      /\ y.id = t.id /\ y.zone = t.zone /\ y.miss = miss
  BY <1>3, <1>4, <1>5 DEF Track
<1>2. /\ u \in Track /\ u.active /\ u.challenger = None /\ u.moving = None
      /\ u.id = t.id /\ u.zone = t.zone /\ u.miss = miss
  BY <1>1, <1>6 DEF v, n
<1> HIDE DEF u
<1>9. Standing(u, q)
  BY <1>2, <1>7 DEF Standing
<1> QED BY <1>1, <1>2, <1>8, <1>9 DEF q

\* Whatever a step leaves stands on the history that ends with its snapshot.
LEMMA OutcomeStands ==
  ASSUME NEW ts \in Seq(Track), NEW r \in Seq(Snapshot), Len(r) <= Memory,
         \A k \in DOMAIN ts : Standing(ts[k], r),
         NEW snapshot \in Snapshot, NEW score \in Scores, NEW x, Outcome(ts, snapshot, score, x)
  PROVE  Standing(x, Remember(r, snapshot))
<1> DEFINE q == Remember(r, snapshot)
<1>1. EndsWith(q, snapshot)
  BY Remembers DEF EndsWith
<1> HIDE DEF q
<1>2. CASE \E i \in DOMAIN ts, b \in snapshot : Fits(ts[i], b) /\ x = OnMatch(ts[i], b)
  <2>1. PICK i \in DOMAIN ts, b \in snapshot : Fits(ts[i], b) /\ x = OnMatch(ts[i], b)
    BY <1>2
  <2>2. Standing(ts[i], r)
    OBVIOUS
  <2> QED BY <1>1, <2>1, <2>2, OnMatchStands DEF q
<1>3. CASE \E i \in DOMAIN ts, b \in snapshot : ts[i].active /\ x \in Range(OnChallenger(ts[i], b))
  <2>1. PICK i \in DOMAIN ts, b \in snapshot : ts[i].active /\ x \in Range(OnChallenger(ts[i], b))
    BY <1>3
  <2>2. Standing(ts[i], r)
    OBVIOUS
  <2> QED BY <2>1, <2>2, OnChallengerStands
<1>4. CASE \E i \in DOMAIN ts : x \in Range(OnMiss(ts[i]))
  <2>1. PICK i \in DOMAIN ts : x \in Range(OnMiss(ts[i]))
    BY <1>4
  <2>2. Standing(ts[i], r)
    OBVIOUS
  <2> QED BY <2>1, <2>2, OnMissStands
<1>5. CASE \E b \in snapshot : x = NewTrack(b, FALSE)
  BY <1>1, <1>5, NewStands DEF q
<1> QED BY <1>2, <1>3, <1>4, <1>5 DEF Outcome

LEMMA AdvancedStands ==
  ASSUME NEW ts \in Seq(Track), NEW r \in Seq(Snapshot), Len(r) <= Memory,
         \A k \in DOMAIN ts : Standing(ts[k], r), NEW snapshot \in Snapshot, NEW score \in Scores
  PROVE  LET us == Advanced(ts, snapshot, score) IN
         /\ us \in Seq(Track)
         /\ \A k \in DOMAIN us : Standing(us[k], Remember(r, snapshot)) /\ Outcome(ts, snapshot, score, us[k])
<1> DEFINE us == Advanced(ts, snapshot, score)
<1>1. PICK T : us \in Seq(T) /\ \A x \in T : Outcome(ts, snapshot, score, x)
  BY AdvancedOutcomes
<1> HIDE DEF us
<1>2. DOMAIN us = 1 .. Len(us) /\ Len(us) \in Nat /\ \A k \in DOMAIN us : us[k] \in T
  BY <1>1
<1>3. \A k \in DOMAIN us : Outcome(ts, snapshot, score, us[k])
  BY <1>1, <1>2
<1>4. \A k \in DOMAIN us : Standing(us[k], Remember(r, snapshot))
  BY <1>3, OutcomeStands
<1>5. \A k \in DOMAIN us : us[k] \in Track
  BY <1>4 DEF Standing
<1>6. us \in Seq(Track)
  <2>1. us = [k \in 1 .. Len(us) |-> us[k]]
    BY <1>1
  <2> QED BY <1>2, <1>5, <2>1
<1> QED BY <1>3, <1>4, <1>6 DEF us

\* Whatever a step leaves is backed by the history that ends with its snapshot.
LEMMA OutcomeBacked ==
  ASSUME NEW ts \in Seq(Track), NEW r \in Seq(Snapshot), Len(r) <= Memory,
         \A k \in DOMAIN ts : Standing(ts[k], r), \A k \in DOMAIN ts : Backed(ts[k], r),
         NEW snapshot \in Snapshot, NEW score \in Scores, NEW x, Outcome(ts, snapshot, score, x)
  PROVE  Backed(x, Remember(r, snapshot))
<1> DEFINE q == Remember(r, snapshot)
<1>1. /\ EndsWith(q, snapshot)
      /\ \A n \in 0 .. RetireMisses - 1 :
           Len(r) > n => q[Len(q) - (n + 1)] = r[Len(r) - n]
  BY Remembers DEF EndsWith
<1> HIDE DEF q
<1>0. Len(q) \in Nat /\ q[Len(q) - 0] = snapshot
  BY <1>1 DEF EndsWith
<1>2. SUFFICES ASSUME x.active PROVE \E b \in q[Len(q) - x.miss] : Fits(x, b)
  BY DEF Backed, q
<1>3. CASE \E i \in DOMAIN ts, b \in snapshot : Fits(ts[i], b) /\ x = OnMatch(ts[i], b)
  <2>1. PICK i \in DOMAIN ts, b \in snapshot : Fits(ts[i], b) /\ x = OnMatch(ts[i], b)
    BY <1>3
  <2>2. Standing(ts[i], r)
    OBVIOUS
  <2>3. x.id = ts[i].id /\ x.miss = 0 /\ (x.zone = b \/ x.zone = ts[i].zone)
    BY <1>1, <1>2, <2>1, <2>2, OnMatchStands
  <2>4. ShareSlot(b, b)
    BY InBand, Geometry
  <2>5. Fits(x, b)
    BY <2>1, <2>3, <2>4 DEF Fits
  <2> QED BY <1>0, <2>3, <2>5
<1>4. ASSUME NEW i \in DOMAIN ts, ts[i].active, x.id = ts[i].id, x.zone = ts[i].zone,
             x.miss = ts[i].miss + 1
      PROVE  \E b \in q[Len(q) - x.miss] : Fits(x, b)
  <2>1. Len(r) > ts[i].miss /\ ts[i] \in Track
    BY DEF Standing
  <2>2. ts[i].miss \in 0 .. RetireMisses - 1
    BY <2>1 DEF Track
  <2>3. q[Len(q) - x.miss] = r[Len(r) - ts[i].miss]
    BY <1>1, <1>4, <2>1, <2>2
  <2>4. PICK b \in r[Len(r) - ts[i].miss] : Fits(ts[i], b)
    BY <1>4 DEF Backed
  <2> QED BY <1>4, <2>3, <2>4 DEF Fits
<1>5. CASE \E i \in DOMAIN ts, b \in snapshot : ts[i].active /\ x \in Range(OnChallenger(ts[i], b))
  <2>1. PICK i \in DOMAIN ts, b \in snapshot : ts[i].active /\ x \in Range(OnChallenger(ts[i], b))
    BY <1>5
  <2>2. Standing(ts[i], r)
    OBVIOUS
  <2>3. \/ x.id = ts[i].id /\ x.zone = ts[i].zone /\ x.miss = ts[i].miss + 1
        \/ x.id = b /\ x.zone = b /\ x.miss = 0
    BY <2>1, <2>2, OnChallengerStands
  <2>4. ASSUME x.id = b, x.zone = b, x.miss = 0 PROVE \E c \in q[Len(q) - x.miss] : Fits(x, c)
    <3>1. ShareSlot(b, b)
      BY InBand, Geometry
    <3> QED BY <1>0, <2>4, <3>1 DEF Fits
  <2> QED BY <1>4, <2>1, <2>3, <2>4
<1>6. CASE \E i \in DOMAIN ts : x \in Range(OnMiss(ts[i]))
  <2>1. PICK i \in DOMAIN ts : x \in Range(OnMiss(ts[i]))
    BY <1>6
  <2>2. Standing(ts[i], r)
    OBVIOUS
  <2>3. ts[i].active /\ x.id = ts[i].id /\ x.zone = ts[i].zone /\ x.miss = ts[i].miss + 1
    BY <2>1, <2>2, OnMissStands
  <2> QED BY <1>4, <2>3
<1>7. CASE \E b \in snapshot : x = NewTrack(b, FALSE)
  BY <1>2, <1>7 DEF NewTrack
<1> QED BY <1>3, <1>5, <1>6, <1>7 DEF Outcome

\* With two prints to appear, a waiting track that is matched appears there.
LEMMA SecondPrintAppears ==
  ASSUME ActivateConfirms = 2, NEW t, NEW r, Standing(t, r), ~t.active, NEW b \in Band
  PROVE  OnMatch(t, b).active /\ OnMatch(t, b).zone = b
<1> DEFINE s == [t EXCEPT !.miss = 0, !.challenger = None, !.wins = 0]
           seen == s.appear + 1
           u == [s EXCEPT !.appear = seen, !.active = TRUE]
<1>1. t \in Track /\ t.appear = 1
  BY DEF Standing, Track
<1>2. s \in Track /\ s.appear = 1
  BY <1>1, EditMatched
<1>3. OnMatch(t, b) = Publish(u, b)
  BY <1>1 DEF OnMatch, Confirmed
<1> HIDE DEF s
<1>4. seen \in 1 .. ActivateConfirms
  BY <1>2
<1> HIDE DEF seen
<1>5. u \in Track /\ u.active
  BY <1>2, <1>4, EditActive
<1> HIDE DEF u
<1> QED BY <1>3, <1>5, PublishTyped

\* A level that no shelf stood for comes on the ladder, or starts to wait.
LEMMA ComesOrWaits ==
  ASSUME ActivateConfirms = 2, NEW ts \in Seq(Track), NEW r,
         \A k \in DOMAIN ts : Standing(ts[k], r),
         NEW snapshot \in Snapshot, NEW score \in Scores, NEW b \in snapshot, ~Stands(ts, b)
  PROVE  LET us == Advanced(ts, snapshot, score) IN
         Stands(us, b) \/ (Waits(us, b) /\ ~Waits(ts, b))
<1> DEFINE us == Advanced(ts, snapshot, score)
           m == Matches(ts, snapshot, score)
           f == Challengers(ts, m, snapshot)
<1>1. \A i \in DOMAIN ts : ts[i].active => ~ShareSlot(ts[i].zone, b)
  BY DEF Stands, Published
<1>2. b \in Band /\ b # None /\ ShareSlot(b, b)
  BY InBand, Geometry
<1>3. /\ DOMAIN m = DOMAIN ts
      /\ \A i \in DOMAIN ts : m[i] # None => m[i] \in snapshot /\ Fits(ts[i], m[i])
  BY MatchesFit
<1>4. DOMAIN f = DOMAIN ts /\ \A i \in DOMAIN ts : f[i] # None => ts[i].active /\ ShareSlot(ts[i].zone, f[i])
  BY ChallengersActive
<1>5. /\ \A i \in DOMAIN ts : Range(After(ts[i], m[i], f[i])) \subseteq Range(us)
      /\ \A c \in snapshot \ (Range(m) \union Range(f)) : NewTrack(c, FALSE) \in Range(us)
  BY AdvancedOutcomes
<1>m. ASSUME NEW i \in DOMAIN ts, Fits(ts[i], b), b \notin Range(m) PROVE NearAs(m, ts[i], i, b)
  BY <1>m, LeftFarther
<1> HIDE DEF us, m, f
<1>6. CASE b \in Range(m)
  <2>1. PICK i \in DOMAIN ts : m[i] = b
    BY <1>3, <1>6 DEF Range
  <2>2. ~ts[i].active /\ Standing(ts[i], r)
    BY <1>1, <1>2, <1>3, <2>1 DEF Fits
  <2> DEFINE x == OnMatch(ts[i], b)
  <2>3. x.active /\ x.zone = b
    BY <1>2, <2>2, SecondPrintAppears
  <2>4. x \in Range(us)
    <3>1. After(ts[i], m[i], f[i]) = <<x>>
      BY <1>2, <2>1 DEF After
    <3> HIDE DEF x
    <3> QED BY <1>5, <3>1, RangeOfShort
  <2> HIDE DEF x
  <2>5. PICK k \in DOMAIN us : us[k] = x
    BY <2>4 DEF Range
  <2>6. Stands(us, b)
    BY <1>2, <2>3, <2>5 DEF Stands, Published
  <2> QED BY <2>6 DEF us
<1>7. CASE b \notin Range(m)
  <2>1. b \notin Range(f)
    BY <1>1, <1>2, <1>4 DEF Range
  <2> DEFINE x == NewTrack(b, FALSE)
  <2>2. x \in Range(us) /\ ~x.active /\ x.zone = b
    BY <1>5, <1>7, <2>1 DEF NewTrack
  <2> HIDE DEF x
  <2>3. PICK k \in DOMAIN us : us[k] = x
    BY <2>2 DEF Range
  <2>4. Waits(us, b)
    BY <2>2, <2>3 DEF Waits, Published
  <2>5. ASSUME NEW i \in DOMAIN ts, ts[i].zone = b PROVE FALSE
    <3>1. Standing(ts[i], r)
      OBVIOUS
    <3>2. Fits(ts[i], b)
      BY <1>2, <2>5, <3>1 DEF Fits, Standing
    <3>3. m[i] # None /\ Distance(m[i], b) <= Distance(b, b)
      BY <1>7, <1>m, <2>5, <3>2 DEF NearAs
    <3>4. m[i] \in snapshot /\ m[i] # b
      BY <1>3, <1>7, <3>3 DEF Range
    <3>5. m[i] \in Band /\ Apart(m[i], b)
      BY <3>4 DEF Snapshot
    <3>6. TwiceMid(m[i]) # TwiceMid(b) /\ TwiceMid(m[i]) \in Int /\ TwiceMid(b) \in Int
      BY <1>2, <3>5, Geometry
    <3> QED BY <3>3, <3>6 DEF Distance
  <2>6. ~Waits(ts, b)
    BY <2>5 DEF Waits
  <2> QED BY <2>4, <2>6 DEF us
<1> QED BY <1>6, <1>7

(***************************************************************************)
(* The invariant.                                                          *)
(***************************************************************************)
LEMMA InitIInv == Init => IInv
<1> SUFFICES ASSUME Init PROVE IInv
  OBVIOUS
<1>1. << >> \in Seq(Track) /\ << >> \in Seq(Snapshot) /\ Len(<< >>) = 0 /\ DOMAIN << >> = {}
  OBVIOUS
<1>2. Memory \in Nat
  BY ConfirmsAssumption
<1>3. tracks = << >> /\ recent = << >> /\ bootstrapped = FALSE
  BY DEF Init
<1>4. tracks \in Seq(Track) /\ DOMAIN tracks = {}
  BY <1>1, <1>3
<1>5. History
  BY <1>1, <1>2, <1>3 DEF History
<1> QED BY <1>3, <1>4, <1>5 DEF IInv

LEMMA BootstrapIInv ==
  ASSUME NEW snapshot \in Snapshot, Bootstrap(snapshot)
  PROVE  IInv'
<1> DEFINE l == LowToHigh(snapshot)
           q == <<snapshot>>
           us == [k \in DOMAIN l |-> NewTrack(l[k], TRUE)]
<1>1. tracks' = us /\ bootstrapped' = TRUE /\ recent' = q
  BY DEF Bootstrap
<1>2. l \in Seq(snapshot)
  BY LowToHighSeq
<1> HIDE DEF l
<1>3. DOMAIN l = 1 .. Len(l) /\ Len(l) \in Nat /\ \A k \in DOMAIN l : l[k] \in snapshot
  BY <1>2
<1>4. EndsWith(q, snapshot) /\ Len(q) = 1
  BY DEF EndsWith, Last
<1> HIDE DEF q
<1>5. \A k \in DOMAIN l : Standing(NewTrack(l[k], TRUE), q)
  BY <1>3, <1>4, NewStands
<1>6. \A k \in DOMAIN l : NewTrack(l[k], TRUE) \in Track
  BY <1>5 DEF Standing
<1>b. \A k \in DOMAIN l : Backed(NewTrack(l[k], TRUE), q)
  <2> SUFFICES ASSUME NEW k \in DOMAIN l PROVE Backed(NewTrack(l[k], TRUE), q)
    OBVIOUS
  <2> DEFINE b == l[k]
  <2>1. b \in snapshot
    BY <1>3
  <2> HIDE DEF b
  <2>2. ShareSlot(b, b) /\ b \in q[Len(q) - 0]
    BY <1>4, <2>1, InBand, Geometry DEF EndsWith
  <2>3. Backed(NewTrack(b, TRUE), q)
    BY <2>2 DEF Backed, NewTrack, Fits
  <2> QED BY <2>3 DEF b
<1>7. DOMAIN us = DOMAIN l /\ \A k \in DOMAIN us : Standing(us[k], q) /\ Backed(us[k], q)
  BY <1>5, <1>b
<1> DEFINE fresh(b) == NewTrack(b, TRUE)
<1>8. us \in Seq(Track)
  <2>1. \A k \in DOMAIN l : fresh(l[k]) \in Track
    BY <1>6
  <2>2. us = [k \in DOMAIN l |-> fresh(l[k])]
    OBVIOUS
  <2> HIDE DEF fresh, us
  <2> QED BY <1>3, <2>1, <2>2
<1> HIDE DEF us
<1>9. Memory \in Nat /\ Memory > 1
  BY ConfirmsAssumption
<1> QED BY <1>1, <1>4, <1>7, <1>8, <1>9 DEF IInv, History, EndsWith

LEMMA AdvanceIInv ==
  ASSUME IInv, NEW snapshot \in Snapshot, NEW score \in Scores, Advance(snapshot, score)
  PROVE  /\ IInv'
         /\ Len(recent) > 0 /\ Last(recent') = snapshot
         /\ \A k \in DOMAIN tracks' : Outcome(tracks, snapshot, score, tracks'[k])
<1>1. /\ tracks' = Advanced(tracks, snapshot, score) /\ recent' = Remember(recent, snapshot)
      /\ bootstrapped /\ bootstrapped' = bootstrapped
  BY DEF Advance, Remember
<1>2. /\ tracks \in Seq(Track) /\ recent \in Seq(Snapshot) /\ Len(recent) <= Memory
      /\ \A k \in DOMAIN tracks : Standing(tracks[k], recent)
      /\ \A k \in DOMAIN tracks : Backed(tracks[k], recent)
      /\ Len(recent) > 0 /\ bootstrapped \in BOOLEAN
  BY <1>1 DEF IInv, History
<1>3. /\ tracks' \in Seq(Track)
      /\ \A k \in DOMAIN tracks' : Standing(tracks'[k], recent') /\ Outcome(tracks, snapshot, score, tracks'[k])
  BY <1>1, <1>2, AdvancedStands
<1>4. recent' \in Seq(Snapshot) /\ Len(recent') <= Memory /\ Len(recent') > 0 /\ Last(recent') = snapshot
  BY <1>1, <1>2, Remembers
<1>5. \A k \in DOMAIN tracks' : Backed(tracks'[k], recent')
  BY <1>1, <1>2, <1>3, OutcomeBacked
<1> QED BY <1>1, <1>2, <1>3, <1>4, <1>5 DEF IInv, History

LEMMA NextIInv == IInv /\ [Next]_vars => IInv'
<1> SUFFICES ASSUME IInv, [Next]_vars PROVE IInv'
  OBVIOUS
<1>1. CASE \E snapshot \in Snapshot : Bootstrap(snapshot)
  BY <1>1, BootstrapIInv
<1>2. CASE \E snapshot \in Snapshot, score \in Scores : Advance(snapshot, score)
  BY <1>2, AdvanceIInv
<1>3. CASE UNCHANGED vars
  BY <1>3 DEF vars, IInv, History
<1> QED BY <1>1, <1>2, <1>3 DEF Next

\* Every track is a track, and what it waits for is in the snapshots its count
\* of prints and misses goes back to (zone_tracks.py _on_match, _on_challenger,
\* _on_miss).
THEOREM Invariance == Spec => []IInv
BY InitIInv, NextIInv, PTL DEF Spec

LEMMA IInvTyped == IInv => TypeOK
<1> SUFFICES ASSUME IInv PROVE TypeOK
  OBVIOUS
<1>1. \A k \in DOMAIN tracks : tracks[k] \in Track
  BY DEF IInv
<1>2. \A k \in DOMAIN recent : recent[k] \in Snapshot
  BY DEF IInv, History
<1> QED BY <1>1, <1>2 DEF TypeOK, IInv, History

\* Counts of prints, misses and wins stay below the thresholds that end them,
\* whatever ladders the detector reports.
THEOREM TypeCorrectness == Spec => []TypeOK
BY Invariance, IInvTyped, PTL

LEMMA StepAdvances ==
  ASSUME Next, Steps
  PROVE  \E snapshot \in Snapshot, score \in Scores : Advance(snapshot, score)
<1>1. ASSUME NEW snapshot \in Snapshot, Bootstrap(snapshot) PROVE FALSE
  BY <1>1 DEF Bootstrap, Steps
<1> QED BY <1>1 DEF Next

\* A shelf comes on the ladder only when it, or a band of its family in its
\* step, was reported one snapshot earlier (_on_match of a pending track, and
\* _on_challenger).  A level that no shelf stood for comes on, or waits as it
\* did not before: a waiting track is offered its own level first, and takes it
\* (_assign_candidates).  With three prints to appear it would wait twice.
THEOREM AppearsTwiceAlways ==
  ASSUME ActivateConfirms = 2
  PROVE  Spec => AppearsTwice
<1> DEFINE Claim ==
      \A k \in Published(tracks') : LET t == tracks'[k] IN
        (\A j \in Published(tracks) : tracks[j].id # t.id) =>
          /\ t.zone \in Last(recent')
          /\ \E b \in Last(recent) : b.family = t.id.family /\ ShareSlot(b, t.zone)
           Comes ==
      \A b \in Last(recent') :
        \/ Stands(tracks, b) \/ Stands(tracks', b)
        \/ Waits(tracks', b) /\ ~Waits(tracks, b)
<1>1. ASSUME IInv, Next, Steps PROVE Claim
  <2> SUFFICES ASSUME NEW k \in Published(tracks'),
                      \A j \in Published(tracks) : tracks[j].id # tracks'[k].id
               PROVE  /\ tracks'[k].zone \in Last(recent')
                      /\ \E b \in Last(recent) : /\ b.family = tracks'[k].id.family
                                                 /\ ShareSlot(b, tracks'[k].zone)
    OBVIOUS
  <2>1. PICK snapshot \in Snapshot, score \in Scores : Advance(snapshot, score)
    BY <1>1, StepAdvances
  <2> DEFINE x == tracks'[k]
  <2>2. /\ Len(recent) > 0 /\ Last(recent') = snapshot
        /\ k \in DOMAIN tracks' /\ x.active /\ Outcome(tracks, snapshot, score, x)
    BY <1>1, <2>1, AdvanceIInv DEF Published
  <2>3. /\ recent \in Seq(Snapshot) /\ Len(recent) <= Memory
        /\ \A i \in DOMAIN tracks : Standing(tracks[i], recent)
    BY <1>1 DEF IInv, History
  <2>4. \A i \in DOMAIN tracks : tracks[i].active => tracks[i].id # x.id
    BY DEF Published
  <2> HIDE DEF x
  <2>5. CASE \E i \in DOMAIN tracks, b \in snapshot : Fits(tracks[i], b) /\ x = OnMatch(tracks[i], b)
    <3>1. PICK i \in DOMAIN tracks, b \in snapshot : Fits(tracks[i], b) /\ x = OnMatch(tracks[i], b)
      BY <2>5
    <3>2. EndsWith(Remember(recent, snapshot), snapshot)
      BY <2>3, Remembers DEF EndsWith
    <3>3. x.id = tracks[i].id /\ (~tracks[i].active /\ x.active => x.zone = b)
      BY <2>3, <3>1, <3>2, OnMatchStands
    <3>4. ~tracks[i].active /\ x.zone = b
      BY <2>2, <2>4, <3>3
    <3>5. tracks[i].zone \in Last(recent) /\ tracks[i].zone.family = x.id.family
      BY <2>3, <3>3, <3>4 DEF Standing
    <3>6. ShareSlot(tracks[i].zone, x.zone)
      BY <3>1, <3>4 DEF Fits
    <3> QED BY <2>2, <3>4, <3>5, <3>6 DEF x
  <2>6. CASE \E i \in DOMAIN tracks, b \in snapshot :
               tracks[i].active /\ x \in Range(OnChallenger(tracks[i], b))
    <3>1. PICK i \in DOMAIN tracks, b \in snapshot :
               tracks[i].active /\ x \in Range(OnChallenger(tracks[i], b))
      BY <2>6
    <3>2. \/ x.id = tracks[i].id
          \/ x.id = b /\ x.zone = b /\ b \in Last(recent)
      BY <2>3, <3>1, OnChallengerStands
    <3>3. x.id = b /\ x.zone = b /\ b \in Last(recent)
      BY <2>4, <3>1, <3>2
    <3>4. ShareSlot(b, b)
      BY Geometry, InBand
    <3> QED BY <2>2, <3>3, <3>4 DEF x
  <2>7. CASE \E i \in DOMAIN tracks : x \in Range(OnMiss(tracks[i]))
    <3>1. PICK i \in DOMAIN tracks : x \in Range(OnMiss(tracks[i]))
      BY <2>7
    <3>2. tracks[i].active /\ x.id = tracks[i].id
      BY <2>3, <3>1, OnMissStands
    <3> QED BY <2>4, <3>2
  <2>8. CASE \E b \in snapshot : x = NewTrack(b, FALSE)
    <3>1. ~x.active
      BY <2>8 DEF NewTrack
    <3> QED BY <2>2, <3>1
  <2> QED BY <2>2, <2>5, <2>6, <2>7, <2>8 DEF Outcome
<1>3. ASSUME IInv, Next, Steps PROVE Comes
  <2> SUFFICES ASSUME NEW b \in Last(recent'), ~Stands(tracks, b)
               PROVE  Stands(tracks', b) \/ (Waits(tracks', b) /\ ~Waits(tracks, b))
    OBVIOUS
  <2>1. PICK snapshot \in Snapshot, score \in Scores : Advance(snapshot, score)
    BY <1>3, StepAdvances
  <2>2. tracks' = Advanced(tracks, snapshot, score) /\ Last(recent') = snapshot
    BY <1>3, <2>1, AdvanceIInv DEF Advance
  <2>3. tracks \in Seq(Track) /\ \A k \in DOMAIN tracks : Standing(tracks[k], recent)
    BY <1>3 DEF IInv
  <2> QED BY <2>2, <2>3, ComesOrWaits
<1>2. IInv /\ [Next]_vars => [Steps => Claim /\ Comes]_vars
  <2> HIDE DEF Claim, Comes
  <2> QED BY <1>1, <1>3
<1> QED BY <1>2, Invariance, PTL DEF Spec, AppearsTwice

\* A published band moves only to a level that this snapshot and an earlier
\* one of its run print (_on_match's pending_bounds).
THEOREM MovesToPrintedLevelAlways == Spec => MovesToPrintedLevel
<1> DEFINE Claim ==
      \A j \in Published(tracks), k \in Published(tracks') :
        /\ tracks[j].id = tracks'[k].id /\ tracks[j].zone # tracks'[k].zone
        /\ \A i \in DOMAIN tracks \ {j} : tracks[i].id # tracks[j].id
        => /\ tracks'[k].zone \in Last(recent')
           /\ \E i \in DOMAIN recent : tracks'[k].zone \in recent[i]
<1>1. ASSUME IInv, Next, Steps PROVE Claim
  <2> SUFFICES ASSUME NEW j \in Published(tracks), NEW k \in Published(tracks'),
                      tracks[j].id = tracks'[k].id, tracks[j].zone # tracks'[k].zone,
                      \A i \in DOMAIN tracks \ {j} : tracks[i].id # tracks[j].id
               PROVE  /\ tracks'[k].zone \in Last(recent')
                      /\ \E i \in DOMAIN recent : tracks'[k].zone \in recent[i]
    OBVIOUS
  <2>1. PICK snapshot \in Snapshot, score \in Scores : Advance(snapshot, score)
    BY <1>1, StepAdvances
  <2> DEFINE x == tracks'[k]
             t == tracks[j]
  <2>2. /\ Len(recent) > 0 /\ Last(recent') = snapshot
        /\ k \in DOMAIN tracks' /\ x.active /\ Outcome(tracks, snapshot, score, x)
    BY <1>1, <2>1, AdvanceIInv DEF Published
  <2>3. /\ recent \in Seq(Snapshot) /\ Len(recent) <= Memory /\ Len(recent) \in Nat
        /\ DOMAIN recent = 1 .. Len(recent)
        /\ \A i \in DOMAIN tracks : Standing(tracks[i], recent)
    BY <1>1 DEF IInv, History
  <2>4. /\ j \in DOMAIN tracks /\ t.active /\ t.id = x.id /\ t.zone # x.zone
        /\ Standing(t, recent)
    BY <2>3 DEF Published
  <2>0. \A i \in DOMAIN tracks : tracks[i].id = x.id => i = j
    BY <2>4
  <2> HIDE DEF x
  <2>5. CASE \E i \in DOMAIN tracks, b \in snapshot : Fits(tracks[i], b) /\ x = OnMatch(tracks[i], b)
    <3>1. PICK i \in DOMAIN tracks, b \in snapshot : Fits(tracks[i], b) /\ x = OnMatch(tracks[i], b)
      BY <2>5
    <3>2. EndsWith(Remember(recent, snapshot), snapshot)
      BY <2>3, Remembers DEF EndsWith
    <3>3. /\ x.id = tracks[i].id
          /\ tracks[i].active => (x.zone # tracks[i].zone => x.zone = b /\ tracks[i].moving = b)
      BY <2>3, <3>1, <3>2, OnMatchStands
    <3>4. tracks[i] = t
      BY <2>0, <3>1, <3>3
    <3> HIDE DEF t
    <3>5. x.zone = b /\ t.moving = b /\ b # None
      BY <2>4, <3>3, <3>4, InBand
    <3>6. t.miss \in Nat /\ Len(recent) > t.miss /\ x.zone \in recent[Len(recent) - t.miss]
      BY <2>4, <3>5, Confirms DEF Standing, Track
    <3>7. Len(recent) - t.miss \in DOMAIN recent
      BY <2>3, <3>6
    <3> QED BY <2>2, <3>5, <3>6, <3>7 DEF x
  <2>6. CASE \E i \in DOMAIN tracks, b \in snapshot :
               tracks[i].active /\ x \in Range(OnChallenger(tracks[i], b))
    <3>1. PICK i \in DOMAIN tracks, b \in snapshot :
               tracks[i].active /\ x \in Range(OnChallenger(tracks[i], b))
      BY <2>6
    <3>2. \/ x.id = tracks[i].id /\ x.zone = tracks[i].zone
          \/ x.id = b /\ x.zone = b /\ b \in Last(recent)
      BY <2>3, <3>1, OnChallengerStands
    <3>3. x.zone = b /\ b \in Last(recent)
      BY <2>0, <2>4, <3>1, <3>2
    <3>4. Len(recent) \in DOMAIN recent /\ Last(recent) = recent[Len(recent)]
      BY <2>2, <2>3 DEF Last
    <3> QED BY <2>2, <3>1, <3>3, <3>4 DEF x
  <2>7. CASE \E i \in DOMAIN tracks : x \in Range(OnMiss(tracks[i]))
    <3>1. PICK i \in DOMAIN tracks : x \in Range(OnMiss(tracks[i]))
      BY <2>7
    <3>2. x.id = tracks[i].id /\ x.zone = tracks[i].zone
      BY <2>3, <3>1, OnMissStands
    <3> QED BY <2>0, <2>4, <3>2
  <2>8. CASE \E b \in snapshot : x = NewTrack(b, FALSE)
    <3>1. ~x.active
      BY <2>8 DEF NewTrack
    <3> QED BY <2>2, <3>1
  <2> QED BY <2>2, <2>5, <2>6, <2>7, <2>8 DEF Outcome
<1>2. IInv /\ [Next]_vars => [Steps => Claim]_vars
  BY <1>1
<1> QED BY <1>2, Invariance, PTL DEF Spec, MovesToPrintedLevel

\* k took the level z of a family i snapshots ago, at the latest.
Loyal(k, z, family, i) ==
  /\ k.active /\ k.id.family = family /\ ShareSlot(k.zone, z)
  /\ k.miss <= i /\ k.wins <= i
  /\ k.moving \notin {None, z} => k.prints <= i

Rivals(ts, r) ==
  \A j \in DOMAIN ts : ts[j].active =>
    \A i \in 0 .. ts[j].miss - 1 : ts[j].zone \in r[Len(r) - i] =>
      \E k \in DOMAIN ts : Loyal(ts[k], ts[j].zone, ts[j].id.family, i)

LEMMA SlotSymmetric ==
  ASSUME NEW a \in Band, NEW b \in Band, ShareSlot(a, b)
  PROVE  ShareSlot(b, a)
<1>1. /\ a.low \in Int /\ a.high \in Int /\ a.low <= a.high
      /\ b.low \in Int /\ b.high \in Int /\ b.low <= b.high
  BY BandAssumption
<1>2. EdgeGap \in Nat \ {0}
  BY GapAssumption
<1>3. Distance(a, b) = Distance(b, a)
  <2> DEFINE u == TwiceMid(a)
             v == TwiceMid(b)
  <2>1. u \in Int /\ v \in Int
    BY <1>1 DEF TwiceMid
  <2> HIDE DEF u, v
  <2>2. (IF u - v < 0 THEN -(u - v) ELSE u - v) = (IF v - u < 0 THEN -(v - u) ELSE v - u)
    BY <2>1
  <2> QED BY <2>2 DEF Distance, u, v
<1>4. Gap(a, b) < EdgeGap => Gap(b, a) < EdgeGap
  <2> DEFINE al == a.low
             ah == a.high
             bl == b.low
             bh == b.high
  <2>1. al \in Int /\ ah \in Int /\ al <= ah /\ bl \in Int /\ bh \in Int /\ bl <= bh
    BY <1>1
  <2> HIDE DEF al, ah, bl, bh
  <2>2. (IF al <= bl THEN bl - ah ELSE al - bh) < EdgeGap
          => (IF bl <= al THEN al - bh ELSE bl - ah) < EdgeGap
    BY <1>2, <2>1
  <2> QED BY <2>2 DEF Gap, al, ah, bl, bh
<1> QED BY <1>3, <1>4 DEF ShareSlot

\* A shelf that takes a level stays in its step.
LEMMA MoveLoyal ==
  ASSUME NEW t \in Track, t.active, t.miss = 0, t.wins = 0, NEW b \in Band, NEW z \in Band,
         ShareSlot(t.zone, z), NEW i \in Nat,
         \/ b = z
         \/ /\ i > 0 /\ i < ReplaceConfirms
            /\ t.moving \notin {None, z} => t.prints + 1 <= i
  PROVE  Loyal(Move(t, b), z, t.id.family, i)
<1> DEFINE p == Publish(t, b)
           u == [t EXCEPT !.moving = b, !.prints = 1]
           prints == t.prints + 1
           v == [t EXCEPT !.prints = prints]
<1>0. ShareSlot(z, z) /\ b # None /\ t.prints \in 0 .. ReplaceConfirms - 1 /\ ReplaceConfirms \in Nat
  BY Geometry, NoneAssumption, Confirms DEF Track
<1>1. /\ p.active /\ p.id = t.id /\ p.zone = b /\ p.moving = None /\ p.miss = 0 /\ p.wins = 0
  BY PublishTyped
<1>2. /\ u.active /\ u.id = t.id /\ u.zone = t.zone /\ u.moving = b /\ u.prints = 1
      /\ u.miss = 0 /\ u.wins = 0
  <2>1. /\ u.active = t.active /\ u.id = t.id /\ u.zone = t.zone /\ u.moving = b /\ u.prints = 1
        /\ u.miss = t.miss /\ u.wins = t.wins
    BY EditMoving
  <2> HIDE DEF u
  <2> QED BY <2>1
<1>3. ASSUME ~(prints >= ReplaceConfirms)
      PROVE  /\ v.active /\ v.id = t.id /\ v.zone = t.zone /\ v.moving = t.moving /\ v.prints = prints
             /\ v.miss = 0 /\ v.wins = 0
  <2>1. prints \in 0 .. ReplaceConfirms - 1
    BY <1>0, <1>3
  <2> HIDE DEF prints
  <2>2. /\ v.active = t.active /\ v.id = t.id /\ v.zone = t.zone /\ v.moving = t.moving
        /\ v.prints = prints /\ v.miss = t.miss /\ v.wins = t.wins
    BY <2>1, EditPrints
  <2> HIDE DEF v
  <2> QED BY <2>2
<1>4. \/ Move(t, b) = p /\ (t.zone = b \/ (t.moving = b /\ prints >= ReplaceConfirms))
      \/ Move(t, b) = u
      \/ Move(t, b) = v /\ t.moving = b /\ ~(prints >= ReplaceConfirms)
  BY DEF Move
<1> HIDE DEF p, u, v
<1>5. CASE Move(t, b) = p /\ (t.zone = b \/ (t.moving = b /\ prints >= ReplaceConfirms))
  <2>1. ShareSlot(b, z)
    BY <1>0, <1>5
  <2> QED BY <1>1, <1>5, <2>1 DEF Loyal
<1>6. CASE Move(t, b) = u
  BY <1>2, <1>6 DEF Loyal
<1>7. CASE Move(t, b) = v /\ t.moving = b /\ ~(prints >= ReplaceConfirms)
  BY <1>0, <1>3, <1>7 DEF Loyal
<1> QED BY <1>4, <1>5, <1>6, <1>7

LEMMA MatchLoyal ==
  ASSUME NEW t \in Track, t.active, NEW b \in Band, NEW z \in Band, NEW i \in Nat,
         ShareSlot(t.zone, z),
         \/ b = z
         \/ /\ i > 0 /\ i < ReplaceConfirms
            /\ t.moving \notin {None, z} => t.prints + 1 <= i
  PROVE  Loyal(OnMatch(t, b), z, t.id.family, i)
<1> DEFINE s == [t EXCEPT !.miss = 0, !.challenger = None, !.wins = 0]
<1>1. /\ s \in Track /\ s.miss = 0 /\ s.wins = 0 /\ s.active = t.active /\ s.id = t.id
      /\ s.zone = t.zone /\ s.moving = t.moving /\ s.prints = t.prints
  BY EditMatched
<1>2. OnMatch(t, b) = Move(s, b)
  BY DEF OnMatch
<1> HIDE DEF s
<1>3. /\ s.active /\ ShareSlot(s.zone, z)
      /\ \/ b = z
         \/ /\ i > 0 /\ i < ReplaceConfirms
            /\ s.moving \notin {None, z} => s.prints + 1 <= i
  BY <1>1
<1>4. Loyal(Move(s, b), z, s.id.family, i)
  BY <1>1, <1>3, MoveLoyal
<1> QED BY <1>1, <1>2, <1>4

\* What a challenge leaves: the rival if it won its last round, nothing if
\* this is the last miss, or else the track.
LEMMA ChallengeLeaves ==
  ASSUME NEW t \in Track, t.active, NEW b \in Band
  PROVE  \/ OnChallenger(t, b) = <<NewTrack(b, TRUE)>> /\ t.challenger = b /\ t.wins + 1 >= ReplaceConfirms
         \/ OnChallenger(t, b) = << >> /\ t.miss + 1 >= RetireMisses
         \/ \E x : /\ OnChallenger(t, b) = <<x>> /\ ~(t.miss + 1 >= RetireMisses)
                   /\ x.active /\ x.id = t.id /\ x.zone = t.zone /\ x.miss = t.miss + 1
                   /\ x.wins \in {1, t.wins + 1}
                   /\ x.moving = t.moving /\ x.prints = t.prints
<1> DEFINE wins == IF t.challenger = b THEN t.wins + 1 ELSE 1
           miss == t.miss + 1
           u == [t EXCEPT !.miss = miss, !.challenger = b, !.wins = wins]
           won == wins >= ReplaceConfirms
           lost == miss >= RetireMisses
           new == NewTrack(b, TRUE)
<1>1. OnChallenger(t, b) = IF won THEN <<new>> ELSE IF lost THEN << >> ELSE <<u>>
  BY DEF OnChallenger
<1>2. won => t.challenger = b /\ t.wins + 1 >= ReplaceConfirms
  BY Confirms
<1>3. wins \in {1, t.wins + 1}
  OBVIOUS
<1>4. /\ u.active = t.active /\ u.id = t.id /\ u.zone = t.zone /\ u.miss = miss /\ u.wins = wins
      /\ u.moving = t.moving /\ u.prints = t.prints
  <2> HIDE DEF miss, wins
  <2> QED BY DEF Track
<1>5. /\ u.active /\ u.id = t.id /\ u.zone = t.zone /\ u.miss = t.miss + 1 /\ u.wins \in {1, t.wins + 1}
      /\ u.moving = t.moving /\ u.prints = t.prints
  <2> HIDE DEF u, wins
  <2> QED BY <1>3, <1>4
<1>6. lost <=> t.miss + 1 >= RetireMisses
  OBVIOUS
<1> HIDE DEF won, lost, new, u, wins, miss
<1>7. CASE won
  BY <1>1, <1>2, <1>7 DEF new
<1>8. CASE ~won /\ lost
  BY <1>1, <1>6, <1>8
<1>9. CASE ~won /\ ~lost
  BY <1>1, <1>5, <1>6, <1>9
<1> QED BY <1>7, <1>8, <1>9

LEMMA MissLeaves ==
  ASSUME NEW t \in Track, t.active
  PROVE  \/ OnMiss(t) = << >> /\ t.miss + 1 >= RetireMisses
         \/ \E x : /\ OnMiss(t) = <<x>> /\ ~(t.miss + 1 >= RetireMisses)
                   /\ x.active /\ x.id = t.id /\ x.zone = t.zone /\ x.miss = t.miss + 1
                   /\ x.wins = 0 /\ x.moving = None
<1> DEFINE miss == t.miss + 1
           wins == 0
           none == None
           u == [t EXCEPT !.miss = miss, !.challenger = none, !.wins = wins, !.moving = none, !.prints = wins]
           lost == miss >= RetireMisses
<1>1. OnMiss(t) = IF lost THEN << >> ELSE <<u>>
  BY DEF OnMiss
<1>4. /\ u.active = t.active /\ u.id = t.id /\ u.zone = t.zone /\ u.miss = miss /\ u.wins = wins
      /\ u.moving = none
  <2> HIDE DEF miss, wins, none
  <2> QED BY DEF Track
<1>5. /\ u.active /\ u.id = t.id /\ u.zone = t.zone /\ u.miss = t.miss + 1 /\ u.wins = 0
      /\ u.moving = None
  <2> HIDE DEF u
  <2> QED BY <1>4
<1>6. lost <=> t.miss + 1 >= RetireMisses
  OBVIOUS
<1> HIDE DEF lost, u, wins, miss, none
<1>8. CASE lost
  BY <1>1, <1>6, <1>8
<1>9. CASE ~lost
  BY <1>1, <1>5, <1>6, <1>9
<1> QED BY <1>8, <1>9

\* A shelf that took a level is in its step one snapshot later, as long as
\* that snapshot confirms nothing else.
LEMMA LoyalStays ==
  ASSUME NEW ts \in Seq(Track), NEW snapshot \in Snapshot, NEW score \in Scores, NEW p \in DOMAIN ts, NEW z \in Band,
         NEW family, NEW n \in Nat, Loyal(ts[p], z, family, n),
         n + 1 < ReplaceConfirms, n + 1 < RetireMisses
  PROVE  \E x \in Range(Advanced(ts, snapshot, score)) : Loyal(x, z, family, n + 1)
<1> DEFINE t == ts[p]
           m == Matches(ts, snapshot, score)[p]
           f == Challengers(ts, Matches(ts, snapshot, score), snapshot)[p]
<1>1. /\ t \in Track /\ t.active /\ t.id.family = family /\ ShareSlot(t.zone, z)
      /\ t.miss <= n /\ t.wins <= n /\ (t.moving \notin {None, z} => t.prints <= n)
      /\ t.miss \in Nat /\ t.wins \in Nat /\ t.prints \in Nat
  <2>1. ts[p] \in Track
    OBVIOUS
  <2> QED BY <2>1, Confirms DEF Loyal, Track
<1>2. /\ m # None => m \in snapshot
      /\ f # None => f \in snapshot
  BY MatchesFit, ChallengersActive
<1>3. Range(After(t, m, f)) \subseteq Range(Advanced(ts, snapshot, score))
  BY AdvancedOutcomes
<1>4. RetireMisses \in Nat /\ ReplaceConfirms \in Nat
  BY Confirms
<1> HIDE DEF t, m, f
<1>5. \E x \in Range(After(t, m, f)) : Loyal(x, z, family, n + 1)
  <2>1. CASE m # None
    <3>1. After(t, m, f) = <<OnMatch(t, m)>> /\ m \in Band
      BY <1>2, <2>1, InBand DEF After
    <3>2. /\ n + 1 \in Nat /\ n + 1 > 0 /\ n + 1 < ReplaceConfirms
          /\ t.moving \notin {None, z} => t.prints + 1 <= n + 1
      BY <1>1, <1>4
    <3>3. Loyal(OnMatch(t, m), z, family, n + 1)
      BY <1>1, <3>1, <3>2, MatchLoyal
    <3> QED BY <3>1, <3>3, RangeOfShort
  <2>2. CASE m = None /\ f # None
    <3>1. After(t, m, f) = OnChallenger(t, f) /\ f \in Band
      BY <1>2, <2>2, InBand DEF After
    <3>2. ~(t.wins + 1 >= ReplaceConfirms) /\ ~(t.miss + 1 >= RetireMisses)
      BY <1>1, <1>4
    <3> DEFINE Kept(x) == /\ OnChallenger(t, f) = <<x>> /\ ~(t.miss + 1 >= RetireMisses)
                          /\ x.active /\ x.id = t.id /\ x.zone = t.zone /\ x.miss = t.miss + 1
                          /\ x.wins \in {1, t.wins + 1}
                          /\ x.moving = t.moving /\ x.prints = t.prints
    <3>5. \/ t.wins + 1 >= ReplaceConfirms
          \/ t.miss + 1 >= RetireMisses
          \/ \E x : Kept(x)
      BY <1>1, <3>1, ChallengeLeaves
    <3> HIDE DEF Kept
    <3>6. PICK x : Kept(x)
      BY <3>2, <3>5
    <3>3. /\ OnChallenger(t, f) = <<x>>
          /\ x.active /\ x.id = t.id /\ x.zone = t.zone /\ x.miss = t.miss + 1
          /\ x.wins \in {1, t.wins + 1}
          /\ x.moving = t.moving /\ x.prints = t.prints
      BY <3>6 DEF Kept
    <3>4. Loyal(x, z, family, n + 1)
      BY <1>1, <3>3 DEF Loyal
    <3> QED BY <3>1, <3>3, <3>4, RangeOfShort
  <2>3. CASE m = None /\ f = None
    <3>1. After(t, m, f) = OnMiss(t)
      BY <2>3 DEF After
    <3>2. ~(t.miss + 1 >= RetireMisses)
      BY <1>1, <1>4
    <3>3. PICK x : /\ OnMiss(t) = <<x>>
                   /\ x.active /\ x.id = t.id /\ x.zone = t.zone /\ x.miss = t.miss + 1
                   /\ x.wins = 0 /\ x.moving = None
      BY <1>1, <3>2, MissLeaves
    <3>4. Loyal(x, z, family, n + 1)
      BY <1>1, <3>3 DEF Loyal
    <3> QED BY <3>1, <3>3, <3>4, RangeOfShort
  <2> QED BY <2>1, <2>2, <2>3
<1> QED BY <1>3, <1>5

\* A step passes a shelf over for another one of its family in its step, which
\* takes the level the shelf is on.
LEMMA ServedElsewhere ==
  ASSUME NEW ts \in Seq(Track), NEW snapshot \in Snapshot, NEW score \in Scores, NEW l \in DOMAIN ts, ts[l].active,
         ts[l].zone.family = ts[l].id.family, Matches(ts, snapshot, score)[l] = None, ts[l].zone \in snapshot
  PROVE  /\ \E k \in DOMAIN ts : /\ k # l /\ ts[k].active /\ ts[k].id.family = ts[l].id.family
                                 /\ ShareSlot(ts[k].zone, ts[l].zone)
         /\ \E x \in Range(Advanced(ts, snapshot, score)) : Loyal(x, ts[l].zone, ts[l].id.family, 0)
<1> DEFINE z == ts[l].zone
           m == Matches(ts, snapshot, score)
<1>1. ts[l] \in Track /\ z \in Band /\ z # None
  BY InBand
<1>2. Fits(ts[l], z)
  BY <1>1, Geometry DEF Fits
<1>3. PICK k \in DOMAIN ts : ts[k].active /\ m[k] = z
  BY <1>2, MatchesServe
<1>4. Fits(ts[k], z) /\ k # l
  BY <1>1, <1>3, MatchesFit
<1>5. ts[k].id.family = ts[l].id.family /\ ShareSlot(ts[k].zone, z) /\ ts[k] \in Track
  BY <1>4 DEF Fits
<1>6. After(ts[k], m[k], Challengers(ts, m, snapshot)[k]) = <<OnMatch(ts[k], z)>>
  BY <1>1, <1>3 DEF After
<1>7. OnMatch(ts[k], z) \in Range(Advanced(ts, snapshot, score))
  <2>1. Range(After(ts[k], m[k], Challengers(ts, m, snapshot)[k])) \subseteq Range(Advanced(ts, snapshot, score))
    BY AdvancedOutcomes
  <2> QED BY <1>6, <2>1, RangeOfShort
<1>8. Loyal(OnMatch(ts[k], z), z, ts[k].id.family, 0)
  BY <1>1, <1>3, <1>5, MatchLoyal
<1> QED BY <1>3, <1>4, <1>5, <1>7, <1>8

LEMMA RivalsStay ==
  ASSUME RetireMisses <= ReplaceConfirms + 1,
         NEW ts \in Seq(Track), NEW r \in Seq(Snapshot), Len(r) <= Memory,
         \A k \in DOMAIN ts : Standing(ts[k], r), Rivals(ts, r), NEW snapshot \in Snapshot, NEW score \in Scores
  PROVE  Rivals(Advanced(ts, snapshot, score), Remember(r, snapshot))
<1> DEFINE us == Advanced(ts, snapshot, score)
           q == Remember(r, snapshot)
<1>1. \A k \in DOMAIN us : Standing(us[k], q) /\ Outcome(ts, snapshot, score, us[k])
  BY AdvancedStands
<1>2. RetireMisses \in Nat /\ ReplaceConfirms \in Nat
  BY Confirms
<1>3. EndsWith(q, snapshot)
  BY Remembers DEF EndsWith
<1>4. ASSUME NEW j \in DOMAIN us, us[j].active, NEW i \in 0 .. us[j].miss - 1,
             us[j].zone \in q[Len(q) - i]
      PROVE  \E x \in Range(us) : Loyal(x, us[j].zone, us[j].id.family, i)
  <2> DEFINE x == us[j]
  <2>1. x \in Track /\ x.miss \in 0 .. RetireMisses - 1 /\ Outcome(ts, snapshot, score, x)
    BY <1>1 DEF Standing, Track
  <2>2. x.miss # 0
    BY <1>4, <2>1
  <2> HIDE DEF x
  <2>3. PICK l \in DOMAIN ts : /\ ts[l].active /\ Matches(ts, snapshot, score)[l] = None
                               /\ x.zone = ts[l].zone /\ x.id = ts[l].id /\ x.miss = ts[l].miss + 1
    <3>1. CASE \E l \in DOMAIN ts, b \in snapshot : Fits(ts[l], b) /\ x = OnMatch(ts[l], b)
      <4>1. PICK l \in DOMAIN ts, b \in snapshot : Fits(ts[l], b) /\ x = OnMatch(ts[l], b)
        BY <3>1
      <4>2. Standing(ts[l], r)
        OBVIOUS
      <4>3. x.miss = 0
        BY <1>3, <4>1, <4>2, OnMatchStands
      <4> QED BY <2>2, <4>3
    <3>2. CASE \E l \in DOMAIN ts, b \in snapshot : /\ ts[l].active /\ Matches(ts, snapshot, score)[l] = None
                                                    /\ x \in Range(OnChallenger(ts[l], b))
      <4>1. PICK l \in DOMAIN ts, b \in snapshot : /\ ts[l].active /\ Matches(ts, snapshot, score)[l] = None
                                                   /\ x \in Range(OnChallenger(ts[l], b))
        BY <3>2
      <4>2. Standing(ts[l], r)
        OBVIOUS
      <4>3. \/ x.id = ts[l].id /\ x.zone = ts[l].zone /\ x.miss = ts[l].miss + 1
            \/ x.miss = 0
        BY <4>1, <4>2, OnChallengerStands
      <4> QED BY <2>2, <4>1, <4>3
    <3>3. CASE \E l \in DOMAIN ts : Matches(ts, snapshot, score)[l] = None /\ x \in Range(OnMiss(ts[l]))
      <4>1. PICK l \in DOMAIN ts : Matches(ts, snapshot, score)[l] = None /\ x \in Range(OnMiss(ts[l]))
        BY <3>3
      <4>2. Standing(ts[l], r)
        OBVIOUS
      <4> QED BY <4>1, <4>2, OnMissStands
    <3>4. CASE \E b \in snapshot : x = NewTrack(b, FALSE)
      BY <2>2, <3>4 DEF NewTrack
    <3> QED BY <2>1, <3>1, <3>2, <3>3, <3>4 DEF Outcome
  <2>4. /\ ts[l] \in Track /\ ts[l].zone.family = ts[l].id.family /\ Len(r) > ts[l].miss
        /\ ts[l].zone \in Band /\ ts[l].miss \in Nat /\ Len(r) \in Nat
    <3>1. Standing(ts[l], r)
      OBVIOUS
    <3> QED BY <3>1 DEF Standing, Track
  <2>5. /\ i \in Nat /\ i < ts[l].miss + 1 /\ ts[l].miss + 1 < RetireMisses
        /\ ts[l].zone \in q[Len(q) - i]
    BY <1>2, <1>4, <2>1, <2>3, <2>4 DEF x
  <2>6. \E y \in Range(us) : Loyal(y, ts[l].zone, ts[l].id.family, i)
    <3>1. CASE i = 0
      <4>1. ts[l].zone \in snapshot
        BY <1>3, <2>5, <3>1 DEF EndsWith
      <4> QED BY <2>3, <2>4, <3>1, <4>1, ServedElsewhere
    <3>2. CASE i # 0
      <4> DEFINE n == i - 1
      <4>1. /\ n \in Nat /\ n + 1 = i /\ n \in 0 .. ts[l].miss - 1 /\ n \in 0 .. RetireMisses - 1
            /\ Len(r) > n /\ n + 1 < RetireMisses /\ n + 1 < ReplaceConfirms
        BY <1>2, <2>4, <2>5, <3>2
      <4> HIDE DEF n
      <4>2. q[Len(q) - (n + 1)] = r[Len(r) - n]
        BY <4>1, Remembers
      <4>3. ts[l].zone \in r[Len(r) - n]
        BY <2>5, <4>1, <4>2
      <4>4. PICK p \in DOMAIN ts : Loyal(ts[p], ts[l].zone, ts[l].id.family, n)
        BY <2>3, <4>1, <4>3 DEF Rivals
      <4>5. \E y \in Range(us) : Loyal(y, ts[l].zone, ts[l].id.family, n + 1)
        BY <2>4, <4>1, <4>4, LoyalStays
      <4> QED BY <4>1, <4>5
    <3> QED BY <3>1, <3>2
  <2> QED BY <2>3, <2>6 DEF x
<1> HIDE DEF us, q
<1>5. Rivals(us, q)
  <2> SUFFICES ASSUME NEW j \in DOMAIN us, us[j].active, NEW i \in 0 .. us[j].miss - 1,
                      us[j].zone \in q[Len(q) - i]
               PROVE  \E k \in DOMAIN us : Loyal(us[k], us[j].zone, us[j].id.family, i)
    BY DEF Rivals
  <2>1. PICK x \in Range(us) : Loyal(x, us[j].zone, us[j].id.family, i)
    BY <1>4
  <2>2. PICK k \in DOMAIN us : us[k] = x
    BY DEF Range
  <2> QED BY <2>1, <2>2
<1> QED BY <1>5 DEF us, q

RivalsInv == IInv /\ Rivals(tracks, recent)

LEMMA NextRivals ==
  ASSUME RetireMisses <= ReplaceConfirms + 1, RivalsInv, [Next]_vars
  PROVE  RivalsInv'
<1>0. IInv'
  BY NextIInv DEF RivalsInv
<1>1. ASSUME NEW snapshot \in Snapshot, Bootstrap(snapshot) PROVE Rivals(tracks', recent')
  <2> DEFINE l == LowToHigh(snapshot)
             us == [k \in DOMAIN l |-> NewTrack(l[k], TRUE)]
  <2>1. tracks' = us
    BY <1>1 DEF Bootstrap
  <2> HIDE DEF l
  <2>2. \A j \in DOMAIN us : us[j].miss = 0
    BY DEF NewTrack
  <2> HIDE DEF us
  <2> QED BY <2>1, <2>2 DEF Rivals
<1>2. ASSUME NEW snapshot \in Snapshot, NEW score \in Scores, Advance(snapshot, score)
      PROVE  Rivals(tracks', recent')
  <2>1. tracks' = Advanced(tracks, snapshot, score) /\ recent' = Remember(recent, snapshot)
    BY <1>2 DEF Advance, Remember
  <2>2. /\ tracks \in Seq(Track) /\ recent \in Seq(Snapshot) /\ Len(recent) <= Memory
        /\ \A k \in DOMAIN tracks : Standing(tracks[k], recent)
        /\ Rivals(tracks, recent)
    BY DEF RivalsInv, IInv, History
  <2>3. Rivals(Advanced(tracks, snapshot, score), Remember(recent, snapshot))
    BY <2>2, RivalsStay
  <2> QED BY <2>1, <2>3
<1>3. ASSUME UNCHANGED vars PROVE Rivals(tracks', recent')
  BY <1>3 DEF vars, RivalsInv
<1>4. Rivals(tracks', recent')
  BY <1>1, <1>2, <1>3 DEF Next
<1>5. Rivals(tracks, recent)'
  BY <1>4 DEF Rivals
<1> QED BY <1>0, <1>5 DEF RivalsInv

LEMMA InitRivals == Init => RivalsInv
<1> SUFFICES ASSUME Init PROVE RivalsInv
  OBVIOUS
<1>1. IInv
  BY InitIInv
<1>2. tracks = << >> /\ DOMAIN tracks = {}
  BY DEF Init
<1> QED BY <1>1, <1>2 DEF RivalsInv, Rivals

\* A shelf leaves the ladder for a rival printed twice running in its step, or
\* after three snapshots without its band, or because another shelf of its
\* family in its step takes its prints (_on_challenger, _on_miss and the
\* assignment of _assign_candidates).  The proof needs the tuning of the code:
\* a shelf that misses is gone before another one can take a level, move on
\* from it and leave; with four misses to go and two prints to move it is not.
\* What stays was printed in its step by the last snapshot it did not miss.
THEOREM LeavesAfterAbsenceAlways ==
  ASSUME RetireMisses <= ReplaceConfirms + 1
  PROVE  Spec => LeavesAfterAbsence
<1> DEFINE Gone(t) == \A k \in Published(tracks') : tracks'[k].id # t.id
           Because(j, t) ==
             \/ \E b \in Ladder(tracks') : ShareSlot(b, t.zone) /\ Printed(b, 0) /\ Printed(b, 1)
             \/ /\ Len(recent') > RetireMisses
                /\ \A i \in 0 .. RetireMisses - 1 : ~Printed(t.zone, i)
             \/ \E k \in Published(tracks) \ {j} :
                  tracks[k].id.family = t.id.family /\ ShareSlot(tracks[k].zone, t.zone)
           Claim == \A j \in Published(tracks) : Gone(tracks[j]) => Because(j, tracks[j])
           Stays == \A k \in Published(tracks') : \E i \in 0 .. RetireMisses - 1, b \in Band :
                      /\ Printed(b, i) /\ b.family = tracks'[k].id.family
                      /\ ShareSlot(tracks'[k].zone, b)
<1>1. ASSUME RivalsInv, Next, Steps PROVE Claim
  <2> SUFFICES ASSUME NEW j \in Published(tracks), Gone(tracks[j]) PROVE Because(j, tracks[j])
    OBVIOUS
  <2>1. PICK snapshot \in Snapshot, score \in Scores : Advance(snapshot, score)
    BY <1>1, StepAdvances DEF RivalsInv
  <2> DEFINE t == tracks[j]
             m == Matches(tracks, snapshot, score)[j]
             f == Challengers(tracks, Matches(tracks, snapshot, score), snapshot)[j]
  <2>2. /\ tracks \in Seq(Track) /\ recent \in Seq(Snapshot) /\ Len(recent) <= Memory
        /\ \A k \in DOMAIN tracks : Standing(tracks[k], recent)
        /\ Rivals(tracks, recent) /\ IInv
    BY <1>1 DEF RivalsInv, IInv, History
  <2>3. /\ j \in DOMAIN tracks /\ t.active /\ Standing(t, recent)
    BY <2>2 DEF Published
  <2>4. tracks' = Advanced(tracks, snapshot, score) /\ recent' = Remember(recent, snapshot)
    BY <2>1 DEF Advance, Remember
  <2>5. Range(After(t, m, f)) \subseteq Range(tracks')
    BY <2>2, <2>3, <2>4, AdvancedOutcomes
  <2>6. \A x \in Range(tracks') : x.active => x.id # t.id
    <3> SUFFICES ASSUME NEW x \in Range(tracks'), x.active PROVE x.id # t.id
      OBVIOUS
    <3>1. PICK k \in DOMAIN tracks' : tracks'[k] = x
      BY DEF Range
    <3> QED BY <3>1 DEF Published
  <2>7. /\ m # None => m \in snapshot /\ Fits(t, m)
        /\ f # None => f \in snapshot /\ ShareSlot(t.zone, f)
    BY <2>2, <2>3, MatchesFit, ChallengersActive
  <2>8. /\ t \in Track /\ t.zone \in Band /\ t.zone.family = t.id.family /\ Len(recent) > t.miss
        /\ t.miss \in 0 .. RetireMisses - 1 /\ Len(recent) \in Nat
        /\ t.challenger # None => t.challenger \in Last(recent)
    BY <2>2, <2>3 DEF Standing, Track
  <2>9. /\ EndsWith(recent', snapshot)
        /\ \A n \in 0 .. RetireMisses - 1 :
             Len(recent) > n => /\ Len(recent') > n + 1
                                /\ recent'[Len(recent') - (n + 1)] = recent[Len(recent) - n]
    BY <2>2, <2>4, Remembers DEF EndsWith
  <2>10. RetireMisses \in Nat /\ RetireMisses > 1 /\ Len(recent') \in Nat
    BY <2>9, Confirms DEF EndsWith
  <2> HIDE DEF t, m, f
  <2>11. m = None
    <3> SUFFICES ASSUME m # None PROVE FALSE
      OBVIOUS
    <3>1. OnMatch(t, m) \in Range(tracks')
      BY <2>5, RangeOfShort DEF After
    <3>2. OnMatch(t, m).active /\ OnMatch(t, m).id = t.id
      BY <2>3, <2>7, <2>9, OnMatchStands
    <3> QED BY <2>6, <3>1, <3>2
  <2>12. \/ /\ f # None /\ t.challenger = f /\ NewTrack(f, TRUE) \in Range(tracks')
         \/ t.miss + 1 >= RetireMisses
    <3>1. CASE f # None
      <4>1. Range(OnChallenger(t, f)) \subseteq Range(tracks') /\ f \in Band
        BY <2>5, <2>7, <2>11, <3>1, InBand DEF After
      <4>2. \/ OnChallenger(t, f) = <<NewTrack(f, TRUE)>> /\ t.challenger = f
            \/ t.miss + 1 >= RetireMisses
            \/ \E x : OnChallenger(t, f) = <<x>> /\ x.active /\ x.id = t.id
        <5> DEFINE Kept(x) == /\ OnChallenger(t, f) = <<x>> /\ ~(t.miss + 1 >= RetireMisses)
                              /\ x.active /\ x.id = t.id /\ x.zone = t.zone /\ x.miss = t.miss + 1
                              /\ x.wins \in {1, t.wins + 1}
                              /\ x.moving = t.moving /\ x.prints = t.prints
        <5>1. t \in Track /\ t.active /\ f \in Band
          BY <2>3, <2>8, <4>1
        <5>2. \/ OnChallenger(t, f) = <<NewTrack(f, TRUE)>> /\ t.challenger = f
              \/ t.miss + 1 >= RetireMisses
              \/ \E x : Kept(x)
          BY <5>1, ChallengeLeaves
        <5>3. \A x : Kept(x) => OnChallenger(t, f) = <<x>> /\ x.active /\ x.id = t.id
          OBVIOUS
        <5> HIDE DEF Kept
        <5> QED BY <5>2, <5>3
      <4> QED BY <2>6, <3>1, <4>1, <4>2, RangeOfShort
    <3>2. CASE f = None
      <4>1. Range(OnMiss(t)) \subseteq Range(tracks')
        BY <2>5, <2>11, <3>2 DEF After
      <4>2. \/ t.miss + 1 >= RetireMisses
            \/ \E x : OnMiss(t) = <<x>> /\ x.active /\ x.id = t.id
        BY <2>3, <2>8, MissLeaves
      <4> QED BY <2>6, <4>1, <4>2, RangeOfShort
    <3> QED BY <3>1, <3>2
  <2>13. CASE f # None /\ t.challenger = f /\ NewTrack(f, TRUE) \in Range(tracks')
    <3>1. f \in Ladder(tracks')
      <4>1. PICK k \in DOMAIN tracks' : tracks'[k] = NewTrack(f, TRUE)
        BY <2>13 DEF Range
      <4>2. k \in Published(tracks') /\ tracks'[k].zone = f
        BY <4>1 DEF Published, NewTrack
      <4> QED BY <4>2 DEF Ladder
    <3>2. ShareSlot(f, t.zone)
      BY <2>7, <2>8, <2>13, InBand, SlotSymmetric
    <3>3. Printed(f, 0)
      BY <2>7, <2>9, <2>10, <2>13 DEF Printed, EndsWith
    <3>4. Printed(f, 1)
      <4>1. Len(recent) > 0 /\ 0 \in 0 .. RetireMisses - 1
        BY <2>8, <2>10
      <4>2. Len(recent') > 0 + 1 /\ recent'[Len(recent') - (0 + 1)] = recent[Len(recent) - 0]
        BY <2>9, <4>1
      <4>3. f \in recent[Len(recent)]
        BY <2>8, <2>13 DEF Last
      <4> QED BY <2>8, <2>10, <4>2, <4>3 DEF Printed
    <3> QED BY <3>1, <3>2, <3>3, <3>4 DEF t
  <2>14. CASE t.miss + 1 >= RetireMisses
    <3>1. t.miss = RetireMisses - 1
      BY <2>8, <2>10, <2>14
    <3>2. Len(recent') > RetireMisses
      BY <2>8, <2>9, <2>10, <3>1
    <3>3. ASSUME NEW i \in 0 .. RetireMisses - 1, Printed(t.zone, i)
          PROVE  \E k \in Published(tracks) \ {j} :
                   tracks[k].id.family = t.id.family /\ ShareSlot(tracks[k].zone, t.zone)
      <4>1. CASE i = 0
        <5>1. t.zone \in snapshot
          BY <2>9, <2>10, <3>3, <4>1 DEF Printed, EndsWith
        <5>2. \E k \in DOMAIN tracks : /\ k # j /\ tracks[k].active
                                       /\ tracks[k].id.family = t.id.family
                                       /\ ShareSlot(tracks[k].zone, t.zone)
          BY <2>2, <2>3, <2>8, <2>11, <5>1, ServedElsewhere DEF t, m
        <5> QED BY <5>2 DEF Published
      <4>2. CASE i # 0
        <5> DEFINE n == i - 1
        <5>1. /\ n + 1 = i /\ n \in 0 .. t.miss - 1 /\ n \in 0 .. RetireMisses - 1
              /\ Len(recent) > n
          BY <2>8, <2>10, <3>1, <4>2
        <5> HIDE DEF n
        <5>2. recent'[Len(recent') - i] = recent[Len(recent) - n]
          BY <2>9, <5>1
        <5>3. t.zone \in recent[Len(recent) - n]
          BY <3>3, <5>2 DEF Printed
        <5>4. PICK k \in DOMAIN tracks : Loyal(tracks[k], t.zone, t.id.family, n)
          BY <2>2, <2>3, <5>1, <5>3 DEF Rivals, t
        <5>5. tracks[k].miss <= n /\ n < t.miss /\ tracks[k].miss \in Int
          <6>1. tracks[k] \in Track
            BY <2>2
          <6> QED BY <2>8, <5>1, <5>4, <6>1 DEF Loyal, Track
        <5>6. k # j
          BY <2>8, <5>1, <5>5 DEF t
        <5> QED BY <5>4, <5>6 DEF Loyal, Published
      <4> QED BY <4>1, <4>2
    <3> QED BY <3>2, <3>3 DEF t
  <2> QED BY <2>12, <2>13, <2>14
<1>5. ASSUME IInv' PROVE Stays
  <2> SUFFICES ASSUME NEW k \in Published(tracks')
               PROVE  \E i \in 0 .. RetireMisses - 1, b \in Band :
                        /\ Printed(b, i) /\ b.family = tracks'[k].id.family
                        /\ ShareSlot(tracks'[k].zone, b)
    OBVIOUS
  <2> DEFINE x == tracks'[k]
             i == x.miss
  <2>1. /\ k \in DOMAIN tracks' /\ x.active /\ Standing(x, recent') /\ Backed(x, recent')
        /\ recent' \in Seq(Snapshot)
    BY <1>5 DEF IInv, History, Published
  <2> HIDE DEF x
  <2>2. PICK b \in recent'[Len(recent') - i] : Fits(x, b)
    BY <2>1 DEF Backed
  <2>3. i \in 0 .. RetireMisses - 1 /\ Len(recent') > i
    BY <2>1 DEF Standing, Track
  <2>4. b \in Band
    <3>1. Len(recent') \in Nat /\ RetireMisses \in Nat
      BY <2>1, Confirms
    <3>2. Len(recent') - i \in 1 .. Len(recent')
      BY <2>3, <3>1
    <3> HIDE DEF i
    <3>3. recent'[Len(recent') - i] \in Snapshot
      BY <2>1, <3>2
    <3> QED BY <3>3, InBand
  <2> HIDE DEF i
  <2>5. Printed(b, i) /\ b.family = x.id.family /\ ShareSlot(x.zone, b)
    BY <2>2, <2>3 DEF Printed, Fits
  <2> QED BY <2>3, <2>4, <2>5 DEF x
<1>2. RivalsInv /\ RivalsInv' /\ [Next]_vars => [Steps => Claim /\ Stays]_vars
  <2> HIDE DEF Claim, Stays
  <2> QED BY <1>1, <1>5 DEF RivalsInv
<1>3. RivalsInv /\ [Next]_vars => RivalsInv'
  BY NextRivals
<1>4. Init => RivalsInv
  BY InitRivals
<1> QED BY <1>2, <1>3, <1>4, PTL DEF Spec, LeavesAfterAbsence

(***************************************************************************)
(* THE PUBLISHED LADDER.  Whatever the evidence, its bands are a snapshot, *)
(* so a refresh is a step of the tracks.                                   *)
(***************************************************************************)
\* Every band the detector can report.
Bands ==
  {b \in [low : Int, high : Int, family : {"4h", "1d"} \X Styles] : b.low <= b.high}

LEMMA LawfulBand ==
  ASSUME NEW z \in Lawful
  PROVE  BandOf(z) \in Bands /\ z.score \in Int
<1>1. z.low \in Int /\ z.high \in Int /\ z.low <= z.high /\ z.style \in Styles /\ z.score \in Int
  BY DEF Lawful
<1>2. Family(z) \in {"4h", "1d"} \X Styles
  BY <1>1 DEF Family
<1> QED BY <1>1, <1>2 DEF BandOf, Bands

LEMMA KnownReports ==
  ASSUME Bands \subseteq Band, Known
  PROVE  /\ Reported(ladder) \in Snapshot
         /\ ScoreIn(ladder) \in [Band -> Int]
<1>1. /\ ladder \in Seq(Lawful) /\ ToSet(ladder) = Elems(ladder)
      /\ \A y, z \in Elems(ladder) : BandOf(y) # BandOf(z) => Apart(BandOf(y), BandOf(z))
  BY KnownSpaced
<1>2. \A z \in Elems(ladder) : z \in Lawful
  BY <1>1 DEF Elems
<1> DEFINE R == Reported(ladder)
<1>3. \A b : b \in R <=> \E z \in Elems(ladder) : b = BandOf(z)
  BY <1>1 DEF Reported
<1>4. R \subseteq Band
  BY <1>2, <1>3, LawfulBand
<1>5. IsFiniteSet(R)
  <2>1. Len(ladder) \in Nat /\ DOMAIN ladder = 1 .. Len(ladder)
    BY <1>1
  <2> DEFINE f == [k \in 1 .. Len(ladder) |-> BandOf(ladder[k])]
  <2>2. f \in Surjection(1 .. Len(ladder), R)
    <3>1. \A k \in 1 .. Len(ladder) : BandOf(ladder[k]) \in R
      BY <1>3, <2>1 DEF Elems
    <3>2. \A b \in R : \E k \in 1 .. Len(ladder) : b = BandOf(ladder[k])
      BY <1>3, <2>1 DEF Elems
    <3> HIDE DEF R
    <3> QED BY <3>1, <3>2 DEF Surjection
  <2>3. IsFiniteSet(1 .. Len(ladder))
    BY <2>1, FS_Interval
  <2> HIDE DEF f, R
  <2> QED BY <2>2, <2>3, FS_Surjection
<1>6. \A a, b \in R : a # b => Apart(a, b)
  BY <1>1, <1>3
<1>7. R \in Snapshot
  <2> HIDE DEF R
  <2> QED BY <1>4, <1>5, <1>6 DEF Snapshot
<1>8. ScoreIn(ladder) \in [Band -> Int]
  <2> DEFINE best(b) == CHOOSE z \in ToSet(ladder) : BandOf(z) = b
  <2>1. \A b \in R : best(b).score \in Int
    <3> SUFFICES ASSUME NEW b \in R PROVE best(b).score \in Int
      OBVIOUS
    <3>1. best(b) \in ToSet(ladder)
      BY <1>1, <1>3
    <3> HIDE DEF best
    <3> QED BY <1>1, <1>2, <3>1, LawfulBand
  <2>2. ScoreIn(ladder) = [b \in Band |-> IF b \in R THEN best(b).score ELSE 0]
    BY DEF ScoreIn
  <2> HIDE DEF best, R
  <2> QED BY <2>1, <2>2
<1> QED BY <1>7, <1>8

\* A refresh leaves the ladder to the bars.
LEMMA RefreshKnown == RefreshSpec => []Known
<1>1. RefreshInit => LadderInit
  BY DEF RefreshInit
<1>2. [RefreshNext]_refreshVars => [LadderNext]_ladderVars
  BY DEF RefreshNext, Close, Refresh, refreshVars
<1>3. RefreshSpec => LadderSpec
  BY <1>1, <1>2, PTL DEF RefreshSpec, LadderSpec
<1> QED BY <1>3, LadderKnown, PTL

\* ReportsSnapshots for all evidence, prices and knobs: the zones that the spacing and
\* the gap fills leave (_enforce_support_zone_spacing, _fill_persistent_wick_floor_gaps)
\* are, as bands, a snapshot as zone_tracks.py expects it.
THEOREM ReportsSnapshotsAlways ==
  ASSUME Bands \subseteq Band
  PROVE  RefreshSpec => []ReportsSnapshots
<1>1. Known => ReportsSnapshots
  BY KnownReports DEF ReportsSnapshots
<1> QED BY <1>1, RefreshKnown, PTL

\* The joined system implements the tracks over arbitrary snapshots: it starts as they
\* do, a rebuild (refresh_zones) is an advance or a bootstrap of theirs with a snapshot
\* and scores, and the bars in between leave them alone.
THEOREM RefreshImplementsTracks ==
  ASSUME Bands \subseteq Band, [Band -> Int] \subseteq Scores
  PROVE  RefreshSpec => Spec
<1>1. RefreshInit => Init
  BY DEF RefreshInit
<1>2. Known /\ [RefreshNext]_refreshVars => [Next]_vars
  <2> SUFFICES ASSUME Known, RefreshNext PROVE [Next]_vars
    BY DEF refreshVars
  <2>1. CASE Close
    BY <2>1 DEF Close
  <2>2. CASE Refresh
    <3> DEFINE snapshot == Reported(ladder)
               score == ScoreIn(ladder)
    <3>1. snapshot \in Snapshot /\ score \in Scores
      BY KnownReports
    <3>2. Advance(snapshot, score) \/ Bootstrap(snapshot)
      BY <2>2 DEF Refresh
    <3> HIDE DEF snapshot, score
    <3> QED BY <3>1, <3>2 DEF Next
  <2> QED BY <2>1, <2>2 DEF RefreshNext
<1> QED BY <1>1, <1>2, RefreshKnown, PTL DEF RefreshSpec, Spec

\* What follows for the published ladder, whatever bars print and whenever cycles run:
\* no shelf flickers on or off, nor is dragged by one touch.
THEOREM PublishedShelves ==
  ASSUME Bands \subseteq Band, [Band -> Int] \subseteq Scores,
         ActivateConfirms = 2, RetireMisses <= ReplaceConfirms + 1
  PROVE  RefreshSpec => /\ []TypeOK
                        /\ AppearsTwice /\ MovesToPrintedLevel /\ LeavesAfterAbsence
<1>1. RefreshSpec => Spec
  BY RefreshImplementsTracks
<1> QED BY <1>1, TypeCorrectness, AppearsTwiceAlways, MovesToPrintedLevelAlways,
           LeavesAfterAbsenceAlways, PTL
=============================================================================
