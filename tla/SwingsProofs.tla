---------------------------- MODULE SwingsProofs ----------------------------
(***************************************************************************)
(* What a replay holds bar by bar is what the live refresh reads off the   *)
(* whole frame (IncrementalAgrees), a recorded reclaim never moves         *)
(* (ReclaimsAreFrozen) and a later bar never takes a shelf its origin      *)
(* (OriginsPersist): for every set of candles, swing order, knob, length   *)
(* of a day and history.                                                   *)
(*                                                                         *)
(* A high is confirmed when its right side is complete, so its index tells *)
(* when: recorded and pending highs have indexes whose right side was      *)
(* complete before, and the two highs a bar may confirm are new.  All bars *)
(* of a right side stay below the high, so none of their closes clears it  *)
(* and only the newest bar can (ReclaimInv).                               *)
(*                                                                         *)
(* The reducer keeps all pivots but the last of its list (Keeps), by       *)
(* induction over the pivots of a bar.                                     *)
(*                                                                         *)
(* For the agreement each part of the state is an operator of the bars,    *)
(* and the operator over one bar more is the operator before and what      *)
(* Advance does: the averages and lists are folds, which go on where they  *)
(* ended (FoldConcat); the pivots of a frame are those found before and    *)
(* those at its new center (FindPivotsStep); a first reclaim is kept, or   *)
(* is the new bar (FirstReclaimStep); the rows of a day are consecutive,   *)
(* the newest day is the one after the whole ones, and it becomes whole    *)
(* when its bucket has all its bars (DaysFit).  That labels given to the   *)
(* reduced list again are the labels it has (Labelled) is what lets the    *)
(* incremental state skip the last pass of the extract.                    *)
(***************************************************************************)
EXTENDS Swings, FiniteSetTheorems, TLAPS

Terms == {"external", "internal"}

Order(term) == IF term = "external" THEN ExternalOrder ELSE InternalOrder

\* The highs whose right side is complete in a history of n bars.
ConfirmedBy(n) == {key \in Terms \X Int : key[2] <= n - Order(key[1])}

ReclaimInv ==
  /\ series.bars \in Seq(Candle)
  /\ DOMAIN reclaims \subseteq ConfirmedBy(Len(series.bars))
  /\ \A p \in pending : Key(p) \in ConfirmedBy(Len(series.bars)) \ DOMAIN reclaims
  /\ \A p, q \in pending : Key(p) = Key(q) => p = q

\* The members of a concatenation are those of its two parts.
LEMMA RangeOfConcatenation ==
  ASSUME NEW S, NEW x \in Seq(S), NEW y \in Seq(S), NEW e \in Range(x \o y)
  PROVE  e \in Range(x) \/ e \in Range(y)
<1>1. PICK i \in 1 .. Len(x) + Len(y) : e = (x \o y)[i]
  BY DEF Range
<1>2. CASE i <= Len(x)
  BY <1>1, <1>2 DEF Range
<1>3. CASE i > Len(x)
  <2>1. e = y[i - Len(x)] /\ i - Len(x) \in 1 .. Len(y)
    BY <1>1, <1>3
  <2> QED BY <2>1 DEF Range
<1> QED BY <1>1, <1>2, <1>3

LEMMA OneOrNone ==
  ASSUME NEW S, NEW a \in S, NEW P \in BOOLEAN
  PROVE  LET list == IF P THEN <<a>> ELSE << >>
         IN  list \in Seq(S) /\ \A e \in Range(list) : P /\ e = a
<1>1. CASE P
  <2>1. <<a>> \in Seq(S) /\ DOMAIN <<a>> = 1 .. 1 /\ <<a>>[1] = a
    OBVIOUS
  <2>2. \A e \in Range(<<a>>) : e = a
    BY <2>1 DEF Range
  <2> QED BY <1>1, <2>1, <2>2
<1>2. CASE ~P
  <2>1. << >> \in Seq(S) /\ DOMAIN << >> = {}
    OBVIOUS
  <2>2. \A e \in Range(<< >>) : FALSE
    BY <2>1 DEF Range
  <2> QED BY <1>2, <2>1, <2>2
<1> QED BY <1>1, <1>2

\* What one bar may confirm of a term: at most the high at its new center,
\* which is higher than all bars of its window.
LEMMA HighsAtNewCenter ==
  ASSUME NEW s, NEW order \in Nat \ {0}, NEW term,
         NEW p \in Highs(PivotsAtNewCenter(s, order, term)), Len(s.bars) \in Nat
  PROVE  /\ p = Pivot(s, Len(s.bars) - order, "high", term)
         /\ Len(s.bars) >= 2 * order + 1
         /\ \A i \in (Len(s.bars) - order) + 1 .. Len(s.bars) :
              s.bars[Len(s.bars) - order].high > s.bars[i].high
<1> DEFINE n == Len(s.bars)
           c == n - order
           others == (c - order .. c + order) \ {c}
           low == \A i \in others : s.bars[c].low < s.bars[i].low
           high == \A i \in others : s.bars[c].high > s.bars[i].high
           a == Pivot(s, c, "low", term)
           b == Pivot(s, c, "high", term)
           lows == IF low THEN <<a>> ELSE << >>
           highs == IF high THEN <<b>> ELSE << >>
<1>1. n >= 2 * order + 1
  <2> SUFFICES ASSUME n < 2 * order + 1 PROVE FALSE
    OBVIOUS
  <2>1. PivotsAtNewCenter(s, order, term) = << >>
    BY DEF PivotsAtNewCenter
  <2> QED BY <2>1 DEF Highs, Range
<1>2. PivotsAtNewCenter(s, order, term) = lows \o highs
  <2>1. ~(n < 2 * order + 1)
    BY <1>1
  <2>2. PivotsAtNewCenter(s, order, term) = PivotsAtCenter(s, c, order, term)
    BY <2>1, Zenon DEF PivotsAtNewCenter
  <2>3. PivotsAtCenter(s, c, order, term) = lows \o highs
    BY Zenon DEF PivotsAtCenter
  <2> QED BY <2>2, <2>3
<1>3. p.kind = "high" /\ p \in Range(lows \o highs)
  BY <1>2 DEF Highs
<1>4. a.kind = "low"
  BY DEF Pivot
<1>5. high /\ p = b
  <2>0. low \in BOOLEAN /\ high \in BOOLEAN
    OBVIOUS
  <2> HIDE DEF low, high, a, b
  <2>1. lows \in Seq({a, b}) /\ \A e \in Range(lows) : e = a
    BY <2>0, OneOrNone, Zenon
  <2>2. highs \in Seq({a, b}) /\ \A e \in Range(highs) : high /\ e = b
    BY <2>0, OneOrNone, Zenon
  <2> HIDE DEF lows, highs
  <2>3. p \in Range(lows) \/ p \in Range(highs)
    BY <1>3, <2>1, <2>2, RangeOfConcatenation
  <2>4. p \notin Range(lows)
    BY <1>3, <1>4, <2>1
  <2> QED BY <2>2, <2>3, <2>4
<1>6. \A i \in c + 1 .. n : i \in others
  BY <1>1
<1> QED BY <1>1, <1>5, <1>6

\* A high that no later bar reaches is not reclaimed.
LEMMA NotReclaimed ==
  ASSUME NEW bars \in Seq(Candle), NEW p, p.index \in Nat, p.wick \in Nat,
         \A i \in p.index + 1 .. Len(bars) : p.wick > bars[i].high
  PROVE  FirstReclaim(p, bars) = None
<1>1. ASSUME NEW i \in p.index + 1 .. Len(bars)
      PROVE  ~Clears(bars[i], p)
  <2>1. bars[i] \in Candle
    OBVIOUS
  <2>2. bars[i].close \in Nat /\ bars[i].high \in Nat /\ bars[i].close <= bars[i].high
    BY <2>1, CandleAssumption
  <2>3. p.wick > bars[i].high
    OBVIOUS
  <2> QED BY <2>2, <2>3 DEF Clears
<1>2. {i \in p.index + 1 .. Len(bars) : Clears(bars[i], p)} = {}
  BY <1>1
<1> QED BY <1>2, Zenon DEF FirstReclaim

\* The highs a bar confirms, as Advance collects them.
ConfirmedAt(s) ==
  Highs(PivotsAtNewCenter(s, InternalOrder, "internal"))
    \union Highs(PivotsAtNewCenter(s, ExternalOrder, "external"))

\* They are new, at most one of a term, and none is reclaimed yet.
LEMMA ConfirmedHighs ==
  ASSUME NEW s, s.bars \in Seq(Candle)
  PROVE  /\ \A p \in ConfirmedAt(s) : Key(p) \in ConfirmedBy(Len(s.bars)) \ ConfirmedBy(Len(s.bars) - 1)
         /\ \A p, q \in ConfirmedAt(s) : Key(p) = Key(q) => p = q
         /\ Reclaimed(ConfirmedAt(s), s.bars) = {}
<1> DEFINE n == Len(s.bars)
<1>1. n \in Nat /\ \A term \in Terms : Order(term) \in Nat \ {0}
  BY OrderAssumption DEF Order, Terms
<1>2. ASSUME NEW p \in ConfirmedAt(s)
      PROVE  \E term \in Terms :
               /\ p = Pivot(s, n - Order(term), "high", term)
               /\ n >= 2 * Order(term) + 1
               /\ \A i \in (n - Order(term)) + 1 .. n : s.bars[n - Order(term)].high > s.bars[i].high
  <2>1. PICK term \in Terms : p \in Highs(PivotsAtNewCenter(s, Order(term), term))
    BY DEF ConfirmedAt, Terms, Order
  <2>2. Order(term) \in Nat \ {0}
    BY <1>1
  <2> QED BY <1>1, <2>1, <2>2, HighsAtNewCenter
<1>3. ASSUME NEW p \in ConfirmedAt(s), NEW term \in Terms, p = Pivot(s, n - Order(term), "high", term)
      PROVE  /\ p.index = n - Order(term) /\ p.term = term
             /\ Key(p) = <<term, n - Order(term)>>
             /\ p.wick = s.bars[n - Order(term)].high
  BY <1>3 DEF Pivot, Key
<1>4. ASSUME NEW p \in ConfirmedAt(s)
      PROVE  Key(p) \in ConfirmedBy(n) \ ConfirmedBy(n - 1)
  <2>1. PICK term \in Terms : Key(p) = <<term, n - Order(term)>>
    BY <1>2, <1>3
  <2>2. Order(term) \in Nat
    BY <1>1
  <2> QED BY <1>1, <2>1, <2>2 DEF ConfirmedBy
<1>5. ASSUME NEW p \in ConfirmedAt(s), NEW q \in ConfirmedAt(s), Key(p) = Key(q)
      PROVE  p = q
  <2>1. PICK t \in Terms : p = Pivot(s, n - Order(t), "high", t)
    BY <1>2
  <2>2. PICK u \in Terms : q = Pivot(s, n - Order(u), "high", u)
    BY <1>2
  <2>3. t = u
    BY <1>3, <1>5, <2>1, <2>2 DEF Key
  <2> QED BY <2>1, <2>2, <2>3
<1>6. ASSUME NEW p \in ConfirmedAt(s)
      PROVE  FirstReclaim(p, s.bars) = None
  <2>1. PICK term \in Terms :
               /\ p = Pivot(s, n - Order(term), "high", term)
               /\ n >= 2 * Order(term) + 1
               /\ \A i \in (n - Order(term)) + 1 .. n : s.bars[n - Order(term)].high > s.bars[i].high
    BY <1>2
  <2>2. p.index = n - Order(term) /\ p.wick = s.bars[n - Order(term)].high
    BY <1>3, <2>1
  <2>3. Order(term) \in Nat \ {0}
    BY <1>1
  <2>4. n - Order(term) \in 1 .. n
    BY <1>1, <2>1, <2>3
  <2>5. s.bars[n - Order(term)] \in Candle
    BY <2>4
  <2>6. p.index \in Nat /\ p.wick \in Nat
    BY <2>2, <2>4, <2>5, CandleAssumption
  <2>7. \A i \in p.index + 1 .. n : p.wick > s.bars[i].high
    BY <2>1, <2>2
  <2> QED BY <2>6, <2>7, NotReclaimed
<1> QED BY <1>4, <1>5, <1>6 DEF Reclaimed

\* What AdvanceReclaims does when it finds nothing reclaimed early.
LEMMA ReclaimStep ==
  ASSUME ReclaimInv, NEW bar \in Candle, Advance(bar)
  PROVE  /\ ReclaimInv'
         /\ DOMAIN reclaims \subseteq DOMAIN reclaims'
         /\ \A key \in DOMAIN reclaims' :
              reclaims'[key] = IF key \in DOMAIN reclaims THEN reclaims[key] ELSE Len(series'.bars)
<1> DEFINE s == AppendBar(series, bar)
           n == Len(series.bars)
           confirmed == ConfirmedAt(s)
           waiting == pending \union confirmed
           cleared == {p \in waiting : Clears(bar, p)}
           now == [key \in {Key(p) : p \in cleared} |-> n + 1]
<1>1. /\ n \in Nat /\ s.bars \in Seq(Candle) /\ Len(s.bars) = n + 1
      /\ series' = s
  BY DEF ReclaimInv, AppendBar, Advance
<1>2. ConfirmedBy(n) \subseteq ConfirmedBy(n + 1)
  BY <1>1, OrderAssumption, SMTT(30) DEF ConfirmedBy, Terms, Order
<1>3. /\ \A p \in confirmed : Key(p) \in ConfirmedBy(n + 1) \ ConfirmedBy(n)
      /\ \A p, q \in confirmed : Key(p) = Key(q) => p = q
      /\ Reclaimed(confirmed, s.bars) = {}
  <2>1. Len(s.bars) - 1 = n
    BY <1>1
  <2> HIDE DEF s
  <2> QED BY <1>1, <2>1, ConfirmedHighs
<1>4. AdvanceReclaims(s, bar, confirmed)
  BY DEF Advance, ConfirmedAt
<1>5. FirstReclaims(confirmed, s.bars) = [key \in {} |-> n]
  BY <1>3 DEF FirstReclaims
<1>6. reclaims' = Merge(now, Merge([key \in {} |-> n], reclaims)) /\ pending' = waiting \ cleared
  <2> HIDE DEF s, confirmed
  <2> QED BY <1>1, <1>3, <1>4, <1>5 DEF AdvanceReclaims
<1>7. \A p \in waiting : Key(p) \in ConfirmedBy(n + 1) \ DOMAIN reclaims
  BY <1>2, <1>3 DEF ReclaimInv
<1>8. \A p, q \in waiting : Key(p) = Key(q) => p = q
  BY <1>3 DEF ReclaimInv
<1>9. /\ DOMAIN reclaims' = {Key(p) : p \in cleared} \union DOMAIN reclaims
      /\ \A key \in DOMAIN reclaims' :
           reclaims'[key] = IF key \in {Key(p) : p \in cleared} THEN n + 1 ELSE reclaims[key]
  <2> HIDE DEF cleared
  <2> QED BY <1>6 DEF Merge
<1>10. /\ DOMAIN reclaims \subseteq DOMAIN reclaims'
       /\ \A key \in DOMAIN reclaims' :
            reclaims'[key] = IF key \in DOMAIN reclaims THEN reclaims[key] ELSE Len(series'.bars)
  <2> HIDE DEF s, confirmed
  <2> QED BY <1>1, <1>7, <1>9
<1>11. ReclaimInv'
  <2> HIDE DEF s, confirmed
  <2>1. DOMAIN reclaims' \subseteq ConfirmedBy(n + 1)
    BY <1>2, <1>7, <1>9 DEF ReclaimInv
  <2>2. \A p \in pending' : Key(p) \notin DOMAIN reclaims'
    BY <1>6, <1>7, <1>8, <1>9
  <2>3. pending' \subseteq waiting
    BY <1>6
  <2>4. Len(series'.bars) = n + 1 /\ series'.bars \in Seq(Candle)
    BY <1>1
  <2>5. ConfirmedBy(Len(series.bars))' = ConfirmedBy(n + 1)
    BY <2>4 DEF ConfirmedBy
  <2> QED BY <1>7, <1>8, <2>1, <2>2, <2>3, <2>4, <2>5 DEF ReclaimInv
<1> QED BY <1>10, <1>11

THEOREM ReclaimInvariance == Spec => []ReclaimInv
<1>1. Init => ReclaimInv
  BY DEF Init, ReclaimInv, EmptySeries, ConfirmedBy, Terms, Order
<1>2. ReclaimInv /\ [Next]_vars => ReclaimInv'
  <2>1. ASSUME ReclaimInv, NEW bar \in Candle, Advance(bar)
        PROVE  ReclaimInv'
    BY <2>1, ReclaimStep
  <2>2. ReclaimInv /\ UNCHANGED vars => ReclaimInv'
    BY DEF ReclaimInv, vars, Key, ConfirmedBy
  <2> QED BY <2>1, <2>2 DEF Next
<1> QED BY <1>1, <1>2, PTL DEF Spec

\* A reclaim is recorded by the bar whose close clears the high, never looked
\* up in the past, and is final (incremental.py 158-197).
THEOREM ReclaimsAreFrozenAlways == Spec => ReclaimsAreFrozen
<1> DEFINE Frozen ==
      /\ DOMAIN reclaims \subseteq DOMAIN reclaims'
      /\ \A key \in DOMAIN reclaims' :
           reclaims'[key] = IF key \in DOMAIN reclaims THEN reclaims[key] ELSE Len(series'.bars)
<1>1. ReclaimInv /\ [Next]_vars => [Frozen]_vars
  <2>1. ASSUME ReclaimInv, NEW bar \in Candle, Advance(bar)
        PROVE  Frozen
    BY <2>1, ReclaimStep
  <2> QED BY <2>1 DEF Next
<1> QED BY <1>1, ReclaimInvariance, PTL DEF Spec, ReclaimsAreFrozen

(***************************************************************************)
(* Induction over the naturals, and folds.                                 *)
(***************************************************************************)

\* Numbers have a least: the one with the fewest below it.
LEMMA NatLeast ==
  ASSUME NEW T \in SUBSET Nat, T # {}
  PROVE  \E n \in T : \A m \in T : n <= m
<1> DEFINE below == {0 .. n - 1 : n \in T}
<1>1. below \subseteq FiniteSubsetsOf(Nat) /\ below # {}
  <2>1. \A n \in T : 0 .. n - 1 \in SUBSET Nat
    OBVIOUS
  <2>2. \A n \in T : IsFiniteSet(0 .. n - 1)
    BY FS_Interval
  <2> QED BY <2>1, <2>2 DEF FiniteSubsetsOf
<1> HIDE DEF below
<1>2. \E x \in below : \A y \in below : ~(<<y, x>> \in StrictSubsetOrdering(Nat))
  BY <1>1, FS_StrictSubsetOrderingWellFounded, WFMin
<1>3. PICK n \in T : \A m \in T : ~(<<0 .. m - 1, 0 .. n - 1>> \in StrictSubsetOrdering(Nat))
  BY <1>2 DEF below
<1>4. ASSUME NEW m \in T, m < n PROVE FALSE
  <2>1. 0 .. m - 1 \in SUBSET Nat /\ 0 .. n - 1 \in SUBSET Nat
    BY <1>4
  <2>2. 0 .. m - 1 \subseteq 0 .. n - 1 /\ m \in 0 .. n - 1 /\ m \notin 0 .. m - 1
    BY <1>4
  <2> QED BY <1>3, <2>1, <2>2 DEF StrictSubsetOrdering
<1> QED BY <1>4

LEMMA Induction ==
  ASSUME NEW S, 0 \in S, \A n \in Nat : n \in S => n + 1 \in S
  PROVE  \A n \in Nat : n \in S
<1> SUFFICES ASSUME Nat \ S # {} PROVE FALSE
  OBVIOUS
<1>1. PICK n \in Nat \ S : \A m \in Nat \ S : n <= m
  BY NatLeast
<1>2. n - 1 \in Nat /\ n - 1 \in S
  BY <1>1
<1> QED BY <1>1, <1>2

\* What the folds of Swings do with one more element: the last one keeps the
\* complete days of a frame of bars.
Step(kind, acc, x) ==
  CASE kind[1] = "labeled" -> AppendLabeled(acc, x)
    [] kind[1] = "prominent" -> AppendProminent(acc, x)
    [] kind[1] = "bar" -> AppendBar(acc, x)
    [] kind[1] = "flat" -> acc \o x
    [] kind[1] = "day" -> IF IsComplete(kind[2], x) THEN Append(acc, x) ELSE acc

\* The function on sets of indexes by which the library defines a fold.
IsFold(kind, base, s, n, f) ==
  f = [D \in SUBSET (1 .. n) |-> IF D = {} THEN base ELSE Step(kind, f[D \ {Max(D)}], s[Max(D)])]

Fold(kind, base, s) == (CHOOSE f : IsFold(kind, base, s, Len(s), f))[1 .. Len(s)]

LEMMA MaxOfPrefix ==
  ASSUME NEW n \in Nat, NEW D \in SUBSET (1 .. n + 1), n + 1 \in D
  PROVE  Max(D) = n + 1
<1>1. \A x \in D : x \in Int /\ x <= n + 1
  OBVIOUS
<1>2. \A x \in D : (\A y \in D : x >= y) => x = n + 1
  BY <1>1
<1>3. \A y \in D : n + 1 >= y
  BY <1>1
<1> QED BY <1>2, <1>3 DEF Max

LEMMA MaxIsLast ==
  ASSUME NEW n \in Nat, NEW D \in SUBSET (1 .. n), D # {}
  PROVE  Max(D) \in D
<1> DEFINE T == {n - m : m \in D}
<1>1. T \in SUBSET Nat /\ T # {}
  <2>1. \A m \in D : n - m \in Nat
    OBVIOUS
  <2> QED BY <2>1
<1> HIDE DEF T
<1>2. PICK k \in T : \A j \in T : k <= j
  BY <1>1, NatLeast
<1>3. PICK m \in D : k = n - m
  BY DEF T
<1>4. \A j \in D : n - j \in T
  BY DEF T
<1>5. \A j \in D : m >= j
  BY <1>2, <1>3, <1>4
<1> QED BY <1>5 DEF Max

LEMMA FoldExists ==
  ASSUME NEW kind, NEW base, NEW s
  PROVE  \A n \in Nat : \E f : IsFold(kind, base, s, n, f)
<1> DEFINE S == {n \in Nat : \E f : IsFold(kind, base, s, n, f)}
<1>1. 0 \in S
  <2> DEFINE f == [D \in SUBSET (1 .. 0) |-> base]
  <2>1. \A D \in SUBSET (1 .. 0) : D = {}
    OBVIOUS
  <2>2. IsFold(kind, base, s, 0, f)
    BY <2>1 DEF IsFold
  <2> QED BY <2>2
<1>2. ASSUME NEW n \in Nat, n \in S PROVE n + 1 \in S
  <2>1. PICK f : IsFold(kind, base, s, n, f)
    BY <1>2
  <2> DEFINE g == [D \in SUBSET (1 .. n + 1) |->
                     IF n + 1 \in D THEN Step(kind, f[D \ {n + 1}], s[n + 1]) ELSE f[D]]
  <2>2. ASSUME NEW D \in SUBSET (1 .. n + 1), D # {}
        PROVE  g[D] = Step(kind, g[D \ {Max(D)}], s[Max(D)])
    <3>1. CASE n + 1 \in D
      <4>1. Max(D) = n + 1 /\ D \ {n + 1} \in SUBSET (1 .. n + 1) /\ n + 1 \notin D \ {n + 1}
        BY <3>1, MaxOfPrefix
      <4>2. g[D] = Step(kind, f[D \ {n + 1}], s[n + 1])
        BY <3>1
      <4>3. g[D \ {n + 1}] = f[D \ {n + 1}]
        BY <4>1
      <4> QED BY <4>1, <4>2, <4>3
    <3>2. CASE n + 1 \notin D
      <4>1. D \in SUBSET (1 .. n)
        BY <3>2
      <4>2. f[D] = Step(kind, f[D \ {Max(D)}], s[Max(D)])
        BY <2>1, <2>2, <4>1 DEF IsFold
      <4>3. D \ {Max(D)} \in SUBSET (1 .. n + 1) /\ n + 1 \notin D \ {Max(D)}
        BY <3>2
      <4>4. g[D] = f[D] /\ g[D \ {Max(D)}] = f[D \ {Max(D)}]
        BY <3>2, <4>3
      <4> QED BY <4>2, <4>4
    <3> QED BY <3>1, <3>2
  <2>3. g[{}] = base
    <3>1. f[{}] = base
      BY <2>1 DEF IsFold
    <3> QED BY <3>1
  <2>4. IsFold(kind, base, s, n + 1, g)
    <3>1. \A D \in SUBSET (1 .. n + 1) :
            g[D] = IF D = {} THEN base ELSE Step(kind, g[D \ {Max(D)}], s[Max(D)])
      <4> HIDE DEF g
      <4> QED BY <2>2, <2>3
    <3>2. g = [D \in SUBSET (1 .. n + 1) |-> g[D]]
      OBVIOUS
    <3>3. g = [D \in SUBSET (1 .. n + 1) |->
                 IF D = {} THEN base ELSE Step(kind, g[D \ {Max(D)}], s[Max(D)])]
      <4> HIDE DEF g
      <4> QED BY <3>1, <3>2
    <3> HIDE DEF g
    <3> QED BY <3>3 DEF IsFold
  <2> HIDE DEF g
  <2> QED BY <2>4
<1> HIDE DEF S
<1>3. \A n \in Nat : n \in S
  BY <1>1, <1>2, Induction
<1> QED BY <1>3 DEF S

\* One step of it.
LEMMA FoldUnrolls ==
  ASSUME NEW kind, NEW base, NEW s, NEW n \in Nat, NEW f, IsFold(kind, base, s, n, f),
         NEW k \in Nat, k + 1 <= n
  PROVE  f[1 .. k + 1] = Step(kind, f[1 .. k], s[k + 1])
<1>1. 1 .. k + 1 \in SUBSET (1 .. n) /\ 1 \in 1 .. k + 1
  OBVIOUS
<1>2. Max(1 .. k + 1) = k + 1 /\ (1 .. k + 1) \ {k + 1} = 1 .. k
  BY MaxOfPrefix
<1>3. f[1 .. k + 1] = Step(kind, f[(1 .. k + 1) \ {Max(1 .. k + 1)}], s[Max(1 .. k + 1)])
  BY <1>1 DEF IsFold
<1> QED BY <1>2, <1>3

SameUpTo(s, t, q) == \A i \in 1 .. q : s[i] = t[i]

LEMMA FoldsAgree ==
  ASSUME NEW kind, NEW base, NEW s, NEW t, NEW n \in Nat, NEW m \in Nat, NEW f, NEW g,
         IsFold(kind, base, s, n, f), IsFold(kind, base, t, m, g),
         NEW q \in Nat, q <= n, q <= m, SameUpTo(s, t, q)
  PROVE  f[1 .. q] = g[1 .. q]
<1> DEFINE S == {k \in Nat : k <= n /\ k <= m /\ (\A i \in 1 .. k : s[i] = t[i])
                               => f[1 .. k] = g[1 .. k]}
<1>1. 0 \in S
  <2>1. 1 .. 0 = {}
    OBVIOUS
  <2>2. f[{}] = base /\ g[{}] = base
    BY DEF IsFold
  <2> QED BY <2>1, <2>2
<1>2. ASSUME NEW k \in Nat, k \in S PROVE k + 1 \in S
  <2> SUFFICES ASSUME k + 1 <= n, k + 1 <= m, \A i \in 1 .. k + 1 : s[i] = t[i]
               PROVE  f[1 .. k + 1] = g[1 .. k + 1]
    OBVIOUS
  <2>1. f[1 .. k] = g[1 .. k] /\ s[k + 1] = t[k + 1]
    BY <1>2
  <2>2. f[1 .. k + 1] = Step(kind, f[1 .. k], s[k + 1])
    BY FoldUnrolls
  <2>3. g[1 .. k + 1] = Step(kind, g[1 .. k], t[k + 1])
    BY FoldUnrolls
  <2> QED BY <2>1, <2>2, <2>3
<1> HIDE DEF S
<1>3. \A k \in Nat : k \in S
  BY <1>1, <1>2, Induction
<1>4. q \in S
  BY <1>3
<1> QED BY <1>4 DEF S, SameUpTo

LEMMA FoldChosen ==
  ASSUME NEW kind, NEW base, NEW s, Len(s) \in Nat
  PROVE  \E f : IsFold(kind, base, s, Len(s), f) /\ Fold(kind, base, s) = f[1 .. Len(s)]
<1>1. \E f : IsFold(kind, base, s, Len(s), f)
  BY FoldExists
<1> QED BY <1>1 DEF Fold

LEMMA FoldEmpty ==
  ASSUME NEW kind, NEW base PROVE Fold(kind, base, << >>) = base
<1>1. Len(<< >>) = 0 /\ 1 .. 0 = {}
  OBVIOUS
<1>2. PICK f : IsFold(kind, base, << >>, 0, f) /\ Fold(kind, base, << >>) = f[1 .. 0]
  BY <1>1, FoldChosen
<1> QED BY <1>1, <1>2 DEF IsFold

LEMMA FoldAppend ==
  ASSUME NEW kind, NEW base, NEW T, NEW s \in Seq(T), NEW x
  PROVE  Fold(kind, base, Append(s, x)) = Step(kind, Fold(kind, base, s), x)
<1> DEFINE n == Len(s)
           t == Append(s, x)
<1>1. /\ n \in Nat /\ Len(t) = n + 1 /\ t[n + 1] = x
      /\ \A i \in 1 .. n : s[i] = t[i]
  OBVIOUS
<1> HIDE DEF t
<1>2. PICK f : IsFold(kind, base, s, n, f) /\ Fold(kind, base, s) = f[1 .. n]
  BY <1>1, FoldChosen
<1>3. PICK g : IsFold(kind, base, t, n + 1, g) /\ Fold(kind, base, t) = g[1 .. n + 1]
  BY <1>1, FoldChosen
<1> HIDE DEF n
<1>4. f[1 .. n] = g[1 .. n]
  <2> DEFINE m == n + 1
  <2>1. m \in Nat /\ n <= n /\ n <= m
    BY <1>1
  <2>2. IsFold(kind, base, t, m, g)
    BY <1>3
  <2>3. n \in Nat /\ SameUpTo(s, t, n)
    BY <1>1 DEF SameUpTo
  <2> HIDE DEF m
  <2> QED BY <1>2, <2>1, <2>2, <2>3, FoldsAgree
<1>5. g[1 .. n + 1] = Step(kind, g[1 .. n], t[n + 1])
  <2>1. n + 1 \in Nat /\ n + 1 <= n + 1
    BY <1>1
  <2> QED BY <1>1, <1>3, <2>1, FoldUnrolls
<1> QED BY <1>1, <1>2, <1>3, <1>4, <1>5 DEF t

LEMMA FoldAlone ==
  ASSUME NEW kind, NEW base, NEW s, NEW n \in Nat, NEW f, NEW g,
         IsFold(kind, base, s, n, f), IsFold(kind, base, s, n, g)
  PROVE  f[1 .. n] = g[1 .. n]
<1>1. n <= n /\ SameUpTo(s, s, n)
  BY DEF SameUpTo
<1> QED BY <1>1, FoldsAgree

\* The folds of the module.
LEMMA LabeledFold ==
  ASSUME NEW base, NEW T, NEW s \in Seq(T)
  PROVE  AppendAllLabeled(base, s) = Fold(<<"labeled">>, base, s)
<1> DEFINE n == Len(s)
           Is(f) == f = [D \in SUBSET (1 .. n) |->
                           IF D = {} THEN base ELSE AppendLabeled(f[D \ {Max(D)}], s[Max(D)])]
           it == CHOOSE f : Is(f)
<1>1. n \in Nat /\ DOMAIN s = 1 .. n
  OBVIOUS
<1>2. AppendAllLabeled(base, s) = it[1 .. n]
  BY <1>1 DEF AppendAllLabeled, FoldLeft, MapThenFoldSet
<1>3. \A f : IsFold(<<"labeled">>, base, s, n, f) <=> Is(f)
  BY DEF IsFold, Step
<1> HIDE DEF Is
<1>4. PICK f : IsFold(<<"labeled">>, base, s, n, f) /\ Fold(<<"labeled">>, base, s) = f[1 .. n]
  BY <1>1, FoldChosen
<1>5. IsFold(<<"labeled">>, base, s, n, it)
  BY <1>3, <1>4
<1> HIDE DEF n, it
<1> QED BY <1>1, <1>2, <1>4, <1>5, FoldAlone

\* A fold over a concatenation goes on where the fold over its first part ended.
LEMMA FoldConcat ==
  ASSUME NEW kind, NEW base, NEW T, NEW x \in Seq(T), NEW y \in Seq(T)
  PROVE  Fold(kind, base, x \o y) = Fold(kind, Fold(kind, base, x), y)
<1> DEFINE n == Len(x)
           m == Len(y)
           z == x \o y
           w == n + m
           b == Fold(kind, base, x)
<1>1. /\ n \in Nat /\ m \in Nat /\ w \in Nat /\ n <= w /\ n <= n /\ Len(z) = w
      /\ \A i \in 1 .. n : z[i] = x[i]
      /\ \A i \in 1 .. m : z[n + i] = y[i]
  OBVIOUS
<1>0. w = n + m
  OBVIOUS
<1> HIDE DEF n, m, z, w, b
<1>2. PICK e : IsFold(kind, base, x, n, e) /\ b = e[1 .. n]
  BY <1>1, FoldChosen DEF n, b
<1>3. PICK f : IsFold(kind, base, z, w, f) /\ Fold(kind, base, z) = f[1 .. w]
  BY <1>1, FoldChosen
<1>4. PICK g : /\ IsFold(kind, b, y, m, g)
               /\ Fold(kind, b, y) = g[1 .. m]
  BY <1>1, FoldChosen DEF m
<1> DEFINE S == {k \in Nat : k <= m => f[1 .. n + k] = g[1 .. k]}
<1>5. 0 \in S
  <2>1. 1 .. 0 = {} /\ n + 0 = n
    BY <1>1
  <2>2. g[{}] = e[1 .. n]
    BY <1>2, <1>4 DEF IsFold
  <2>3. n \in Nat /\ w \in Nat /\ n <= n /\ n <= w /\ SameUpTo(z, x, n)
    BY <1>1 DEF SameUpTo
  <2>4. f[1 .. n] = e[1 .. n]
    BY <1>2, <1>3, <2>3, FoldsAgree
  <2> QED BY <2>1, <2>2, <2>4
<1>6. ASSUME NEW k \in Nat, k \in S PROVE k + 1 \in S
  <2> SUFFICES ASSUME k + 1 <= m PROVE f[1 .. n + (k + 1)] = g[1 .. k + 1]
    OBVIOUS
  <2>1. f[1 .. n + k] = g[1 .. k]
    BY <1>1, <1>6
  <2>2. g[1 .. k + 1] = Step(kind, g[1 .. k], y[k + 1])
    BY <1>1, <1>4, FoldUnrolls
  <2>3. f[1 .. (n + k) + 1] = Step(kind, f[1 .. n + k], z[(n + k) + 1])
    <3> DEFINE j == n + k
    <3>1. j \in Nat /\ j + 1 <= w
      BY <1>0, <1>1
    <3> HIDE DEF j
    <3>2. f[1 .. j + 1] = Step(kind, f[1 .. j], z[j + 1])
      BY <1>1, <1>3, <3>1, FoldUnrolls
    <3> QED BY <3>2 DEF j
  <2>4. (n + k) + 1 = n + (k + 1) /\ z[n + (k + 1)] = y[k + 1]
    <3>1. k + 1 \in 1 .. m
      BY <1>1
    <3> QED BY <1>1, <3>1
  <2> QED BY <2>1, <2>2, <2>3, <2>4
<1> HIDE DEF S
<1>7. \A k \in Nat : k \in S
  BY <1>5, <1>6, Induction
<1>8. m \in S /\ m <= m
  BY <1>1, <1>7
<1> QED BY <1>0, <1>3, <1>4, <1>8 DEF S, z, b

LEMMA SeriesFold ==
  ASSUME NEW T, NEW s \in Seq(T)
  PROVE  Series(s) = Fold(<<"bar">>, EmptySeries, s)
<1> DEFINE n == Len(s)
           Is(f) == f = [D \in SUBSET (1 .. n) |->
                           IF D = {} THEN EmptySeries ELSE AppendBar(f[D \ {Max(D)}], s[Max(D)])]
           it == CHOOSE f : Is(f)
<1>1. n \in Nat /\ DOMAIN s = 1 .. n
  OBVIOUS
<1>2. Series(s) = it[1 .. n]
  BY <1>1 DEF Series, FoldLeft, MapThenFoldSet
<1>3. \A f : IsFold(<<"bar">>, EmptySeries, s, n, f) <=> Is(f)
  BY DEF IsFold, Step
<1> HIDE DEF Is
<1>4. PICK f : /\ IsFold(<<"bar">>, EmptySeries, s, n, f)
               /\ Fold(<<"bar">>, EmptySeries, s) = f[1 .. n]
  BY <1>1, FoldChosen
<1>5. IsFold(<<"bar">>, EmptySeries, s, n, it)
  BY <1>3, <1>4
<1> HIDE DEF n, it
<1> QED BY <1>1, <1>2, <1>4, <1>5, FoldAlone

LEMMA FlatFold ==
  ASSUME NEW T, NEW xs \in Seq(Seq(T))
  PROVE  FlattenSeq(xs) = Fold(<<"flat">>, << >>, xs)
<1> DEFINE n == Len(xs)
           Is(h) == h = [i \in 1 .. n |-> IF i = 1 THEN xs[i] ELSE h[i - 1] \o xs[i]]
           it == CHOOSE h : Is(h)
<1>1. n \in Nat /\ \A i \in 1 .. n : xs[i] \in Seq(T)
  OBVIOUS
<1>2. CASE n = 0
  <2>1. FlattenSeq(xs) = xs /\ xs = << >>
    BY <1>2 DEF FlattenSeq
  <2> QED BY <2>1, FoldEmpty
<1>3. CASE n # 0
  <2>1. PICK f : IsFold(<<"flat">>, << >>, xs, n, f) /\ Fold(<<"flat">>, << >>, xs) = f[1 .. n]
    BY <1>1, FoldChosen
  <2>2. FlattenSeq(xs) = it[n]
    BY <1>1, <1>3 DEF FlattenSeq
  <2> HIDE DEF n, it
  <2>3. \A i \in Nat : i + 1 <= n => f[1 .. i + 1] = f[1 .. i] \o xs[i + 1]
    <3> SUFFICES ASSUME NEW i \in Nat, i + 1 <= n PROVE f[1 .. i + 1] = f[1 .. i] \o xs[i + 1]
      OBVIOUS
    <3>1. f[1 .. i + 1] = Step(<<"flat">>, f[1 .. i], xs[i + 1])
      BY <1>1, <2>1, FoldUnrolls
    <3> QED BY <3>1 DEF Step
  <2>4. f[1 .. 1] = xs[1]
    <3>1. 1 .. 0 = {} /\ f[{}] = << >> /\ 1 <= n /\ 0 + 1 = 1
      BY <1>1, <1>3, <2>1 DEF IsFold
    <3>2. f[1 .. 1] = << >> \o xs[1]
      BY <2>3, <3>1
    <3>3. xs[1] \in Seq(T)
      BY <1>1, <3>1
    <3> QED BY <3>2, <3>3
  <2>5. Is(it)
    <3> DEFINE h == [i \in 1 .. n |-> f[1 .. i]]
    <3>1. \A i \in 1 .. n : h[i] = IF i = 1 THEN xs[i] ELSE h[i - 1] \o xs[i]
      <4> SUFFICES ASSUME NEW i \in 1 .. n, i # 1 PROVE h[i] = h[i - 1] \o xs[i]
        BY <2>4
      <4>1. i - 1 \in Nat /\ i - 1 \in 1 .. n /\ (i - 1) + 1 = i /\ i <= n
        BY <1>1
      <4>2. f[1 .. (i - 1) + 1] = f[1 .. i - 1] \o xs[(i - 1) + 1]
        BY <2>3, <4>1
      <4> QED BY <4>1, <4>2
    <3>2. Is(h)
      <4>1. h = [i \in 1 .. n |-> h[i]]
        OBVIOUS
      <4> HIDE DEF h
      <4> QED BY <3>1, <4>1
    <3> HIDE DEF h, Is
    <3> QED BY <3>2 DEF it
  <2>6. \A i \in 1 .. n : it[i] = IF i = 1 THEN xs[i] ELSE it[i - 1] \o xs[i]
    BY <2>5
  <2> DEFINE S == {k \in Nat : k + 1 <= n => it[k + 1] = f[1 .. k + 1]}
  <2>7. 0 \in S
    <3>1. 0 + 1 = 1 /\ 1 \in 1 .. n
      BY <1>1, <1>3
    <3> QED BY <2>4, <2>6, <3>1
  <2>8. ASSUME NEW k \in Nat, k \in S PROVE k + 1 \in S
    <3> SUFFICES ASSUME (k + 1) + 1 <= n PROVE it[(k + 1) + 1] = f[1 .. (k + 1) + 1]
      OBVIOUS
    <3>1. it[k + 1] = f[1 .. k + 1]
      BY <1>1, <2>8
    <3>2. (k + 1) + 1 \in 1 .. n /\ (k + 1) + 1 # 1 /\ ((k + 1) + 1) - 1 = k + 1
      BY <1>1
    <3>3. it[(k + 1) + 1] = it[k + 1] \o xs[(k + 1) + 1]
      BY <2>6, <3>2
    <3>4. f[1 .. (k + 1) + 1] = f[1 .. k + 1] \o xs[(k + 1) + 1]
      <4>1. k + 1 \in Nat
        OBVIOUS
      <4> QED BY <2>3, <4>1
    <3> QED BY <3>1, <3>3, <3>4
  <2> HIDE DEF S
  <2>9. \A k \in Nat : k \in S
    BY <2>7, <2>8, Induction
  <2>10. n - 1 \in Nat /\ (n - 1) + 1 = n
    BY <1>1, <1>3
  <2>11. n - 1 \in S
    BY <2>9, <2>10
  <2>12. it[n] = f[1 .. n]
    BY <2>10, <2>11, <1>1 DEF S
  <2> QED BY <2>1, <2>2, <2>12
<1> QED BY <1>2, <1>3

LEMMA FlattenAppend ==
  ASSUME NEW T, NEW xs \in Seq(Seq(T)), NEW e \in Seq(T)
  PROVE  FlattenSeq(Append(xs, e)) = FlattenSeq(xs) \o e
<1>1. Append(xs, e) \in Seq(Seq(T))
  OBVIOUS
<1>2. /\ FlattenSeq(xs) = Fold(<<"flat">>, << >>, xs)
      /\ FlattenSeq(Append(xs, e)) = Fold(<<"flat">>, << >>, Append(xs, e))
  BY <1>1, FlatFold
<1>3. Fold(<<"flat">>, << >>, Append(xs, e)) = Step(<<"flat">>, Fold(<<"flat">>, << >>, xs), e)
  BY FoldAppend
<1> QED BY <1>2, <1>3 DEF Step

LEMMA ProminentFold ==
  ASSUME NEW base, NEW T, NEW s \in Seq(T)
  PROVE  AppendAllProminent(base, s) = Fold(<<"prominent">>, base, s)
<1> DEFINE n == Len(s)
           Is(f) == f = [D \in SUBSET (1 .. n) |->
                           IF D = {} THEN base ELSE AppendProminent(f[D \ {Max(D)}], s[Max(D)])]
           it == CHOOSE f : Is(f)
<1>1. n \in Nat /\ DOMAIN s = 1 .. n
  OBVIOUS
<1>2. AppendAllProminent(base, s) = it[1 .. n]
  BY <1>1 DEF AppendAllProminent, FoldLeft, MapThenFoldSet
<1>3. \A f : IsFold(<<"prominent">>, base, s, n, f) <=> Is(f)
  BY DEF IsFold, Step
<1> HIDE DEF Is
<1>4. PICK f : IsFold(<<"prominent">>, base, s, n, f) /\ Fold(<<"prominent">>, base, s) = f[1 .. n]
  BY <1>1, FoldChosen
<1>5. IsFold(<<"prominent">>, base, s, n, it)
  BY <1>3, <1>4
<1> HIDE DEF n, it
<1> QED BY <1>1, <1>2, <1>4, <1>5, FoldAlone

(***************************************************************************)
(* The reducer looks back one pivot.                                       *)
(***************************************************************************)

\* A pivot as far as the reducer compares it.
Wicked(p) == {"index", "kind", "term", "role", "wick"} \subseteq DOMAIN p /\ p.wick \in Int

Pivots(list) == list \in Seq(Range(list)) /\ \A p \in Range(list) : Wicked(p)

\* What becomes of a list: its last pivot may give way to a more extreme one
\* of its kind, and those before it stay.
Succeeds(q, p) == q = p \/ (q.kind = p.kind /\ MoreExtreme(q, p))

Keeps(old, new) ==
  old # << >> =>
    /\ Len(new) >= Len(old)
    /\ \A i \in 1 .. Len(old) - 1 : new[i] = old[i]
    /\ Succeeds(new[Len(old)], old[Len(old)])

LEMMA PivotsInSet ==
  ASSUME NEW S, NEW x \in Seq(S), \A p \in S : Wicked(p)
  PROVE  Pivots(x)
<1>1. Range(x) \subseteq S /\ \A i \in 1 .. Len(x) : x[i] \in Range(x)
  BY DEF Range
<1>2. x \in Seq(Range(x))
  BY <1>1
<1> QED BY <1>1, <1>2 DEF Pivots

LEMMA PivotAt ==
  ASSUME NEW x, Pivots(x)
  PROVE  /\ Len(x) \in Nat /\ DOMAIN x = 1 .. Len(x)
         /\ \A i \in 1 .. Len(x) : x[i] \in Range(x) /\ Wicked(x[i])
         /\ x # << >> => Len(x) >= 1 /\ Last(x) = x[Len(x)]
<1>1. x \in Seq(Range(x)) /\ \A p \in Range(x) : Wicked(p)
  BY DEF Pivots
<1>2. Len(x) \in Nat /\ DOMAIN x = 1 .. Len(x) /\ \A i \in 1 .. Len(x) : x[i] \in Range(x)
  BY <1>1 DEF Range
<1>3. x # << >> => Len(x) >= 1
  BY <1>1
<1> QED BY <1>1, <1>2, <1>3 DEF Last

\* A role is the only thing a list gives a pivot.
LEMMA RoleOnly ==
  ASSUME NEW list, NEW p, Wicked(p)
  PROVE  /\ Wicked(WithRole(list, p))
         /\ WithRole(list, p).kind = p.kind /\ WithRole(list, p).wick = p.wick
<1> DEFINE r == IF SameKind(list, p.kind) = << >>
                THEN (IF p.kind = "high" THEN [first |-> "H", up |-> "HH", down |-> "LH"]
                      ELSE [first |-> "L", up |-> "HL", down |-> "LL"]).first
                ELSE WithRole(list, p).role
<1>1. \E role : WithRole(list, p) = [p EXCEPT !.role = role]
  BY DEF WithRole
<1> QED BY <1>1 DEF Wicked

LEMMA AppendedPivot ==
  ASSUME NEW x, Pivots(x), NEW p, Wicked(p)
  PROVE  /\ Pivots(Append(x, p))
         /\ Len(Append(x, p)) = Len(x) + 1 /\ Append(x, p)[Len(x) + 1] = p
         /\ \A i \in 1 .. Len(x) : Append(x, p)[i] = x[i]
<1> DEFINE S == Range(x) \union {p}
<1>1. x \in Seq(S) /\ p \in S /\ \A q \in S : Wicked(q)
  <2>1. x \in Seq(Range(x)) /\ \A q \in Range(x) : Wicked(q)
    BY DEF Pivots
  <2> QED BY <2>1
<1> HIDE DEF S
<1>2. Append(x, p) \in Seq(S)
  BY <1>1
<1>3. Pivots(Append(x, p))
  BY <1>1, <1>2, PivotsInSet, Zenon
<1> QED BY <1>1, <1>3

LEMMA PrefixAt ==
  ASSUME NEW S, NEW x \in Seq(S), NEW m \in Nat, m <= Len(x)
  PROVE  Len(SubSeq(x, 1, m)) = m /\ \A i \in 1 .. m : SubSeq(x, 1, m)[i] = x[i]
OBVIOUS

LEMMA FrontOfPivots ==
  ASSUME NEW x, Pivots(x), x # << >>
  PROVE  /\ Pivots(Front(x)) /\ Len(Front(x)) = Len(x) - 1
         /\ \A i \in 1 .. Len(x) - 1 : Front(x)[i] = x[i]
<1>1. x \in Seq(Range(x)) /\ \A p \in Range(x) : Wicked(p)
  BY DEF Pivots
<1>2. Len(x) \in Nat /\ Len(x) >= 1
  BY PivotAt
<1>3. Front(x) = SubSeq(x, 1, Len(x) - 1)
  BY DEF Front
<1>4. Front(x) \in Seq(Range(x))
  BY <1>1, <1>2, <1>3
<1>5. Pivots(Front(x))
  BY <1>1, <1>4, PivotsInSet, Zenon
<1>6. /\ Len(SubSeq(x, 1, Len(x) - 1)) = Len(x) - 1
      /\ \A i \in 1 .. Len(x) - 1 : SubSeq(x, 1, Len(x) - 1)[i] = x[i]
  <2>1. Len(x) - 1 \in Nat /\ Len(x) - 1 <= Len(x)
    BY <1>2
  <2> QED BY <1>1, <2>1, PrefixAt
<1> QED BY <1>3, <1>5, <1>6

\* One pivot.
LEMMA ProminentStep ==
  ASSUME NEW x, Pivots(x), NEW p, Wicked(p)
  PROVE  Pivots(AppendProminent(x, p)) /\ Keeps(x, AppendProminent(x, p))
<1> DEFINE y == AppendProminent(x, p)
           q == WithRole(x, p)
           r == WithRole(Front(x), p)
<1>1. Wicked(q) /\ Wicked(r) /\ r.kind = p.kind /\ r.wick = p.wick
  BY RoleOnly
<1>2. \/ y = Append(x, q)
      \/ x # << >> /\ p.kind = Last(x).kind /\ MoreExtreme(p, Last(x)) /\ y = Append(Front(x), r)
      \/ y = x
  BY DEF AppendProminent, AppendLabeled
<1>3. Len(x) \in Nat /\ (x # << >> => Len(x) >= 1 /\ Last(x) = x[Len(x)])
  BY PivotAt
<1> HIDE DEF y, q, r
<1>4. CASE y = Append(x, q)
  <2>1. Pivots(y) /\ Len(y) = Len(x) + 1 /\ \A i \in 1 .. Len(x) : y[i] = x[i]
    BY <1>1, <1>4, AppendedPivot
  <2> QED BY <1>3, <2>1 DEF Keeps, Succeeds, y
<1>5. CASE x # << >> /\ p.kind = Last(x).kind /\ MoreExtreme(p, Last(x)) /\ y = Append(Front(x), r)
  <2>1. Pivots(Front(x)) /\ Len(Front(x)) = Len(x) - 1 /\ \A i \in 1 .. Len(x) - 1 : Front(x)[i] = x[i]
    BY <1>5, FrontOfPivots
  <2>2. /\ Pivots(y) /\ Len(y) = Len(Front(x)) + 1 /\ y[Len(Front(x)) + 1] = r
        /\ \A i \in 1 .. Len(Front(x)) : y[i] = Front(x)[i]
    BY <1>1, <1>5, <2>1, AppendedPivot
  <2>3. Len(y) = Len(x) /\ y[Len(x)] = r /\ \A i \in 1 .. Len(x) - 1 : y[i] = x[i]
    BY <1>3, <2>1, <2>2
  <2>4. r.kind = x[Len(x)].kind /\ MoreExtreme(r, x[Len(x)])
    BY <1>1, <1>3, <1>5 DEF MoreExtreme
  <2> QED BY <1>3, <2>2, <2>3, <2>4 DEF Keeps, Succeeds, y
<1>6. CASE y = x
  BY <1>3, <1>6 DEF Keeps, Succeeds, y
<1> QED BY <1>2, <1>4, <1>5, <1>6

LEMMA KeepsTransitive ==
  ASSUME NEW x, NEW y, NEW z, Pivots(x), Pivots(y), Pivots(z), Keeps(x, y), Keeps(y, z)
  PROVE  Keeps(x, z)
<1> SUFFICES ASSUME x # << >> PROVE Keeps(x, z)
  BY DEF Keeps
<1> DEFINE n == Len(x)
<1>1. /\ n \in Nat /\ n >= 1 /\ Len(y) \in Nat /\ Len(z) \in Nat
      /\ Wicked(x[n])
      /\ \A i \in 1 .. Len(y) : Wicked(y[i])
      /\ \A i \in 1 .. Len(z) : Wicked(z[i])
  <2>1. n \in Nat /\ n >= 1 /\ \A i \in 1 .. n : Wicked(x[i])
    BY PivotAt
  <2>2. Len(y) \in Nat /\ \A i \in 1 .. Len(y) : Wicked(y[i])
    BY PivotAt
  <2>3. Len(z) \in Nat /\ \A i \in 1 .. Len(z) : Wicked(z[i])
    BY PivotAt
  <2> QED BY <2>1, <2>2, <2>3
<1>2. /\ Len(y) >= n /\ \A i \in 1 .. n - 1 : y[i] = x[i]
      /\ Succeeds(y[n], x[n])
  BY DEF Keeps
<1>3. y # << >>
  BY <1>1, <1>2
<1>4. /\ Len(z) >= Len(y) /\ \A i \in 1 .. Len(y) - 1 : z[i] = y[i]
      /\ Succeeds(z[Len(y)], y[Len(y)])
  BY <1>3 DEF Keeps
<1>5. Len(z) >= n /\ \A i \in 1 .. n - 1 : z[i] = x[i]
  BY <1>1, <1>2, <1>4
<1>6. Succeeds(z[n], y[n])
  <2>1. CASE Len(y) = n
    BY <1>4, <2>1
  <2>2. CASE Len(y) > n
    <3>1. z[n] = y[n]
      BY <1>1, <1>4, <2>2
    <3> QED BY <3>1 DEF Succeeds
  <2> QED BY <1>1, <1>2, <2>1, <2>2
<1>7. Succeeds(z[n], x[n])
  <2>1. Wicked(z[n]) /\ Wicked(y[n])
    BY <1>1, <1>2, <1>5
  <2> QED BY <1>1, <1>2, <1>6, <2>1 DEF Succeeds, MoreExtreme, Wicked
<1> QED BY <1>1, <1>5, <1>7 DEF Keeps

\* Any number of pivots.
LEMMA ProminentKeeps ==
  ASSUME NEW x, Pivots(x), NEW new, Pivots(new)
  PROVE  Pivots(AppendAllProminent(x, new)) /\ Keeps(x, AppendAllProminent(x, new))
<1> DEFINE n == Len(new)
<1>1. n \in Nat /\ \A i \in 1 .. n : Wicked(new[i])
  BY PivotAt
<1>2. AppendAllProminent(x, new) = Fold(<<"prominent">>, x, new)
  <2>1. new \in Seq(Range(new))
    BY DEF Pivots
  <2> QED BY <2>1, ProminentFold
<1>3. PICK f : IsFold(<<"prominent">>, x, new, n, f) /\ Fold(<<"prominent">>, x, new) = f[1 .. n]
  BY <1>1, FoldChosen
<1> HIDE DEF n
<1> DEFINE S == {k \in Nat : k <= n => Pivots(f[1 .. k]) /\ Keeps(x, f[1 .. k])}
<1>4. 0 \in S
  <2>1. 1 .. 0 = {} /\ f[{}] = x
    BY <1>3 DEF IsFold
  <2>2. Keeps(x, x)
    BY PivotAt DEF Keeps, Succeeds
  <2> QED BY <2>1, <2>2
<1>5. ASSUME NEW k \in Nat, k \in S PROVE k + 1 \in S
  <2> SUFFICES ASSUME k + 1 <= n PROVE Pivots(f[1 .. k + 1]) /\ Keeps(x, f[1 .. k + 1])
    OBVIOUS
  <2>1. Pivots(f[1 .. k]) /\ Keeps(x, f[1 .. k])
    BY <1>1, <1>5
  <2>2. f[1 .. k + 1] = AppendProminent(f[1 .. k], new[k + 1])
    <3>1. f[1 .. k + 1] = Step(<<"prominent">>, f[1 .. k], new[k + 1])
      BY <1>1, <1>3, FoldUnrolls
    <3> QED BY <3>1 DEF Step
  <2>3. Wicked(new[k + 1])
    BY <1>1
  <2>4. Pivots(f[1 .. k + 1]) /\ Keeps(f[1 .. k], f[1 .. k + 1])
    BY <2>1, <2>2, <2>3, ProminentStep
  <2> QED BY <2>1, <2>4, KeepsTransitive
<1> HIDE DEF S
<1>6. \A k \in Nat : k \in S
  BY <1>4, <1>5, Induction
<1> QED BY <1>1, <1>2, <1>3, <1>6 DEF S

(***************************************************************************)
(* The pivots that are read off the bars, 4h bars and days alike.          *)
(***************************************************************************)
Bar == [high : Int, low : Int, close : Int]

LEMMA EmptyPivots == Pivots(<< >>)
<1>1. << >> \in Seq(Range(<< >>)) /\ Range(<< >>) = {}
  BY DEF Range
<1> QED BY <1>1 DEF Pivots

LEMMA NewPivots ==
  ASSUME NEW s, s.bars \in Seq(Bar), NEW order \in Nat \ {0}, NEW term
  PROVE  Pivots(PivotsAtNewCenter(s, order, term))
<1> DEFINE n == Len(s.bars)
           c == n - order
           others == (c - order .. c + order) \ {c}
           low == \A i \in others : s.bars[c].low < s.bars[i].low
           high == \A i \in others : s.bars[c].high > s.bars[i].high
           a == Pivot(s, c, "low", term)
           b == Pivot(s, c, "high", term)
           lows == IF low THEN <<a>> ELSE << >>
           highs == IF high THEN <<b>> ELSE << >>
<1>1. CASE n < 2 * order + 1
  <2>1. PivotsAtNewCenter(s, order, term) = << >>
    BY <1>1 DEF PivotsAtNewCenter
  <2>2. Pivots(<< >>)
    BY EmptyPivots
  <2> QED BY <2>1, <2>2
<1>2. CASE ~(n < 2 * order + 1)
  <2>1. PivotsAtNewCenter(s, order, term) = PivotsAtCenter(s, c, order, term)
    BY <1>2, Zenon DEF PivotsAtNewCenter
  <2>2. PivotsAtCenter(s, c, order, term) = lows \o highs
    BY Zenon DEF PivotsAtCenter
  <2>3. c \in 1 .. n
    BY <1>2
  <2>4. s.bars[c] \in Bar
    BY <2>3
  <2>5. a.wick = s.bars[c].low /\ b.wick = s.bars[c].high
    BY DEF Pivot
  <2>6. Wicked(a) /\ Wicked(b)
    BY <2>4, <2>5 DEF Wicked, Bar, Pivot
  <2>7. lows \in Seq({a, b}) /\ highs \in Seq({a, b})
    <3>0. low \in BOOLEAN /\ high \in BOOLEAN
      OBVIOUS
    <3> HIDE DEF low, high, a, b
    <3>1. lows \in Seq({a, b})
      BY <3>0, OneOrNone, Zenon
    <3>2. highs \in Seq({a, b})
      BY <3>0, OneOrNone, Zenon
    <3> QED BY <3>1, <3>2
  <2> HIDE DEF lows, highs, a, b
  <2> DEFINE S == {a, b}
  <2>8. lows \o highs \in Seq(S) /\ \A p \in S : Wicked(p)
    BY <2>6, <2>7
  <2> HIDE DEF S
  <2>9. Pivots(lows \o highs)
    BY <2>8, PivotsInSet, Zenon
  <2> QED BY <2>1, <2>2, <2>9
<1> QED BY <1>1, <1>2

\* Finitely many numbers have a greatest and a least.
LEMMA Extremes ==
  ASSUME NEW n \in Nat, NEW g \in [1 .. n + 1 -> Int]
  PROVE  /\ \E i \in 1 .. n + 1 : \A j \in 1 .. n + 1 : g[j] <= g[i]
         /\ \E i \in 1 .. n + 1 : \A j \in 1 .. n + 1 : g[i] <= g[j]
<1> DEFINE S == {k \in Nat : k <= n =>
                   /\ \E i \in 1 .. k + 1 : \A j \in 1 .. k + 1 : g[j] <= g[i]
                   /\ \E i \in 1 .. k + 1 : \A j \in 1 .. k + 1 : g[i] <= g[j]}
<1>1. 0 \in S
  <2>1. 1 \in 1 .. 0 + 1 /\ \A j \in 1 .. 0 + 1 : g[j] <= g[1] /\ g[1] <= g[j]
    OBVIOUS
  <2> QED BY <2>1
<1>2. ASSUME NEW k \in Nat, k \in S PROVE k + 1 \in S
  <2> SUFFICES ASSUME k + 1 <= n
               PROVE  /\ \E i \in 1 .. (k + 1) + 1 : \A j \in 1 .. (k + 1) + 1 : g[j] <= g[i]
                      /\ \E i \in 1 .. (k + 1) + 1 : \A j \in 1 .. (k + 1) + 1 : g[i] <= g[j]
    OBVIOUS
  <2>0. /\ \E i \in 1 .. k + 1 : \A j \in 1 .. k + 1 : g[j] <= g[i]
        /\ \E i \in 1 .. k + 1 : \A j \in 1 .. k + 1 : g[i] <= g[j]
    <3>1. k <= n
      OBVIOUS
    <3> QED BY <1>2, <3>1
  <2>1. PICK u \in 1 .. k + 1 : \A j \in 1 .. k + 1 : g[j] <= g[u]
    BY <2>0
  <2>2. PICK v \in 1 .. k + 1 : \A j \in 1 .. k + 1 : g[v] <= g[j]
    BY <2>0
  <2>3. \A j \in 1 .. (k + 1) + 1 : j \in 1 .. k + 1 \/ j = k + 2
    OBVIOUS
  <2>4. \A j \in 1 .. k + 2 : g[j] \in Int
    OBVIOUS
  <2>5. \E i \in 1 .. (k + 1) + 1 : \A j \in 1 .. (k + 1) + 1 : g[j] <= g[i]
    <3>1. CASE g[u] <= g[k + 2]
      BY <2>1, <2>3, <2>4, <3>1
    <3>2. CASE g[k + 2] <= g[u]
      BY <2>1, <2>3, <2>4, <3>2
    <3> QED BY <2>4, <3>1, <3>2
  <2>6. \E i \in 1 .. (k + 1) + 1 : \A j \in 1 .. (k + 1) + 1 : g[i] <= g[j]
    <3>1. CASE g[v] <= g[k + 2]
      BY <2>2, <2>3, <2>4, <3>1
    <3>2. CASE g[k + 2] <= g[v]
      BY <2>2, <2>3, <2>4, <3>2
    <3> QED BY <2>4, <3>1, <3>2
  <2> QED BY <2>5, <2>6
<1> HIDE DEF S
<1>3. \A k \in Nat : k \in S
  BY <1>1, <1>2, Induction
<1>4. n \in S /\ n <= n
  BY <1>3
<1> QED BY <1>4 DEF S

LEMMA MaxOfValues ==
  ASSUME NEW n \in Nat, NEW g \in [1 .. n + 1 -> Int]
  PROVE  LET V == {g[i] : i \in 1 .. n + 1} IN Max(V) \in Int /\ Min(V) \in Int
<1> DEFINE V == {g[i] : i \in 1 .. n + 1}
<1>1. PICK i \in 1 .. n + 1 : \A j \in 1 .. n + 1 : g[j] <= g[i]
  BY Extremes
<1>2. PICK k \in 1 .. n + 1 : \A j \in 1 .. n + 1 : g[k] <= g[j]
  BY Extremes
<1>3. g[i] \in V /\ g[k] \in V /\ V \subseteq Int
  OBVIOUS
<1>4. \E x \in V : \A y \in V : x >= y
  BY <1>1, <1>3
<1>5. \E x \in V : \A y \in V : x <= y
  BY <1>2, <1>3
<1> HIDE DEF V
<1>6. Max(V) \in V /\ Min(V) \in V
  BY <1>4, <1>5 DEF Max, Min
<1>7. Max(V) \in Int /\ Min(V) \in Int
  BY <1>3, <1>6
<1> QED BY <1>7 DEF V

\* A day of bars is a bar.
LEMMA DayIsBar ==
  ASSUME NEW bars \in Seq(Bar), Len(bars) >= 1
  PROVE  DayBar(bars) \in Bar
<1> DEFINE n == Len(bars) - 1
           g == [i \in 1 .. n + 1 |-> bars[i].high]
           h == [i \in 1 .. n + 1 |-> bars[i].low]
<1>1. n \in Nat /\ n + 1 = Len(bars) /\ \A i \in 1 .. n + 1 : bars[i] \in Bar
  OBVIOUS
<1> HIDE DEF n
<1>2. g \in [1 .. n + 1 -> Int] /\ h \in [1 .. n + 1 -> Int]
  BY <1>1 DEF Bar
<1>3. /\ {b.high : b \in Range(bars)} = {g[i] : i \in 1 .. n + 1}
      /\ {b.low : b \in Range(bars)} = {h[i] : i \in 1 .. n + 1}
  <2>1. DOMAIN bars = 1 .. n + 1
    BY <1>1
  <2> QED BY <2>1 DEF Range
<1> HIDE DEF g, h
<1>4. Max({g[i] : i \in 1 .. n + 1}) \in Int
  BY <1>1, <1>2, MaxOfValues
<1>5. Min({h[i] : i \in 1 .. n + 1}) \in Int
  BY <1>1, <1>2, MaxOfValues
<1>6. Last(bars).close \in Int
  <2>1. Len(bars) \in 1 .. n + 1
    BY <1>1
  <2>2. bars[Len(bars)] \in Bar
    BY <1>1, <2>1
  <2> QED BY <2>2 DEF Last, Bar
<1> QED BY <1>3, <1>4, <1>5, <1>6 DEF DayBar, Bar

EvidenceInv ==
  /\ ReclaimInv
  /\ Pivots(prominent) /\ Pivots(dailyProminent)
  /\ bucket.bars \in Seq(Bar) /\ daily.bars \in Seq(Bar)

LEMMA KeepsSame ==
  ASSUME NEW x, Pivots(x) PROVE Keeps(x, x)
BY PivotAt DEF Keeps, Succeeds

LEMMA CandleIsBar == Candle \subseteq Bar /\ Seq(Candle) \subseteq Seq(Bar)
<1>1. Candle \subseteq Bar
  BY CandleAssumption DEF Bar
<1> QED BY <1>1

LEMMA DailyStep ==
  ASSUME EvidenceInv, NEW bar \in Candle, NEW today, AdvanceDaily(today, bar)
  PROVE  /\ bucket'.bars \in Seq(Bar) /\ daily'.bars \in Seq(Bar)
         /\ Pivots(dailyProminent') /\ Keeps(dailyProminent, dailyProminent')
<1> DEFINE held == Append(IF bucket.day = today THEN bucket.bars ELSE << >>, bar)
           days == AppendBar(daily, DayBar(held))
           new == PivotsAtNewCenter(days, ExternalOrder, "external")
<1>1. held \in Seq(Bar) /\ Len(held) >= 1
  <2>1. bar \in Bar
    BY CandleIsBar
  <2>2. (IF bucket.day = today THEN bucket.bars ELSE << >>) \in Seq(Bar)
    BY DEF EvidenceInv
  <2> QED BY <2>1, <2>2
<1>2. bucket'.bars = held
  BY DEF AdvanceDaily
<1>3. \/ UNCHANGED <<daily, dailyProminent>>
      \/ daily' = days /\ dailyProminent' = AppendAllProminent(dailyProminent, new)
  BY DEF AdvanceDaily, CompleteDay
<1> HIDE DEF held
<1>4. days.bars \in Seq(Bar)
  <2>1. DayBar(held) \in Bar
    BY <1>1, DayIsBar
  <2>2. days.bars = Append(daily.bars, DayBar(held))
    BY DEF AppendBar
  <2> QED BY <2>1, <2>2 DEF EvidenceInv
<1> HIDE DEF days
<1>5. Pivots(new)
  <2>1. ExternalOrder \in Nat \ {0}
    BY OrderAssumption
  <2> QED BY <1>4, <2>1, NewPivots
<1>6. Pivots(dailyProminent)
  BY DEF EvidenceInv
<1> HIDE DEF new
<1>7. CASE UNCHANGED <<daily, dailyProminent>>
  BY <1>1, <1>2, <1>6, <1>7, KeepsSame DEF EvidenceInv
<1>8. CASE daily' = days /\ dailyProminent' = AppendAllProminent(dailyProminent, new)
  <2>1. Pivots(dailyProminent') /\ Keeps(dailyProminent, dailyProminent')
    BY <1>5, <1>6, <1>8, ProminentKeeps
  <2> QED BY <1>1, <1>2, <1>4, <1>8, <2>1
<1> QED BY <1>3, <1>7, <1>8

LEMMA EvidenceStep ==
  ASSUME EvidenceInv, NEW bar \in Candle, Advance(bar)
  PROVE  /\ EvidenceInv'
         /\ Keeps(prominent, prominent') /\ Keeps(dailyProminent, dailyProminent')
<1> DEFINE s == AppendBar(series, bar)
           new == PivotsAtNewCenter(s, ExternalOrder, "external")
<1>1. ReclaimInv'
  BY ReclaimStep DEF EvidenceInv
<1>2. s.bars \in Seq(Bar)
  <2>1. series.bars \in Seq(Bar) /\ bar \in Bar
    BY CandleIsBar DEF EvidenceInv, ReclaimInv
  <2>2. s.bars = Append(series.bars, bar)
    BY DEF AppendBar
  <2> QED BY <2>1, <2>2
<1>3. prominent' = AppendAllProminent(prominent, new)
  BY DEF Advance
<1>4. AdvanceDaily(DayOf(Len(s.bars)), bar)
  BY DEF Advance
<1> HIDE DEF s
<1>5. Pivots(new) /\ Pivots(prominent)
  <2>1. ExternalOrder \in Nat \ {0}
    BY OrderAssumption
  <2> QED BY <1>2, <2>1, NewPivots DEF EvidenceInv
<1> HIDE DEF new
<1>6. Pivots(prominent') /\ Keeps(prominent, prominent')
  BY <1>3, <1>5, ProminentKeeps
<1> QED BY <1>1, <1>4, <1>6, DailyStep DEF EvidenceInv

LEMMA EvidenceAtFirst == Init => EvidenceInv
<1> SUFFICES ASSUME Init PROVE EvidenceInv
  OBVIOUS
<1>1. ReclaimInv
  BY DEF Init, ReclaimInv, EmptySeries, ConfirmedBy, Terms, Order
<1>2. prominent = << >> /\ dailyProminent = << >>
  BY DEF Init
<1>3. Pivots(prominent) /\ Pivots(dailyProminent)
  BY <1>2, EmptyPivots
<1>4. bucket.bars = << >> /\ daily.bars = << >>
  BY DEF Init, EmptySeries
<1> QED BY <1>1, <1>3, <1>4 DEF EvidenceInv

LEMMA EvidenceStutters ==
  ASSUME EvidenceInv, UNCHANGED vars PROVE EvidenceInv'
<1>1. ReclaimInv'
  BY DEF EvidenceInv, ReclaimInv, vars, Key, ConfirmedBy
<1>2. /\ prominent' = prominent /\ dailyProminent' = dailyProminent
      /\ bucket' = bucket /\ daily' = daily
  BY DEF vars
<1> QED BY <1>1, <1>2 DEF EvidenceInv

\* EvidenceInv holds in every state of every history.
THEOREM EvidenceInvariance == Spec => []EvidenceInv
<1>1. EvidenceInv /\ [Next]_vars => EvidenceInv'
  <2>1. ASSUME EvidenceInv, NEW bar \in Candle, Advance(bar)
        PROVE  EvidenceInv'
    BY <2>1, EvidenceStep
  <2> QED BY <2>1, EvidenceStutters DEF Next
<1> QED BY <1>1, EvidenceAtFirst, PTL DEF Spec

\* What a list keeps of the pivots a zone is drawn from.
LEMMA KeptPivots ==
  ASSUME NEW x, NEW y, Pivots(x), Pivots(y), x # << >>, Keeps(x, y)
  PROVE  /\ Range(Front(x)) \subseteq Range(y)
         /\ Lows(Front(x)) \subseteq Lows(y) /\ Highs(Front(x)) \subseteq Highs(y)
         /\ Succeeds(y[Len(x)], Last(x))
<1>1. /\ Pivots(Front(x)) /\ Len(Front(x)) = Len(x) - 1
      /\ \A i \in 1 .. Len(x) - 1 : Front(x)[i] = x[i]
  BY FrontOfPivots
<1>2. DOMAIN Front(x) = 1 .. Len(Front(x))
  BY <1>1, PivotAt
<1>3. DOMAIN y = 1 .. Len(y) /\ Len(y) \in Nat
  BY PivotAt
<1>4. Len(x) \in Nat /\ Len(x) >= 1 /\ Last(x) = x[Len(x)]
  BY PivotAt
<1>5. Len(y) >= Len(x) /\ \A i \in 1 .. Len(x) - 1 : y[i] = x[i]
  BY DEF Keeps
<1>6. Range(Front(x)) \subseteq Range(y)
  BY <1>1, <1>2, <1>3, <1>4, <1>5 DEF Range
<1> QED BY <1>4, <1>6 DEF Keeps, Lows, Highs

\* The last prominent pivot only gives way to a more extreme one of its kind,
\* and what a zone is drawn from stays with its role and its break once another
\* pivot follows (pivots.py 137-164, incremental.py 158-197): no shelf loses its
\* origin to a later bar.
THEOREM OriginsPersistAlways == Spec => OriginsPersist
<1> DEFINE Persist ==
      /\ prominent # << >> => Candidates(Front(prominent)) \subseteq Candidates(prominent)'
      /\ dailyProminent # << >> =>
           DailyOrigins(Front(dailyProminent)) \subseteq DailyOrigins(dailyProminent)'
      /\ \A step \in {<<prominent, prominent'>>, <<dailyProminent, dailyProminent'>>} :
           step[1] # << >> =>
             LET last == Last(step[1])
                 kept == step[2][Len(step[1])]
             IN  kept = last \/ (kept.kind = last.kind /\ MoreExtreme(kept, last))
<1>1. EvidenceInv /\ [Next]_vars => [Persist]_vars
  <2>1. ASSUME EvidenceInv, NEW bar \in Candle, Advance(bar)
        PROVE  Persist
    <3>1. /\ EvidenceInv'
          /\ Keeps(prominent, prominent') /\ Keeps(dailyProminent, dailyProminent')
      BY <2>1, EvidenceStep
    <3>2. /\ DOMAIN reclaims \subseteq DOMAIN reclaims'
          /\ \A key \in DOMAIN reclaims' :
               reclaims'[key] = IF key \in DOMAIN reclaims THEN reclaims[key] ELSE Len(series'.bars)
      BY <2>1, ReclaimStep DEF EvidenceInv
    <3>3. /\ Pivots(prominent) /\ Pivots(prominent')
          /\ Pivots(dailyProminent) /\ Pivots(dailyProminent')
      BY <2>1, <3>1 DEF EvidenceInv
    <3>4. ASSUME NEW p, ReclaimIndex(p) # None
          PROVE  ReclaimIndex(p)' = ReclaimIndex(p)
      BY <3>2, <3>4 DEF ReclaimIndex
    <3>5. ASSUME prominent # << >>
          PROVE  Candidates(Front(prominent)) \subseteq Candidates(prominent)'
      <4>1. /\ Lows(Front(prominent)) \subseteq Lows(prominent')
            /\ Highs(Front(prominent)) \subseteq Highs(prominent')
        BY <3>1, <3>3, <3>5, KeptPivots
      <4> QED BY <3>4, <4>1 DEF Candidates
    <3>6. ASSUME dailyProminent # << >>
          PROVE  DailyOrigins(Front(dailyProminent)) \subseteq DailyOrigins(dailyProminent)'
      <4>1. Lows(Front(dailyProminent)) \subseteq Lows(dailyProminent')
        BY <3>1, <3>3, <3>6, KeptPivots
      <4> QED BY <4>1 DEF DailyOrigins
    <3>7. /\ prominent # << >> => Succeeds(prominent'[Len(prominent)], Last(prominent))
          /\ dailyProminent # << >> => Succeeds(dailyProminent'[Len(dailyProminent)], Last(dailyProminent))
      BY <3>1, <3>3, KeptPivots
    <3> QED BY <3>5, <3>6, <3>7 DEF Succeeds
  <2> QED BY <2>1 DEF Next
<1> QED BY <1>1, EvidenceInvariance, PTL DEF Spec, OriginsPersist

(***************************************************************************)
(* A whole frame, one bar longer.                                          *)
(***************************************************************************)
IsSeq(x) == x \in Seq(Range(x))

\* Bars and averages of one length.
Frame(s) == s.bars \in Seq(Bar) /\ IsSeq(s.atr) /\ Len(s.atr) = Len(s.bars)

LEMMA InSomeSeq ==
  ASSUME NEW S, NEW x \in Seq(S)
  PROVE  IsSeq(x)
<1>1. \A i \in 1 .. Len(x) : x[i] \in Range(x)
  BY DEF Range
<1> QED BY <1>1 DEF IsSeq

LEMMA SeqOver ==
  ASSUME NEW x, IsSeq(x), NEW T, Range(x) \subseteq T
  PROVE  x \in Seq(T)
BY DEF IsSeq

LEMMA AppendSeq ==
  ASSUME NEW x, IsSeq(x), NEW e
  PROVE  /\ IsSeq(Append(x, e)) /\ Len(x) \in Nat
         /\ Len(Append(x, e)) = Len(x) + 1 /\ Append(x, e)[Len(x) + 1] = e
         /\ \A i \in 1 .. Len(x) : Append(x, e)[i] = x[i]
<1> DEFINE S == Range(x) \union {e}
<1>1. x \in Seq(S) /\ e \in S
  <2>1. x \in Seq(Range(x))
    BY DEF IsSeq
  <2> QED BY <2>1
<1> HIDE DEF S
<1>2. Append(x, e) \in Seq(S)
  BY <1>1
<1>3. IsSeq(Append(x, e))
  BY <1>2, InSomeSeq
<1> QED BY <1>1, <1>3

LEMMA AppendFrame ==
  ASSUME NEW s, Frame(s), NEW bar \in Bar
  PROVE  LET t == AppendBar(s, bar)
             n == Len(s.bars)
         IN  /\ Frame(t) /\ n \in Nat /\ Len(t.bars) = n + 1
             /\ t.bars = Append(s.bars, bar) /\ t.bars[n + 1] = bar
             /\ \A i \in 1 .. n : t.bars[i] = s.bars[i] /\ t.atr[i] = s.atr[i]
<1> DEFINE t == AppendBar(s, bar)
           n == Len(s.bars)
           a == RollingAtr(t.tr)
<1>1. t.bars = Append(s.bars, bar) /\ t.atr = Append(s.atr, a)
  BY DEF AppendBar
<1>2. s.bars \in Seq(Bar) /\ IsSeq(s.atr) /\ Len(s.atr) = n
  BY DEF Frame
<1> HIDE DEF t, a
<1>3. /\ t.bars \in Seq(Bar) /\ n \in Nat /\ Len(t.bars) = n + 1 /\ t.bars[n + 1] = bar
      /\ \A i \in 1 .. n : t.bars[i] = s.bars[i]
  BY <1>1, <1>2
<1> HIDE DEF n
<1>4. IsSeq(t.atr) /\ Len(t.atr) = n + 1 /\ \A i \in 1 .. n : t.atr[i] = s.atr[i]
  BY <1>1, <1>2, AppendSeq
<1>5. Frame(t)
  BY <1>3, <1>4 DEF Frame
<1> QED BY <1>1, <1>3, <1>4, <1>5 DEF t, n

\* What a pivot is read from stays.
LEMMA SamePivot ==
  ASSUME NEW s, NEW t, NEW c, NEW kind, NEW term,
         s.bars[c] = t.bars[c], s.atr[c] = t.atr[c]
  PROVE  Pivot(s, c, kind, term) = Pivot(t, c, kind, term)
BY DEF Pivot

LEMMA SameCenter ==
  ASSUME NEW s, NEW t, NEW c \in Nat, NEW order \in Nat \ {0}, NEW term,
         \A i \in c - order .. c + order : s.bars[i] = t.bars[i], s.atr[c] = t.atr[c]
  PROVE  PivotsAtCenter(s, c, order, term) = PivotsAtCenter(t, c, order, term)
<1> DEFINE others == (c - order .. c + order) \ {c}
           sl == \A i \in others : s.bars[c].low < s.bars[i].low
           tl == \A i \in others : t.bars[c].low < t.bars[i].low
           sh == \A i \in others : s.bars[c].high > s.bars[i].high
           th == \A i \in others : t.bars[c].high > t.bars[i].high
<1>1. c \in c - order .. c + order
  OBVIOUS
<1>2. (sl <=> tl) /\ (sh <=> th)
  BY <1>1
<1>3. /\ Pivot(s, c, "low", term) = Pivot(t, c, "low", term)
      /\ Pivot(s, c, "high", term) = Pivot(t, c, "high", term)
  BY <1>1, SamePivot
<1>4. PivotsAtCenter(s, c, order, term) =
        (IF sl THEN <<Pivot(s, c, "low", term)>> ELSE << >>)
          \o (IF sh THEN <<Pivot(s, c, "high", term)>> ELSE << >>)
  BY Zenon DEF PivotsAtCenter
<1>5. PivotsAtCenter(t, c, order, term) =
        (IF tl THEN <<Pivot(t, c, "low", term)>> ELSE << >>)
          \o (IF th THEN <<Pivot(t, c, "high", term)>> ELSE << >>)
  BY Zenon DEF PivotsAtCenter
<1> HIDE DEF sl, tl, sh, th
<1> QED BY <1>2, <1>3, <1>4, <1>5

LEMMA CenterIsSeq ==
  ASSUME NEW s, NEW c, NEW order, NEW term
  PROVE  \E a, b : PivotsAtCenter(s, c, order, term) \in Seq({a, b})
<1> DEFINE others == (c - order .. c + order) \ {c}
           low == \A i \in others : s.bars[c].low < s.bars[i].low
           high == \A i \in others : s.bars[c].high > s.bars[i].high
           a == Pivot(s, c, "low", term)
           b == Pivot(s, c, "high", term)
           lows == IF low THEN <<a>> ELSE << >>
           highs == IF high THEN <<b>> ELSE << >>
<1>1. PivotsAtCenter(s, c, order, term) = lows \o highs
  BY Zenon DEF PivotsAtCenter
<1>2. low \in BOOLEAN /\ high \in BOOLEAN
  OBVIOUS
<1> HIDE DEF low, high, a, b
<1>3. lows \in Seq({a, b})
  BY <1>2, OneOrNone, Zenon
<1>4. highs \in Seq({a, b})
  BY <1>2, OneOrNone, Zenon
<1> HIDE DEF lows, highs
<1>5. lows \o highs \in Seq({a, b})
  BY <1>3, <1>4
<1> QED BY <1>1, <1>5

LEMMA MaxWithZero ==
  ASSUME NEW x \in Int
  PROVE  Max({0, x}) = IF x > 0 THEN x ELSE 0
<1> DEFINE m == IF x > 0 THEN x ELSE 0
<1>1. m \in {0, x} /\ \A y \in {0, x} : m >= y
  OBVIOUS
<1>2. \A z \in {0, x} : (\A y \in {0, x} : z >= y) => z = m
  OBVIOUS
<1> HIDE DEF m
<1>3. Max({0, x}) = CHOOSE z \in {0, x} : \A y \in {0, x} : z >= y
  BY DEF Max
<1> QED BY <1>1, <1>2, <1>3 DEF m

\* The pivots of a frame are those found before and those of its new center.
LEMMA FindPivotsStep ==
  ASSUME NEW s, Frame(s), NEW bar \in Bar, NEW order \in Nat \ {0}, NEW term,
         IsSeq(FindPivots(s, order, term))
  PROVE  FindPivots(AppendBar(s, bar), order, term) =
           FindPivots(s, order, term) \o PivotsAtNewCenter(AppendBar(s, bar), order, term)
<1> DEFINE t == AppendBar(s, bar)
           n == Len(s.bars)
           At(u, k) == PivotsAtCenter(u, k + order, order, term)
           Of(u, m) == [k \in 1 .. m |-> At(u, k)]
<1>1. /\ n \in Nat /\ Len(t.bars) = n + 1
      /\ \A i \in 1 .. n : t.bars[i] = s.bars[i] /\ t.atr[i] = s.atr[i]
  BY AppendFrame
<1> HIDE DEF t, n
<1>2. /\ FindPivots(s, order, term) = FlattenSeq(Of(s, Max({0, n - 2 * order})))
      /\ FindPivots(t, order, term) = FlattenSeq(Of(t, Max({0, n + 1 - 2 * order})))
  BY <1>1 DEF FindPivots, n
<1>3. CASE n + 1 < 2 * order + 1
  <2>1. Max({0, n - 2 * order}) = 0 /\ Max({0, n + 1 - 2 * order}) = 0
    BY <1>1, <1>3, MaxWithZero
  <2>2. Of(s, 0) = << >> /\ Of(t, 0) = << >>
    OBVIOUS
  <2>3. FlattenSeq(<< >>) = << >>
    BY DEF FlattenSeq
  <2>4. PivotsAtNewCenter(t, order, term) = << >>
    BY <1>1, <1>3 DEF PivotsAtNewCenter
  <2>5. << >> \o << >> = << >>
    OBVIOUS
  <2> HIDE DEF Of
  <2>6. FindPivots(s, order, term) = << >> /\ FindPivots(t, order, term) = << >>
    BY <1>2, <2>1, <2>2, <2>3
  <2> QED BY <2>4, <2>5, <2>6 DEF t
<1>4. CASE n + 1 >= 2 * order + 1
  <2> DEFINE m == n - 2 * order
  <2>1. /\ m \in Nat /\ n + 1 - 2 * order = m + 1
        /\ Max({0, n - 2 * order}) = m /\ Max({0, n + 1 - 2 * order}) = m + 1
    BY <1>1, <1>4, MaxWithZero
  <2>2. ASSUME NEW k \in 1 .. m PROVE At(t, k) = At(s, k)
    <3>1. \A i \in (k + order) - order .. (k + order) + order : i \in 1 .. n
      BY <1>1, <1>4
    <3>2. k + order \in 1 .. n
      BY <1>1, <1>4
    <3> DEFINE c == k + order
    <3>3. c \in Nat /\ t.atr[c] = s.atr[c]
      BY <1>1, <3>2
    <3>4. \A i \in c - order .. c + order : t.bars[i] = s.bars[i]
      BY <1>1, <3>1
    <3> HIDE DEF c
    <3>5. PivotsAtCenter(t, c, order, term) = PivotsAtCenter(s, c, order, term)
      BY <3>3, <3>4, SameCenter
    <3> QED BY <3>5 DEF c
  <2>3. Of(t, m + 1) = Append(Of(s, m), At(t, m + 1))
    <3> HIDE DEF At
    <3>1. Len(Of(t, m + 1)) = m + 1 /\ Len(Of(s, m)) = m
      BY <2>1
    <3> DEFINE U == {At(t, k) : k \in 1 .. m + 1} \union {At(s, k) : k \in 1 .. m}
    <3>2. Of(s, m) \in Seq(U) /\ At(t, m + 1) \in U /\ Of(t, m + 1) \in Seq(U)
      BY <2>1
    <3> HIDE DEF U
    <3>3. \A k \in 1 .. m : Of(t, m + 1)[k] = Of(s, m)[k]
      BY <2>1, <2>2
    <3>4. Of(t, m + 1)[m + 1] = At(t, m + 1)
      BY <2>1
    <3> HIDE DEF Of, m
    <3> QED BY <2>1, <3>1, <3>2, <3>3, <3>4
  <2>4. At(t, m + 1) = PivotsAtNewCenter(t, order, term)
    <3>1. (m + 1) + order = Len(t.bars) - order /\ ~(Len(t.bars) < 2 * order + 1)
      BY <1>1, <1>4
    <3> QED BY <3>1 DEF PivotsAtNewCenter
  <2>5. \E T : Of(s, m) \in Seq(Seq(T)) /\ At(t, m + 1) \in Seq(T)
    <3> DEFINE T == (UNION {Range(At(s, k)) : k \in 1 .. m}) \union Range(At(t, m + 1))
    <3>1. \A u, k : IsSeq(At(u, k))
      BY CenterIsSeq, InSomeSeq
    <3> HIDE DEF At
    <3>2. \A k \in 1 .. m : At(s, k) \in Seq(T)
      <4>1. \A k \in 1 .. m : Range(At(s, k)) \subseteq T
        OBVIOUS
      <4> HIDE DEF T
      <4> QED BY <3>1, <4>1, SeqOver
    <3>3. At(t, m + 1) \in Seq(T)
      <4>1. Range(At(t, m + 1)) \subseteq T
        OBVIOUS
      <4> HIDE DEF T
      <4> QED BY <3>1, <4>1, SeqOver
    <3> HIDE DEF T
    <3>4. Of(s, m) \in Seq(Seq(T))
      BY <2>1, <3>2
    <3> QED BY <3>3, <3>4
  <2> HIDE DEF At, Of, m
  <2>6. FlattenSeq(Append(Of(s, m), At(t, m + 1))) = FlattenSeq(Of(s, m)) \o At(t, m + 1)
    BY <2>5, FlattenAppend
  <2> QED BY <1>2, <2>1, <2>3, <2>4, <2>6 DEF t
<1> QED BY <1>1, <1>3, <1>4

(***************************************************************************)
(* Labels and the reducer over a longer list.                              *)
(***************************************************************************)
LEMMA ConcatSeq ==
  ASSUME NEW x, IsSeq(x), NEW y, IsSeq(y)
  PROVE  \E T : x \in Seq(T) /\ y \in Seq(T) /\ x \o y \in Seq(T)
<1> DEFINE T == Range(x) \union Range(y)
<1>1. Range(x) \subseteq T /\ Range(y) \subseteq T
  OBVIOUS
<1> HIDE DEF T
<1>2. x \in Seq(T)
  BY <1>1, SeqOver
<1>3. y \in Seq(T)
  BY <1>1, SeqOver
<1>4. x \o y \in Seq(T)
  BY <1>2, <1>3
<1> QED BY <1>2, <1>3, <1>4

LEMMA LabelsGoOn ==
  ASSUME NEW x, IsSeq(x), NEW y, IsSeq(y)
  PROVE  /\ Label(x \o y) = AppendAllLabeled(Label(x), y)
         /\ Filter(x \o y) = AppendAllProminent(Filter(x), y)
<1>1. PICK T : x \in Seq(T) /\ y \in Seq(T) /\ x \o y \in Seq(T)
  BY ConcatSeq
<1>2. Label(x \o y) = AppendAllLabeled(Label(x), y)
  <2>1. Label(x \o y) = Fold(<<"labeled">>, << >>, x \o y)
    BY <1>1, LabeledFold DEF Label
  <2>2. Label(x) = Fold(<<"labeled">>, << >>, x)
    BY <1>1, LabeledFold DEF Label
  <2>3. AppendAllLabeled(Label(x), y) = Fold(<<"labeled">>, Label(x), y)
    BY <1>1, LabeledFold
  <2>4. Fold(<<"labeled">>, << >>, x \o y) = Fold(<<"labeled">>, Fold(<<"labeled">>, << >>, x), y)
    BY <1>1, FoldConcat
  <2> QED BY <2>1, <2>2, <2>3, <2>4
<1>3. Filter(x \o y) = AppendAllProminent(Filter(x), y)
  <2>1. Filter(x \o y) = Fold(<<"prominent">>, << >>, x \o y)
    BY <1>1, ProminentFold DEF Filter
  <2>2. Filter(x) = Fold(<<"prominent">>, << >>, x)
    BY <1>1, ProminentFold DEF Filter
  <2>3. AppendAllProminent(Filter(x), y) = Fold(<<"prominent">>, Filter(x), y)
    BY <1>1, ProminentFold
  <2>4. Fold(<<"prominent">>, << >>, x \o y) =
          Fold(<<"prominent">>, Fold(<<"prominent">>, << >>, x), y)
    BY <1>1, FoldConcat
  <2> QED BY <2>1, <2>2, <2>3, <2>4
<1> QED BY <1>2, <1>3

\* A role depends on the list and on the pivot's kind and wick.
RoleOf(pivots, kind, wick) ==
  LET before == SameKind(pivots, kind)
      roles == IF kind = "high" THEN [first |-> "H", up |-> "HH", down |-> "LH"]
                                ELSE [first |-> "L", up |-> "HL", down |-> "LL"]
  IN  IF before = << >> THEN roles.first
      ELSE IF wick > Last(before).wick THEN roles.up ELSE roles.down

LEMMA RoleTwice ==
  ASSUME NEW x, NEW p, Wicked(p)
  PROVE  WithRole(x, WithRole(x, p)) = WithRole(x, p)
<1> DEFINE r == RoleOf(x, p.kind, p.wick)
           q == WithRole(x, p)
<1>1. \A u : WithRole(x, u) = [u EXCEPT !.role = RoleOf(x, u.kind, u.wick)]
  BY DEF WithRole, RoleOf
<1>2. q.kind = p.kind /\ q.wick = p.wick
  BY RoleOnly
<1>3. q = [p EXCEPT !.role = r]
  BY <1>1
<1>4. WithRole(x, q) = [q EXCEPT !.role = r]
  BY <1>1, <1>2
<1> HIDE DEF q, r
<1>5. [q EXCEPT !.role = r] = q
  BY <1>3 DEF Wicked
<1> QED BY <1>4, <1>5 DEF q

LEMMA LabeledPivots ==
  ASSUME NEW x, Pivots(x), NEW new, Pivots(new)
  PROVE  Pivots(AppendAllLabeled(x, new))
<1> DEFINE n == Len(new)
<1>1. n \in Nat /\ \A i \in 1 .. n : Wicked(new[i])
  BY PivotAt
<1>2. AppendAllLabeled(x, new) = Fold(<<"labeled">>, x, new)
  <2>1. new \in Seq(Range(new))
    BY DEF Pivots
  <2> QED BY <2>1, LabeledFold
<1>3. PICK f : IsFold(<<"labeled">>, x, new, n, f) /\ Fold(<<"labeled">>, x, new) = f[1 .. n]
  BY <1>1, FoldChosen
<1> HIDE DEF n
<1> DEFINE S == {k \in Nat : k <= n => Pivots(f[1 .. k])}
<1>4. 0 \in S
  <2>1. 1 .. 0 = {} /\ f[{}] = x
    BY <1>3 DEF IsFold
  <2> QED BY <2>1
<1>5. ASSUME NEW k \in Nat, k \in S PROVE k + 1 \in S
  <2> SUFFICES ASSUME k + 1 <= n PROVE Pivots(f[1 .. k + 1])
    OBVIOUS
  <2>1. Pivots(f[1 .. k])
    BY <1>1, <1>5
  <2>2. f[1 .. k + 1] = AppendLabeled(f[1 .. k], new[k + 1])
    <3>1. f[1 .. k + 1] = Step(<<"labeled">>, f[1 .. k], new[k + 1])
      BY <1>1, <1>3, FoldUnrolls
    <3> QED BY <3>1 DEF Step
  <2>3. Wicked(new[k + 1])
    BY <1>1
  <2>4. Wicked(WithRole(f[1 .. k], new[k + 1]))
    BY <2>3, RoleOnly
  <2> QED BY <2>1, <2>2, <2>4, AppendedPivot DEF AppendLabeled
<1> HIDE DEF S
<1>6. \A k \in Nat : k \in S
  BY <1>4, <1>5, Induction
<1>7. n \in S
  BY <1>1, <1>6
<1> QED BY <1>1, <1>2, <1>3, <1>7 DEF S

\* A list whose roles are those its own order gives.
Labelled(x) == Label(x) = x

LEMMA LabelOfAppend ==
  ASSUME NEW x, Pivots(x), NEW q
  PROVE  Label(Append(x, q)) = AppendLabeled(Label(x), q)
<1> DEFINE T == Range(x) \union {q}
<1>1. x \in Seq(T) /\ q \in T
  <2>1. x \in Seq(Range(x))
    BY DEF Pivots
  <2> QED BY <2>1
<1> HIDE DEF T
<1>2. Append(x, q) \in Seq(T)
  BY <1>1
<1>3. Label(Append(x, q)) = Fold(<<"labeled">>, << >>, Append(x, q))
  BY <1>2, LabeledFold DEF Label
<1>4. Label(x) = Fold(<<"labeled">>, << >>, x)
  BY <1>1, LabeledFold DEF Label
<1>5. Fold(<<"labeled">>, << >>, Append(x, q)) = Step(<<"labeled">>, Fold(<<"labeled">>, << >>, x), q)
  BY <1>1, FoldAppend
<1> QED BY <1>3, <1>4, <1>5 DEF Step

LEMMA LabelledMore ==
  ASSUME NEW x, Pivots(x), Labelled(x), NEW p, Wicked(p)
  PROVE  Labelled(AppendLabeled(x, p))
<1> DEFINE q == WithRole(x, p)
<1>1. AppendLabeled(x, p) = Append(x, q)
  BY DEF AppendLabeled
<1>2. Label(Append(x, q)) = AppendLabeled(x, q)
  BY LabelOfAppend DEF Labelled
<1>3. WithRole(x, q) = q
  BY RoleTwice
<1> QED BY <1>1, <1>2, <1>3 DEF AppendLabeled, Labelled

LEMMA SameSeq ==
  ASSUME NEW x, IsSeq(x), NEW y, IsSeq(y), Len(x) = Len(y), \A i \in 1 .. Len(x) : x[i] = y[i]
  PROVE  x = y
<1>1. x \in Seq(Range(x)) /\ y \in Seq(Range(y))
  BY DEF IsSeq
<1> QED BY <1>1

LEMMA SameBefore ==
  ASSUME NEW x, IsSeq(x), NEW y, IsSeq(y), NEW u, NEW v, Append(x, u) = Append(y, v)
  PROVE  x = y
<1>1. /\ Len(x) \in Nat /\ Len(Append(x, u)) = Len(x) + 1
      /\ \A i \in 1 .. Len(x) : Append(x, u)[i] = x[i]
  BY AppendSeq
<1>2. /\ Len(y) \in Nat /\ Len(Append(y, v)) = Len(y) + 1
      /\ \A i \in 1 .. Len(y) : Append(y, v)[i] = y[i]
  BY AppendSeq
<1>3. Len(x) = Len(y) /\ \A i \in 1 .. Len(x) : x[i] = y[i]
  BY <1>1, <1>2
<1> QED BY <1>3, SameSeq

LEMMA PivotsAreSeq ==
  ASSUME NEW x, Pivots(x) PROVE IsSeq(x)
BY DEF Pivots, IsSeq

LEMMA LabelledLess ==
  ASSUME NEW x, Pivots(x), x # << >>, Labelled(x)
  PROVE  Labelled(Front(x))
<1> DEFINE y == Front(x)
           z == Last(x)
<1>1. Pivots(y) /\ Len(y) = Len(x) - 1 /\ \A i \in 1 .. Len(x) - 1 : y[i] = x[i]
  BY FrontOfPivots
<1>2. Len(x) \in Nat /\ Len(x) >= 1 /\ z = x[Len(x)] /\ x \in Seq(Range(x)) /\ z \in Range(x)
  BY PivotAt DEF Pivots
<1> HIDE DEF y, z
<1>3. x = Append(y, z)
  <2>1. /\ IsSeq(Append(y, z)) /\ Len(Append(y, z)) = Len(x) /\ Append(y, z)[Len(x)] = x[Len(x)]
        /\ \A i \in 1 .. Len(x) - 1 : Append(y, z)[i] = x[i]
    <3>1. IsSeq(y)
      BY <1>1, PivotsAreSeq
    <3> QED BY <1>1, <1>2, <3>1, AppendSeq
  <2>2. \A i \in 1 .. Len(x) : Append(y, z)[i] = x[i]
    BY <1>2, <2>1
  <2>3. IsSeq(x)
    BY PivotsAreSeq
  <2>4. PICK T : x \in Seq(T) /\ Append(y, z) \in Seq(T)
    BY <2>1, <2>3, ConcatSeq
  <2> QED BY <2>1, <2>2, <2>4
<1>4. Label(x) = Append(Label(y), WithRole(Label(y), z))
  <2>1. Label(Append(y, z)) = AppendLabeled(Label(y), z)
    BY <1>1, LabelOfAppend
  <2> QED BY <1>3, <2>1 DEF AppendLabeled
<1>5. Pivots(Label(y))
  BY <1>1, EmptyPivots, LabeledPivots DEF Label
<1>6. Append(Label(y), WithRole(Label(y), z)) = Append(y, z)
  BY <1>3, <1>4 DEF Labelled
<1>7. Label(y) = y
  <2> DEFINE w == Label(y)
             v == WithRole(w, z)
  <2>1. IsSeq(w) /\ IsSeq(y)
    BY <1>1, <1>5, PivotsAreSeq
  <2>2. Append(w, v) = Append(y, z)
    BY <1>6
  <2> HIDE DEF w, v
  <2>3. w = y
    BY <2>1, <2>2, SameBefore
  <2> QED BY <2>3 DEF w
<1> QED BY <1>7 DEF Labelled, y

LEMMA LabelledStep ==
  ASSUME NEW x, Pivots(x), Labelled(x), NEW p, Wicked(p)
  PROVE  Labelled(AppendProminent(x, p))
<1> DEFINE y == AppendProminent(x, p)
<1>1. \/ y = AppendLabeled(x, p)
      \/ x # << >> /\ y = AppendLabeled(Front(x), p)
      \/ y = x
  BY DEF AppendProminent
<1> HIDE DEF y
<1>2. CASE y = AppendLabeled(x, p)
  BY <1>2, LabelledMore DEF y
<1>3. CASE x # << >> /\ y = AppendLabeled(Front(x), p)
  <2>1. Pivots(Front(x)) /\ Labelled(Front(x))
    BY <1>3, FrontOfPivots, LabelledLess
  <2> QED BY <1>3, <2>1, LabelledMore DEF y
<1>4. CASE y = x
  BY <1>4 DEF y
<1> QED BY <1>1, <1>2, <1>3, <1>4

LEMMA ProminentLabelled ==
  ASSUME NEW x, Pivots(x), Labelled(x), NEW new, Pivots(new)
  PROVE  Labelled(AppendAllProminent(x, new))
<1> DEFINE n == Len(new)
<1>1. n \in Nat /\ \A i \in 1 .. n : Wicked(new[i])
  BY PivotAt
<1>2. AppendAllProminent(x, new) = Fold(<<"prominent">>, x, new)
  <2>1. new \in Seq(Range(new))
    BY DEF Pivots
  <2> QED BY <2>1, ProminentFold
<1>3. PICK f : IsFold(<<"prominent">>, x, new, n, f) /\ Fold(<<"prominent">>, x, new) = f[1 .. n]
  BY <1>1, FoldChosen
<1> HIDE DEF n
<1> DEFINE S == {k \in Nat : k <= n => Pivots(f[1 .. k]) /\ Labelled(f[1 .. k])}
<1>4. 0 \in S
  <2>1. 1 .. 0 = {} /\ f[{}] = x
    BY <1>3 DEF IsFold
  <2> QED BY <2>1
<1>5. ASSUME NEW k \in Nat, k \in S PROVE k + 1 \in S
  <2> SUFFICES ASSUME k + 1 <= n PROVE Pivots(f[1 .. k + 1]) /\ Labelled(f[1 .. k + 1])
    OBVIOUS
  <2>1. Pivots(f[1 .. k]) /\ Labelled(f[1 .. k])
    BY <1>1, <1>5
  <2>2. f[1 .. k + 1] = AppendProminent(f[1 .. k], new[k + 1])
    <3>1. f[1 .. k + 1] = Step(<<"prominent">>, f[1 .. k], new[k + 1])
      BY <1>1, <1>3, FoldUnrolls
    <3> QED BY <3>1 DEF Step
  <2>3. Wicked(new[k + 1])
    BY <1>1
  <2>4. Pivots(f[1 .. k + 1])
    BY <2>1, <2>2, <2>3, ProminentStep
  <2>5. Labelled(f[1 .. k + 1])
    BY <2>1, <2>2, <2>3, LabelledStep
  <2> QED BY <2>4, <2>5
<1> HIDE DEF S
<1>6. \A k \in Nat : k \in S
  BY <1>4, <1>5, Induction
<1>7. n \in S
  BY <1>1, <1>6
<1> QED BY <1>1, <1>2, <1>3, <1>7 DEF S

(***************************************************************************)
(* The state agrees with the frame: pivots.                                *)
(***************************************************************************)
External == FindPivots(series, ExternalOrder, "external")

Inner == FindPivots(series, InternalOrder, "internal")

PivotsInv ==
  /\ Frame(series) /\ series = Series(series.bars)
  /\ Pivots(External) /\ Pivots(Inner)
  /\ raw = Label(External) /\ internal = Label(Inner)
  /\ prominent = Filter(External) /\ Pivots(prominent) /\ Labelled(prominent)

LEMMA ConcatPivots ==
  ASSUME NEW x, Pivots(x), NEW y, Pivots(y)
  PROVE  Pivots(x \o y)
<1> DEFINE S == Range(x) \union Range(y)
<1>1. /\ Range(x) \subseteq S /\ Range(y) \subseteq S /\ \A p \in S : Wicked(p)
      /\ IsSeq(x) /\ IsSeq(y)
  BY DEF Pivots, IsSeq
<1> HIDE DEF S
<1>2. x \in Seq(S)
  BY <1>1, SeqOver
<1>3. y \in Seq(S)
  BY <1>1, SeqOver
<1>4. x \o y \in Seq(S)
  BY <1>2, <1>3
<1> QED BY <1>1, <1>4, PivotsInSet

LEMMA SeriesStep ==
  ASSUME NEW s, Frame(s), s = Series(s.bars), NEW bar \in Bar
  PROVE  AppendBar(s, bar) = Series(AppendBar(s, bar).bars)
<1>1. s.bars \in Seq(Bar)
  BY DEF Frame
<1>2. AppendBar(s, bar).bars = Append(s.bars, bar) /\ Append(s.bars, bar) \in Seq(Bar)
  BY <1>1 DEF AppendBar
<1>3. Series(s.bars) = Fold(<<"bar">>, EmptySeries, s.bars)
  BY <1>1, SeriesFold
<1>4. Series(Append(s.bars, bar)) = Fold(<<"bar">>, EmptySeries, Append(s.bars, bar))
  BY <1>2, SeriesFold
<1>5. Fold(<<"bar">>, EmptySeries, Append(s.bars, bar)) =
        Step(<<"bar">>, Fold(<<"bar">>, EmptySeries, s.bars), bar)
  BY <1>1, FoldAppend
<1> QED BY <1>2, <1>3, <1>4, <1>5 DEF Step

LEMMA PivotsStep ==
  ASSUME PivotsInv, NEW bar \in Candle, Advance(bar)
  PROVE  /\ PivotsInv'
         /\ External' = External \o PivotsAtNewCenter(series', ExternalOrder, "external")
         /\ Inner' = Inner \o PivotsAtNewCenter(series', InternalOrder, "internal")
<1> DEFINE s == AppendBar(series, bar)
           ext == PivotsAtNewCenter(s, ExternalOrder, "external")
           int == PivotsAtNewCenter(s, InternalOrder, "internal")
<1>1. /\ series' = s /\ raw' = AppendAllLabeled(raw, ext) /\ internal' = AppendAllLabeled(internal, int)
      /\ prominent' = AppendAllProminent(prominent, ext)
  BY DEF Advance
<1>2. bar \in Bar /\ ExternalOrder \in Nat \ {0} /\ InternalOrder \in Nat \ {0}
  BY CandleIsBar, OrderAssumption
<1>3. /\ Frame(series) /\ series = Series(series.bars)
      /\ Pivots(External) /\ Pivots(Inner) /\ IsSeq(External) /\ IsSeq(Inner)
      /\ raw = Label(External) /\ internal = Label(Inner)
      /\ prominent = Filter(External) /\ Pivots(prominent) /\ Labelled(prominent)
  BY PivotsAreSeq DEF PivotsInv
<1>4. Frame(s) /\ s.bars \in Seq(Bar)
  BY <1>2, <1>3, AppendFrame DEF Frame
<1>5. s = Series(s.bars)
  BY <1>2, <1>3, SeriesStep
<1>6. FindPivots(s, ExternalOrder, "external") = External \o ext
  BY <1>2, <1>3, FindPivotsStep DEF External
<1>7. FindPivots(s, InternalOrder, "internal") = Inner \o int
  BY <1>2, <1>3, FindPivotsStep DEF Inner
<1>8. External' = External \o ext /\ Inner' = Inner \o int
  BY <1>1, <1>6, <1>7 DEF External, Inner
<1> HIDE DEF s
<1>9. Pivots(ext) /\ Pivots(int) /\ IsSeq(ext) /\ IsSeq(int)
  BY <1>2, <1>4, NewPivots, PivotsAreSeq
<1>10. External' = External \o PivotsAtNewCenter(series', ExternalOrder, "external")
       /\ Inner' = Inner \o PivotsAtNewCenter(series', InternalOrder, "internal")
  BY <1>1, <1>8
<1> HIDE DEF ext, int
<1>11. Pivots(External') /\ Pivots(Inner')
  BY <1>3, <1>8, <1>9, ConcatPivots
<1>12. raw' = Label(External') /\ internal' = Label(Inner') /\ prominent' = Filter(External')
  BY <1>1, <1>3, <1>8, <1>9, LabelsGoOn
<1>13. Pivots(prominent') /\ Labelled(prominent')
  BY <1>1, <1>3, <1>9, ProminentKeeps, ProminentLabelled
<1>14. Frame(series') /\ series' = Series(series'.bars)
  BY <1>1, <1>4, <1>5
<1>15. PivotsInv'
  BY <1>11, <1>12, <1>13, <1>14 DEF PivotsInv
<1> QED BY <1>10, <1>15

(***************************************************************************)
(* The state agrees with the frame: reclaims.                              *)
(***************************************************************************)
Known == Highs(External) \union Highs(Inner)

ReadOff(p, s) ==
  /\ p.term \in Terms /\ p.index \in 1 .. Len(s.bars)
  /\ p = Pivot(s, p.index, "high", p.term)

ReclaimsInv ==
  /\ \A p \in Known : ReadOff(p, series)
  /\ pending = {p \in Known : FirstReclaim(p, series.bars) = None}
  /\ reclaims = FirstReclaims(Known, series.bars)

LEMMA HighsOfConcat ==
  ASSUME NEW x, IsSeq(x), NEW y, IsSeq(y)
  PROVE  Highs(x \o y) = Highs(x) \union Highs(y)
<1>1. PICK T : x \in Seq(T) /\ y \in Seq(T) /\ x \o y \in Seq(T)
  BY ConcatSeq
<1>2. Range(x \o y) \subseteq Range(x) \union Range(y)
  BY <1>1, RangeOfConcatenation
<1>3. /\ DOMAIN x = 1 .. Len(x) /\ DOMAIN y = 1 .. Len(y) /\ Len(x) \in Nat /\ Len(y) \in Nat
      /\ DOMAIN (x \o y) = 1 .. Len(x) + Len(y)
      /\ \A i \in 1 .. Len(x) : (x \o y)[i] = x[i]
      /\ \A i \in 1 .. Len(y) : (x \o y)[Len(x) + i] = y[i]
  BY <1>1
<1>4. Range(x) \subseteq Range(x \o y)
  BY <1>3 DEF Range
<1>5. Range(y) \subseteq Range(x \o y)
  <2>1. \A i \in 1 .. Len(y) : Len(x) + i \in 1 .. Len(x) + Len(y)
    BY <1>3
  <2> QED BY <1>3, <2>1 DEF Range
<1> QED BY <1>2, <1>4, <1>5 DEF Highs

\* One more bar clears a high or leaves its first reclaim as it was.
LEMMA FirstReclaimStep ==
  ASSUME NEW bars \in Seq(Bar), NEW bar \in Bar, NEW p, p.index \in Nat, p.index <= Len(bars)
  PROVE  FirstReclaim(p, Append(bars, bar)) =
           IF FirstReclaim(p, bars) # None THEN FirstReclaim(p, bars)
           ELSE IF Clears(bar, p) THEN Len(bars) + 1 ELSE None
<1> DEFINE n == Len(bars)
           hits == {i \in p.index + 1 .. n : Clears(bars[i], p)}
           more == {i \in p.index + 1 .. n + 1 : Clears(Append(bars, bar)[i], p)}
<1>1. /\ n \in Nat /\ Len(Append(bars, bar)) = n + 1 /\ Append(bars, bar)[n + 1] = bar
      /\ \A i \in 1 .. n : Append(bars, bar)[i] = bars[i]
  OBVIOUS
<1>2. more = hits \union (IF Clears(bar, p) THEN {n + 1} ELSE {})
  BY <1>1
<1>3. /\ FirstReclaim(p, bars) = (IF hits = {} THEN None ELSE Min(hits))
      /\ FirstReclaim(p, Append(bars, bar)) = (IF more = {} THEN None ELSE Min(more))
  BY <1>1 DEF FirstReclaim
<1>4. hits \subseteq 1 .. n /\ more \subseteq 1 .. n + 1
  BY <1>1
<1> HIDE DEF hits, more
<1>5. CASE hits = {}
  <2>1. CASE Clears(bar, p)
    <3>1. more = {n + 1}
      BY <1>2, <1>5, <2>1
    <3>2. Min({n + 1}) = n + 1
      BY <1>1 DEF Min
    <3> QED BY <1>3, <1>5, <2>1, <3>1, <3>2
  <2>2. CASE ~Clears(bar, p)
    BY <1>2, <1>3, <1>5, <2>2
  <2> QED BY <2>1, <2>2
<1>6. CASE hits # {}
  <2>1. hits \in SUBSET Nat
    BY <1>1, <1>4
  <2>2. PICK m \in hits : \A i \in hits : m <= i
    BY <1>6, <2>1, NatLeast
  <2>3. \A i \in more : m <= i
    BY <1>1, <1>2, <1>4, <2>2
  <2>4. m \in more /\ m \in Nat
    BY <1>2, <2>1, <2>2
  <2>5. more \in SUBSET Nat
    BY <1>1, <1>4
  <2>6. Min(hits) = m
    <3>1. \A z \in hits : (\A y \in hits : z <= y) => z = m
      BY <2>1, <2>2
    <3> QED BY <2>2, <3>1 DEF Min
  <2>7. Min(more) = m
    <3>1. \A z \in more : (\A y \in more : z <= y) => z = m
      BY <2>3, <2>4, <2>5
    <3> QED BY <2>3, <2>4, <3>1 DEF Min
  <2> QED BY <1>3, <1>6, <2>4, <2>6, <2>7, NoneAssumption
<1> QED BY <1>5, <1>6

\* A key tells two highs of a frame apart.
LEMMA KeysTell ==
  ASSUME NEW s, NEW p, NEW q, ReadOff(p, s), ReadOff(q, s), Key(p) = Key(q)
  PROVE  p = q
BY DEF ReadOff, Key

LEMMA FirstReclaimsAt ==
  ASSUME NEW s, NEW H, \A p \in H : ReadOff(p, s), NEW bars, NEW p \in H, FirstReclaim(p, bars) # None
  PROVE  /\ Key(p) \in DOMAIN FirstReclaims(H, bars)
         /\ FirstReclaims(H, bars)[Key(p)] = FirstReclaim(p, bars)
<1>1. p \in Reclaimed(H, bars)
  BY DEF Reclaimed
<1>2. (CHOOSE q \in H : Key(q) = Key(p)) = p
  <2>1. \A q \in H : Key(q) = Key(p) => q = p
    BY KeysTell
  <2> QED BY <2>1
<1>3. Key(p) \in {Key(q) : q \in Reclaimed(H, bars)}
  BY <1>1
<1> QED BY <1>2, <1>3 DEF FirstReclaims

\* What Advance does to the reclaims.
LEMMA AdvanceReclaimsIs ==
  ASSUME ReclaimInv, NEW bar \in Candle, Advance(bar)
  PROVE  LET n == Len(series.bars)
             waiting == pending \union ConfirmedAt(series')
             cleared == {p \in waiting : Clears(bar, p)}
         IN  /\ reclaims' = Merge([key \in {Key(p) : p \in cleared} |-> n + 1], reclaims)
             /\ pending' = waiting \ cleared
             /\ \A p \in ConfirmedAt(series') : FirstReclaim(p, series'.bars) = None
<1> DEFINE s == AppendBar(series, bar)
           n == Len(series.bars)
           confirmed == ConfirmedAt(s)
           waiting == pending \union confirmed
           cleared == {p \in waiting : Clears(bar, p)}
           now == [key \in {Key(p) : p \in cleared} |-> n + 1]
<1>1. /\ n \in Nat /\ s.bars \in Seq(Candle) /\ Len(s.bars) = n + 1 /\ series' = s
  BY DEF ReclaimInv, AppendBar, Advance
<1>2. AdvanceReclaims(s, bar, confirmed)
  BY DEF Advance, ConfirmedAt
<1> HIDE DEF s
<1>3. Reclaimed(confirmed, s.bars) = {}
  BY <1>1, ConfirmedHighs
<1>4. FirstReclaims(confirmed, s.bars) = [key \in {} |-> n]
  BY <1>3 DEF FirstReclaims
<1> HIDE DEF confirmed
<1>5. reclaims' = Merge(now, Merge([key \in {} |-> n], reclaims)) /\ pending' = waiting \ cleared
  BY <1>1, <1>2, <1>3, <1>4 DEF AdvanceReclaims
<1>6. Merge([key \in {} |-> n], reclaims) = [x \in DOMAIN reclaims |-> reclaims[x]]
  BY DEF Merge
<1>7. Merge(now, [x \in DOMAIN reclaims |-> reclaims[x]]) = Merge(now, reclaims)
  BY DEF Merge
<1>8. \A p \in confirmed : FirstReclaim(p, s.bars) = None
  BY <1>3 DEF Reclaimed
<1> QED BY <1>1, <1>5, <1>6, <1>7, <1>8 DEF confirmed

LEMMA ReclaimsAgree ==
  ASSUME ReclaimInv, PivotsInv, ReclaimsInv, NEW bar \in Candle, Advance(bar)
  PROVE  ReclaimsInv'
<1> DEFINE n == Len(series.bars)
           C == ConfirmedAt(series')
           K == Known'
           waiting == pending \union C
           cleared == {p \in waiting : Clears(bar, p)}
           now == [key \in {Key(p) : p \in cleared} |-> n + 1]
           bars == series.bars
           more == series'.bars
<1>1. /\ n \in Nat /\ Len(more) = n + 1 /\ more = Append(bars, bar)
      /\ bars \in Seq(Bar) /\ bar \in Bar
      /\ \A i \in 1 .. n : series'.bars[i] = series.bars[i] /\ series'.atr[i] = series.atr[i]
  <2>1. Frame(series) /\ bar \in Bar /\ series' = AppendBar(series, bar)
    BY CandleIsBar DEF PivotsInv, Advance
  <2> QED BY <2>1, AppendFrame DEF Frame
<1>2. /\ reclaims' = Merge(now, reclaims) /\ pending' = waiting \ cleared
      /\ \A p \in C : FirstReclaim(p, more) = None
  BY AdvanceReclaimsIs
<1>3. K = Known \union C
  <2>1. /\ External' = External \o PivotsAtNewCenter(series', ExternalOrder, "external")
        /\ Inner' = Inner \o PivotsAtNewCenter(series', InternalOrder, "internal")
    BY PivotsStep
  <2>2. Frame(series') /\ IsSeq(External) /\ IsSeq(Inner)
    BY PivotsStep, PivotsAreSeq DEF PivotsInv
  <2>3. /\ IsSeq(PivotsAtNewCenter(series', ExternalOrder, "external"))
        /\ IsSeq(PivotsAtNewCenter(series', InternalOrder, "internal"))
    BY <2>2, OrderAssumption, NewPivots, PivotsAreSeq DEF Frame
  <2>4. Highs(External') = Highs(External) \union
          Highs(PivotsAtNewCenter(series', ExternalOrder, "external"))
    BY <2>1, <2>2, <2>3, HighsOfConcat
  <2>5. Highs(Inner') = Highs(Inner) \union
          Highs(PivotsAtNewCenter(series', InternalOrder, "internal"))
    BY <2>1, <2>2, <2>3, HighsOfConcat
  <2> QED BY <2>4, <2>5 DEF Known, ConfirmedAt
<1> HIDE DEF n, K, bars, more
<1>4. \A p \in Known : /\ ReadOff(p, series) /\ ReadOff(p, series')
                       /\ p.index \in Nat /\ p.index <= n
  <2> SUFFICES ASSUME NEW p \in Known
               PROVE  /\ ReadOff(p, series) /\ ReadOff(p, series')
                      /\ p.index \in Nat /\ p.index <= n
    OBVIOUS
  <2>1. ReadOff(p, series)
    BY DEF ReclaimsInv
  <2>2. p.index \in 1 .. n /\ p.term \in Terms /\ p = Pivot(series, p.index, "high", p.term)
    BY <2>1 DEF ReadOff, n
  <2>3. Pivot(series, p.index, "high", p.term) = Pivot(series', p.index, "high", p.term)
    BY <1>1, <2>2, SamePivot
  <2>4. p.index \in 1 .. Len(series'.bars)
    BY <1>1, <2>2 DEF more
  <2> QED BY <1>1, <2>1, <2>2, <2>3, <2>4 DEF ReadOff
<1>5. \A p \in C : ReadOff(p, series') /\ p.index \in Nat /\ p.index <= n
  <2> SUFFICES ASSUME NEW p \in C
               PROVE  ReadOff(p, series') /\ p.index \in Nat /\ p.index <= n
    OBVIOUS
  <2>1. PICK term \in Terms : p \in Highs(PivotsAtNewCenter(series', Order(term), term))
    BY DEF ConfirmedAt, Terms, Order
  <2>2. Order(term) \in Nat \ {0}
    BY OrderAssumption DEF Order, Terms
  <2>3. Len(series'.bars) = n + 1
    BY <1>1 DEF more
  <2>4. p = Pivot(series', (n + 1) - Order(term), "high", term) /\ n + 1 >= 2 * Order(term) + 1
    <3> DEFINE order == Order(term)
               t == series'
    <3>1. /\ order \in Nat \ {0} /\ Len(t.bars) \in Nat
          /\ p \in Highs(PivotsAtNewCenter(t, order, term))
      BY <1>1, <2>1, <2>2, <2>3
    <3> HIDE DEF order, t
    <3>2. p = Pivot(t, Len(t.bars) - order, "high", term) /\ Len(t.bars) >= 2 * order + 1
      BY <3>1, HighsAtNewCenter
    <3> QED BY <2>3, <3>2 DEF order, t
  <2>5. p.index = (n + 1) - Order(term) /\ p.term = term
    BY <2>4 DEF Pivot
  <2>6. p.index \in 1 .. n + 1 /\ p.index <= n
    BY <1>1, <2>2, <2>4, <2>5
  <2> QED BY <2>3, <2>4, <2>5, <2>6 DEF ReadOff
<1>6. \A p \in K : ReadOff(p, series')
  BY <1>3, <1>4, <1>5
<1>7. \A p \in Known \union C :
        FirstReclaim(p, more) = IF FirstReclaim(p, bars) # None THEN FirstReclaim(p, bars)
                                ELSE IF Clears(bar, p) THEN n + 1 ELSE None
  BY <1>1, <1>4, <1>5, FirstReclaimStep DEF n, bars
<1>8. n + 1 # None
  BY <1>1, NoneAssumption
<1>9. pending = {p \in Known : FirstReclaim(p, bars) = None}
  BY DEF ReclaimsInv, bars
<1>10. \A p \in C : FirstReclaim(p, bars) = None /\ ~Clears(bar, p)
  BY <1>2, <1>7, <1>8
<1>11. pending' = {p \in K : FirstReclaim(p, more) = None}
  <2>1. \A p \in K : p \in waiting \ cleared <=> FirstReclaim(p, more) = None
    BY <1>2, <1>3, <1>7, <1>8, <1>9, <1>10
  <2>2. waiting \ cleared \subseteq K
    BY <1>3, <1>9
  <2> QED BY <1>2, <2>1, <2>2
<1>12. cleared = {p \in Known : FirstReclaim(p, bars) = None /\ Clears(bar, p)}
  BY <1>9, <1>10
<1> HIDE DEF cleared, waiting
<1>13. reclaims = FirstReclaims(Known, bars)
  BY DEF ReclaimsInv, bars
<1>14. DOMAIN FirstReclaims(K, more) = {Key(p) : p \in cleared} \union DOMAIN reclaims
  <2>1. Reclaimed(K, more) = cleared \union Reclaimed(Known, bars)
    BY <1>3, <1>7, <1>8, <1>10, <1>12 DEF Reclaimed
  <2>2. /\ DOMAIN FirstReclaims(K, more) = {Key(p) : p \in Reclaimed(K, more)}
        /\ DOMAIN FirstReclaims(Known, bars) = {Key(p) : p \in Reclaimed(Known, bars)}
    BY DEF FirstReclaims
  <2> QED BY <1>13, <2>1, <2>2
<1>15. DOMAIN FirstReclaims(Known, bars) = {Key(p) : p \in Reclaimed(Known, bars)}
  BY DEF FirstReclaims
<1>16. ASSUME NEW key \in {Key(p) : p \in cleared}
       PROVE  FirstReclaims(K, more)[key] = n + 1
  <2>1. PICK p \in cleared : key = Key(p)
    OBVIOUS
  <2>2. p \in K /\ FirstReclaim(p, more) = n + 1
    BY <1>3, <1>7, <1>12
  <2> QED BY <1>6, <1>8, <2>1, <2>2, FirstReclaimsAt
<1>17. ASSUME NEW key \in DOMAIN reclaims, key \notin {Key(p) : p \in cleared}
       PROVE  FirstReclaims(K, more)[key] = reclaims[key]
  <2>1. PICK p \in Known : key = Key(p) /\ FirstReclaim(p, bars) # None
    BY <1>13, <1>15 DEF Reclaimed
  <2>2. p \in K /\ FirstReclaim(p, more) = FirstReclaim(p, bars)
    BY <1>3, <1>7, <2>1
  <2>3. FirstReclaims(K, more)[key] = FirstReclaim(p, more)
    BY <1>6, <2>1, <2>2, FirstReclaimsAt
  <2>4. FirstReclaims(Known, bars)[key] = FirstReclaim(p, bars)
    BY <1>4, <2>1, FirstReclaimsAt
  <2> QED BY <1>13, <2>2, <2>3, <2>4
<1>18. reclaims' = FirstReclaims(K, more)
  <2>1. FirstReclaims(K, more) = [key \in DOMAIN FirstReclaims(K, more) |-> FirstReclaims(K, more)[key]]
    BY DEF FirstReclaims
  <2>2. Merge(now, reclaims) =
          [key \in {Key(p) : p \in cleared} \union DOMAIN reclaims |->
             IF key \in {Key(p) : p \in cleared} THEN n + 1 ELSE reclaims[key]]
    BY DEF Merge
  <2>3. \A key \in DOMAIN FirstReclaims(K, more) :
          FirstReclaims(K, more)[key] =
            IF key \in {Key(p) : p \in cleared} THEN n + 1 ELSE reclaims[key]
    BY <1>14, <1>16, <1>17
  <2> DEFINE g == FirstReclaims(K, more)
             A == {Key(p) : p \in cleared}
  <2> HIDE DEF g, A, now
  <2>4. g = [key \in DOMAIN g |-> g[key]] /\ DOMAIN g = A \union DOMAIN reclaims
    BY <1>14, <2>1 DEF g, A
  <2>5. \A key \in DOMAIN g : g[key] = IF key \in A THEN n + 1 ELSE reclaims[key]
    BY <2>3 DEF g, A
  <2>6. Merge(now, reclaims) =
          [key \in A \union DOMAIN reclaims |-> IF key \in A THEN n + 1 ELSE reclaims[key]]
    BY <2>2 DEF A
  <2>7. g = Merge(now, reclaims)
    BY <2>4, <2>5, <2>6
  <2> QED BY <1>2, <2>7 DEF g
<1> QED BY <1>6, <1>11, <1>18 DEF ReclaimsInv, K, more

(***************************************************************************)
(* The state agrees with the frame: days.                                  *)
(***************************************************************************)
LEMMA Quotient ==
  ASSUME NEW a \in Int, NEW b \in Nat \ {0}
  PROVE  /\ a \div b \in Int
         /\ (a \div b) * b <= a /\ a < (a \div b) * b + b
<1>1. a \div b \in Int
  OBVIOUS
<1>2. a = b * (a \div b) + (a % b) /\ a % b \in 0 .. b - 1
  OBVIOUS
<1> QED BY <1>1, <1>2

LEMMA Products ==
  ASSUME NEW x \in Int, NEW y \in Int, NEW b \in Nat, x < y
  PROVE  x * b + b <= y * b /\ x * b \in Int /\ y * b \in Int
<1>1. (y - x - 1) * b >= 0
  OBVIOUS
<1>2. (y - x - 1) * b = y * b - x * b - b
  OBVIOUS
<1>3. x * b \in Int /\ y * b \in Int
  OBVIOUS
<1> QED BY <1>1, <1>2, <1>3

LEMMA QuotientIs ==
  ASSUME NEW a \in Int, NEW b \in Nat \ {0}, NEW q \in Int, q * b <= a, a < q * b + b
  PROVE  a \div b = q
<1> DEFINE r == a \div b
<1>1. r \in Int /\ r * b <= a /\ a < r * b + b
  BY Quotient
<1> HIDE DEF r
<1>2. ~(r < q)
  <2> SUFFICES ASSUME r < q PROVE FALSE
    OBVIOUS
  <2>1. r * b + b <= q * b /\ r * b \in Int /\ q * b \in Int
    BY <1>1, Products
  <2> QED BY <1>1, <2>1
<1>3. ~(q < r)
  <2> SUFFICES ASSUME q < r PROVE FALSE
    OBVIOUS
  <2>1. q * b + b <= r * b /\ r * b \in Int /\ q * b \in Int
    BY <1>1, Products
  <2> QED BY <1>1, <2>1
<1>4. r = q
  BY <1>1, <1>2, <1>3
<1> QED BY <1>4 DEF r

StartsInDay == start \in 0 .. DayBars - 1

\* The day of the bar that follows n bars.
Whole(n) == (start + n) \div DayBars

\* The bars of the history that come before a day.
Before(d) == IF d * DayBars > start THEN d * DayBars - start ELSE 0

\* The first day of which the history has all bars.
First == IF start = 0 THEN 0 ELSE 1

DaysUpTo(m) == [j \in 1 .. (IF m > First THEN m - First ELSE 0) |-> First + j - 1]

LEMMA DayBarsNat == DayBars \in Nat \ {0} /\ DayBars >= 1
BY OrderAssumption

LEMMA WholeBounds ==
  ASSUME StartsInDay, NEW n \in Nat
  PROVE  /\ Whole(n) \in Nat /\ Whole(n) * DayBars \in Nat /\ start \in Nat /\ start < DayBars
         /\ Whole(n) * DayBars <= start + n /\ start + n < Whole(n) * DayBars + DayBars
<1>1. start \in Nat /\ start < DayBars /\ start + n \in Int
  BY DayBarsNat DEF StartsInDay
<1> DEFINE w == Whole(n)
           P == w * DayBars
<1>2. w \in Int /\ P <= start + n /\ start + n < P + DayBars
  BY <1>1, DayBarsNat, Quotient DEF Whole
<1> HIDE DEF w
<1>3. P \in Int
  BY <1>2, DayBarsNat
<1>4. ~(w < 0)
  <2> SUFFICES ASSUME w < 0 PROVE FALSE
    OBVIOUS
  <2>1. (0 - w - 1) * DayBars >= 0
    <3>1. 0 - w - 1 \in Nat
      BY <1>2
    <3> QED BY <3>1, DayBarsNat
  <2>2. (0 - w - 1) * DayBars = 0 - P - DayBars
    BY <1>2, DayBarsNat
  <2> HIDE DEF P
  <2>3. P + DayBars <= 0
    BY <1>3, <2>1, <2>2, DayBarsNat
  <2> QED BY <1>1, <1>2, <1>3, <2>3, DayBarsNat
<1>5. w \in Nat
  BY <1>2, <1>4
<1>6. P \in Nat
  BY <1>5, DayBarsNat
<1> QED BY <1>1, <1>2, <1>5, <1>6 DEF w

\* The rows of a day are consecutive.
LEMMA RowsOfDay ==
  ASSUME StartsInDay, NEW d \in Nat, NEW i \in Nat \ {0}
  PROVE  DayOf(i) = d <=> Before(d) < i /\ i <= d * DayBars + DayBars - start
<1>1. start \in Nat /\ start < DayBars /\ DayBars \in Nat \ {0}
  BY DayBarsNat DEF StartsInDay
<1>2. d * DayBars \in Nat
  BY <1>1
<1> DEFINE a == start + i - 1
<1>3. a \in Nat /\ DayOf(i) = a \div DayBars
  BY <1>1 DEF DayOf
<1>4. /\ a \div DayBars \in Int /\ (a \div DayBars) * DayBars <= a
      /\ a < (a \div DayBars) * DayBars + DayBars
  BY <1>1, <1>3, Quotient
<1>5. DayOf(i) = d <=> d * DayBars <= a /\ a < d * DayBars + DayBars
  <2>1. d * DayBars <= a /\ a < d * DayBars + DayBars => a \div DayBars = d
    BY <1>1, <1>3, QuotientIs
  <2> HIDE DEF a
  <2> QED BY <1>3, <1>4, <2>1
<1>6. d * DayBars <= a <=> Before(d) < i
  BY <1>1, <1>2 DEF Before
<1>7. a < d * DayBars + DayBars <=> i <= d * DayBars + DayBars - start
  BY <1>1, <1>2
<1> QED BY <1>5, <1>6, <1>7

\* What the next bar completes.
LEMMA NextWhole ==
  ASSUME StartsInDay, NEW n \in Nat
  PROVE  /\ Before(Whole(n)) \in 0 .. n
         /\ DayOf(n + 1) = Whole(n)
         /\ Whole(n + 1) =
              IF start + n + 1 = Whole(n) * DayBars + DayBars THEN Whole(n) + 1 ELSE Whole(n)
         /\ n + 1 - Before(Whole(n)) >= DayBars <=>
              /\ start + n + 1 = Whole(n) * DayBars + DayBars
              /\ Whole(n) >= First
<1> DEFINE t == Whole(n)
           P == t * DayBars
<1>1. /\ t \in Nat /\ P \in Nat /\ start \in Nat /\ start < DayBars /\ DayBars \in Nat \ {0}
      /\ P <= start + n /\ start + n < P + DayBars
  BY WholeBounds, DayBarsNat
<1>2. Before(t) = IF P > start THEN P - start ELSE 0
  BY DEF Before
<1>3. DayOf(n + 1) = t
  <2>1. start + (n + 1) - 1 = start + n
    BY <1>1
  <2> QED BY <2>1 DEF DayOf, Whole
<1>4. Whole(n + 1) = (start + (n + 1)) \div DayBars /\ start + (n + 1) = start + n + 1
  BY <1>1 DEF Whole
<1>5. (t + 1) * DayBars = P + DayBars
  BY <1>1
<1>6. t = 0 => P = 0
  BY <1>1
<1>7. t >= 1 => P >= DayBars
  <2> SUFFICES ASSUME t >= 1 PROVE P >= DayBars
    OBVIOUS
  <2>1. 0 * DayBars + DayBars <= P /\ 0 * DayBars = 0
    BY <1>1, Products
  <2> QED BY <1>1, <2>1
<1> HIDE DEF t, P
<1>8. Before(t) \in 0 .. n
  BY <1>1, <1>2
<1>9. Whole(n + 1) = IF start + n + 1 = P + DayBars THEN t + 1 ELSE t
  <2>1. CASE start + n + 1 = P + DayBars
    <3>1. (t + 1) * DayBars <= start + (n + 1) /\ start + (n + 1) < (t + 1) * DayBars + DayBars
      BY <1>1, <1>5, <2>1
    <3>2. t + 1 \in Int /\ start + (n + 1) \in Int
      BY <1>1
    <3>3. (start + (n + 1)) \div DayBars = t + 1
      BY <1>1, <3>1, <3>2, QuotientIs
    <3> QED BY <1>4, <2>1, <3>3
  <2>2. CASE start + n + 1 # P + DayBars
    <3>1. t * DayBars <= start + (n + 1) /\ start + (n + 1) < t * DayBars + DayBars
      BY <1>1, <2>2 DEF P
    <3>2. t \in Int /\ start + (n + 1) \in Int
      BY <1>1
    <3>3. (start + (n + 1)) \div DayBars = t
      BY <1>1, <3>1, <3>2, QuotientIs
    <3> QED BY <1>4, <2>2, <3>3
  <2> QED BY <2>1, <2>2
<1>10. n + 1 - Before(t) >= DayBars <=> start + n + 1 = P + DayBars /\ t >= First
  <2>1. CASE t = 0
    BY <1>1, <1>2, <1>6, <2>1 DEF First
  <2>2. CASE t >= 1
    BY <1>1, <1>2, <1>7, <2>2 DEF First
  <2> QED BY <1>1, <2>1, <2>2
<1> QED BY <1>3, <1>8, <1>9, <1>10 DEF t, P

LEMMA DaysMore ==
  ASSUME NEW m \in Nat
  PROVE  DaysUpTo(m + 1) = IF m >= First THEN Append(DaysUpTo(m), m) ELSE DaysUpTo(m)
<1>1. First \in {0, 1}
  BY DEF First
<1>2. CASE m >= First
  <2> DEFINE c == m - First
             x == [j \in 1 .. c |-> First + j - 1]
             y == [j \in 1 .. c + 1 |-> First + j - 1]
  <2>1. c \in Nat /\ First + (c + 1) - 1 = m
    BY <1>1, <1>2
  <2>2. /\ (IF m > First THEN m - First ELSE 0) = c
        /\ (IF m + 1 > First THEN (m + 1) - First ELSE 0) = c + 1
    BY <1>1, <1>2
  <2>3. DaysUpTo(m) = x /\ DaysUpTo(m + 1) = y
    BY <2>2 DEF DaysUpTo
  <2> HIDE DEF c
  <2>4. x \in Seq(Int) /\ y \in Seq(Int) /\ Len(x) = c /\ Len(y) = c + 1
    BY <1>1, <2>1
  <2>5. y[c + 1] = m /\ \A j \in 1 .. c : y[j] = x[j]
    BY <2>1
  <2> HIDE DEF x, y
  <2>6. y = Append(x, m)
    BY <2>1, <2>4, <2>5
  <2> QED BY <1>2, <2>3, <2>6
<1>3. CASE ~(m >= First)
  <2>1. (IF m + 1 > First THEN (m + 1) - First ELSE 0) = (IF m > First THEN m - First ELSE 0)
    BY <1>1, <1>3
  <2> QED BY <1>3, <2>1 DEF DaysUpTo
<1> QED BY <1>2, <1>3

LEMMA DaysGrow ==
  ASSUME StartsInDay, NEW n \in Nat
  PROVE  DaysUpTo(Whole(n + 1)) =
           IF n + 1 - Before(Whole(n)) >= DayBars THEN Append(DaysUpTo(Whole(n)), Whole(n))
           ELSE DaysUpTo(Whole(n))
<1> DEFINE t == Whole(n)
           last == start + n + 1 = t * DayBars + DayBars
<1>1. t \in Nat
  BY WholeBounds
<1>2. /\ Whole(n + 1) = IF last THEN t + 1 ELSE t
      /\ n + 1 - Before(t) >= DayBars <=> last /\ t >= First
  BY NextWhole
<1>3. DaysUpTo(t + 1) = IF t >= First THEN Append(DaysUpTo(t), t) ELSE DaysUpTo(t)
  BY <1>1, DaysMore
<1> HIDE DEF t, last
<1>4. CASE last
  BY <1>2, <1>3, <1>4 DEF t
<1>5. CASE ~last
  BY <1>2, <1>5 DEF t
<1> QED BY <1>4, <1>5

\* The days of a state: those the bars make whole, with what is read off them.
DaysFit(bars, filling, s, days, kept) ==
  /\ StartsInDay
  /\ filling.bars \in Seq(Bar)
  /\ Len(bars) = 0 => filling.bars = << >>
  /\ Len(bars) > 0 =>
       /\ filling.day = DayOf(Len(bars))
       /\ Len(filling.bars) = Len(bars) - Before(DayOf(Len(bars)))
       /\ \A i \in 1 .. Len(filling.bars) :
            filling.bars[i] = bars[Before(DayOf(Len(bars))) + i]
  /\ days = DaysUpTo(Whole(Len(bars)))
  /\ Len(s.bars) = Len(days)
  /\ \A k \in 1 .. Len(days) : s.bars[k] = AggregateDay(bars, BarsOfDay(bars, days[k]))
  /\ Frame(s) /\ s = Series(s.bars)
  /\ Pivots(FindPivots(s, ExternalOrder, "external"))
  /\ kept = Filter(FindPivots(s, ExternalOrder, "external"))
  /\ Pivots(kept) /\ Labelled(kept)

DaysInv == DaysFit(series.bars, bucket, daily, dailyDays, dailyProminent)

LEMMA DaysOf ==
  ASSUME NEW m \in Nat
  PROVE  /\ DaysUpTo(m) \in Seq(Nat) /\ Len(DaysUpTo(m)) \in Nat
         /\ \A k \in 1 .. Len(DaysUpTo(m)) :
              DaysUpTo(m)[k] \in Nat /\ First <= DaysUpTo(m)[k] /\ DaysUpTo(m)[k] < m
<1>1. First \in Nat
  BY DEF First
<1> DEFINE c == IF m > First THEN m - First ELSE 0
<1>2. c \in Nat /\ \A k \in 1 .. c : First + k - 1 \in Nat /\ First <= First + k - 1 /\ First + k - 1 < m
  BY <1>1
<1>3. DaysUpTo(m) = [j \in 1 .. c |-> First + j - 1]
  BY DEF DaysUpTo
<1> HIDE DEF c
<1>4. [j \in 1 .. c |-> First + j - 1] \in Seq(Nat) /\ Len([j \in 1 .. c |-> First + j - 1]) = c
  BY <1>2
<1> QED BY <1>2, <1>3, <1>4

\* A day the history has all bars of, and its rows.
LEMMA WholeDay ==
  ASSUME StartsInDay, NEW n \in Nat, NEW d \in Nat, First <= d, d < Whole(n)
  PROVE  /\ d * DayBars + DayBars - start <= n
         /\ d * DayBars + DayBars - start \in Nat
         /\ Before(d) \in Nat /\ Before(d) + DayBars = d * DayBars + DayBars - start
<1> DEFINE t == Whole(n)
           P == t * DayBars
           D == d * DayBars
<1>1. /\ t \in Nat /\ P \in Nat /\ start \in Nat /\ start < DayBars /\ DayBars \in Nat \ {0}
      /\ P <= start + n
  BY WholeBounds, DayBarsNat
<1>2. D + DayBars <= P /\ D \in Nat
  <2>1. D + DayBars <= P
    BY <1>1, Products
  <2>2. D \in Nat
    BY <1>1
  <2> QED BY <2>1, <2>2
<1>3. d >= 1 => D >= DayBars
  <2> SUFFICES ASSUME d >= 1 PROVE D >= DayBars
    OBVIOUS
  <2>1. (d - 1) * DayBars >= 0
    <3>1. d - 1 \in Nat
      OBVIOUS
    <3> QED BY <1>1, <3>1
  <2>2. (d - 1) * DayBars = D - DayBars
    BY <1>1
  <2> HIDE DEF D
  <2> QED BY <1>1, <1>2, <2>1, <2>2
<1>4. d = 0 => D = 0
  BY <1>1
<1>5. d = 0 => start = 0
  BY <1>1 DEF First
<1>6. Before(d) = IF D > start THEN D - start ELSE 0
  BY DEF Before
<1> HIDE DEF P, D, t
<1>7. D >= start /\ Before(d) = D - start
  <2>1. CASE d = 0
    BY <1>1, <1>4, <1>5, <1>6, <2>1
  <2>2. CASE d >= 1
    BY <1>1, <1>2, <1>3, <1>6, <2>2
  <2> QED BY <2>1, <2>2
<1> QED BY <1>1, <1>2, <1>7 DEF D

\* Later bars leave it alone.
LEMMA SameDay ==
  ASSUME StartsInDay, NEW bars \in Seq(Bar), NEW bar \in Bar, NEW d \in Nat,
         First <= d, d < Whole(Len(bars))
  PROVE  AggregateDay(Append(bars, bar), BarsOfDay(Append(bars, bar), d)) =
           AggregateDay(bars, BarsOfDay(bars, d))
<1> DEFINE n == Len(bars)
           more == Append(bars, bar)
           rows == BarsOfDay(bars, d)
<1>1. /\ n \in Nat /\ DOMAIN bars = 1 .. n /\ DOMAIN more = 1 .. n + 1
      /\ \A i \in 1 .. n : more[i] = bars[i]
  OBVIOUS
<1> HIDE DEF n, more
<1>2. DayOf(n + 1) # d
  <2>1. DayOf(n + 1) = Whole(n) /\ Whole(n) \in Nat
    BY <1>1, NextWhole, WholeBounds
  <2> QED BY <2>1 DEF n
<1>3. BarsOfDay(more, d) = rows /\ rows \subseteq 1 .. n
  BY <1>1, <1>2 DEF BarsOfDay
<1>4. rows # {}
  <2>1. /\ Before(d) + DayBars = d * DayBars + DayBars - start
        /\ d * DayBars + DayBars - start <= n
        /\ Before(d) \in Nat
    BY <1>1, WholeDay DEF n
  <2>2. Before(d) + DayBars \in Nat \ {0} /\ Before(d) + DayBars <= n /\ Before(d) < Before(d) + DayBars
    BY <2>1, DayBarsNat
  <2>3. DayOf(Before(d) + DayBars) = d
    BY <2>1, <2>2, RowsOfDay
  <2>4. Before(d) + DayBars \in 1 .. n
    BY <1>1, <2>2
  <2> QED BY <1>1, <2>3, <2>4 DEF BarsOfDay
<1> HIDE DEF rows
<1>5. Max(rows) \in rows
  BY <1>1, <1>3, <1>4, MaxIsLast
<1>6. \A i \in rows : more[i] = bars[i]
  BY <1>1, <1>3
<1>7. /\ {more[i].high : i \in rows} = {bars[i].high : i \in rows}
      /\ {more[i].low : i \in rows} = {bars[i].low : i \in rows}
      /\ more[Max(rows)] = bars[Max(rows)]
  BY <1>5, <1>6
<1>8. AggregateDay(more, rows) = AggregateDay(bars, rows)
  BY <1>7 DEF AggregateDay
<1> QED BY <1>3, <1>8 DEF more, rows

LEMMA AppendAt ==
  ASSUME NEW S, NEW s \in Seq(S), NEW e \in S
  PROVE  /\ Append(s, e) \in Seq(S) /\ Len(Append(s, e)) = Len(s) + 1 /\ Append(s, e)[Len(s) + 1] = e
         /\ \A i \in 1 .. Len(s) : Append(s, e)[i] = s[i]
OBVIOUS

\* The bucket after a bar holds the bars of its day.
LEMMA HeldBars ==
  ASSUME DaysInv, series.bars \in Seq(Bar), NEW bar \in Bar, NEW held,
         held = Append(IF bucket.day = Whole(Len(series.bars)) THEN bucket.bars ELSE << >>, bar)
  PROVE  LET n == Len(series.bars)
             more == Append(series.bars, bar)
         IN  /\ held \in Seq(Bar)
             /\ Len(held) = n + 1 - Before(Whole(n))
             /\ \A i \in 1 .. Len(held) : held[i] = more[Before(Whole(n)) + i]
<1> DEFINE n == Len(series.bars)
           t == Whole(n)
           more == Append(series.bars, bar)
           old == IF bucket.day = t THEN bucket.bars ELSE << >>
<1>1. /\ n \in Nat /\ Len(more) = n + 1 /\ more[n + 1] = bar
      /\ \A i \in 1 .. n : more[i] = series.bars[i]
  OBVIOUS
<1>2. old \in Seq(Bar) /\ held = Append(old, bar) /\ StartsInDay
  BY DEF DaysInv, DaysFit
<1>3. Before(t) \in 0 .. n
  BY <1>1, <1>2, NextWhole
<1> HIDE DEF more
<1>4. Len(old) = n - Before(t) /\ \A i \in 1 .. Len(old) : old[i] = series.bars[Before(t) + i]
  <2>1. CASE n = 0
    <3>1. bucket.bars = << >>
      BY <2>1 DEF DaysInv, DaysFit
    <3>2. old = << >>
      BY <3>1
    <3> QED BY <1>3, <2>1, <3>2
  <2>2. CASE n > 0 /\ DayOf(n) = t
    <3>1. old = bucket.bars
      BY <2>2 DEF DaysInv, DaysFit
    <3> HIDE DEF old
    <3> QED BY <2>2, <3>1 DEF DaysInv, DaysFit
  <2>3. CASE n > 0 /\ DayOf(n) # t
    <3>1. bucket.day # t
      BY <2>3 DEF DaysInv, DaysFit
    <3>2. old = << >>
      BY <3>1
    <3>3. t \in Nat
      BY <1>1, <1>2, WholeBounds
    <3>4. ~(Before(t) < n /\ n <= t * DayBars + DayBars - start)
      BY <1>1, <1>2, <2>3, <3>3, RowsOfDay
    <3>5. /\ t * DayBars \in Nat /\ start \in Nat /\ DayBars \in Nat
          /\ start + n < t * DayBars + DayBars
      BY <1>1, <1>2, WholeBounds, DayBarsNat
    <3>6. Before(t) = n
      BY <1>1, <1>3, <3>4, <3>5
    <3> QED BY <1>1, <3>2, <3>6
  <2> QED BY <1>1, <2>1, <2>2, <2>3
<1> HIDE DEF old
<1>5. /\ held \in Seq(Bar) /\ Len(held) = Len(old) + 1 /\ held[Len(old) + 1] = bar
      /\ \A i \in 1 .. Len(old) : held[i] = old[i]
  <2>1. old \in Seq(Bar) /\ bar \in Bar
    BY <1>2
  <2>2. /\ Append(old, bar) \in Seq(Bar) /\ Len(Append(old, bar)) = Len(old) + 1
        /\ Append(old, bar)[Len(old) + 1] = bar
        /\ \A i \in 1 .. Len(old) : Append(old, bar)[i] = old[i]
    BY <2>1, AppendAt
  <2> QED BY <1>2, <2>2
<1> HIDE DEF t, n
<1>6. Len(held) = n + 1 - Before(t)
  BY <1>1, <1>3, <1>4, <1>5
<1>7. ASSUME NEW i \in 1 .. Len(held) PROVE held[i] = more[Before(t) + i]
  <2>1. CASE i <= Len(old)
    <3>1. i \in 1 .. Len(old) /\ Before(t) + i \in 1 .. n
      BY <1>1, <1>3, <1>4, <2>1
    <3> QED BY <1>1, <1>4, <1>5, <3>1
  <2>2. CASE i > Len(old)
    <3>1. i = Len(old) + 1 /\ Before(t) + i = n + 1
      BY <1>1, <1>3, <1>4, <1>5, <2>2
    <3> QED BY <1>1, <1>5, <3>1
  <2> QED BY <1>1, <1>3, <1>4, <2>1, <2>2
<1> QED BY <1>5, <1>6, <1>7 DEF more, n, t

\* The bar a day leaves is what the frame's rows of that day add up to.
LEMMA DayAddsUp ==
  ASSUME DaysInv, series.bars \in Seq(Bar), NEW bar \in Bar, NEW held,
         held = Append(IF bucket.day = Whole(Len(series.bars)) THEN bucket.bars ELSE << >>, bar)
  PROVE  DayBar(held) = AggregateDay(Append(series.bars, bar),
                          BarsOfDay(Append(series.bars, bar), Whole(Len(series.bars))))
<1> DEFINE n == Len(series.bars)
           t == Whole(n)
           more == Append(series.bars, bar)
           q == Before(t)
           rows == BarsOfDay(more, t)
<1>1. n \in Nat /\ DOMAIN more = 1 .. n + 1 /\ StartsInDay
  BY DEF DaysInv, DaysFit
<1>2. /\ held \in Seq(Bar) /\ Len(held) = n + 1 - q
      /\ \A i \in 1 .. Len(held) : held[i] = more[q + i]
  BY HeldBars
<1>3. /\ t \in Nat /\ t * DayBars \in Nat /\ start \in Nat /\ DayBars \in Nat
      /\ start + n < t * DayBars + DayBars
      /\ q \in 0 .. n
  BY <1>1, WholeBounds, NextWhole, DayBarsNat
<1> HIDE DEF more
<1>4. rows = {i \in 1 .. n + 1 : DayOf(i) = t}
  BY <1>1 DEF BarsOfDay
<1>5. \A i \in 1 .. n + 1 : DayOf(i) = t <=> q < i
  <2> SUFFICES ASSUME NEW i \in 1 .. n + 1 PROVE DayOf(i) = t <=> q < i
    OBVIOUS
  <2>1. i \in Nat \ {0} /\ i <= n + 1
    BY <1>1
  <2>2. DayOf(i) = t <=> q < i /\ i <= t * DayBars + DayBars - start
    BY <1>1, <1>3, <2>1, RowsOfDay
  <2>3. i <= t * DayBars + DayBars - start
    BY <1>1, <1>3, <2>1
  <2> QED BY <2>2, <2>3
<1> HIDE DEF n, t, q, rows
<1>6. rows \subseteq 1 .. n + 1 /\ n + 1 \in rows /\ \A i \in 1 .. n + 1 : i \in rows <=> q < i
  BY <1>1, <1>3, <1>4, <1>5
<1>7. Max(rows) = n + 1
  BY <1>1, <1>6, MaxOfPrefix
<1>8. /\ \A j \in 1 .. Len(held) : q + j \in rows /\ held[j] = more[q + j]
      /\ \A i \in rows : i - q \in 1 .. Len(held) /\ held[i - q] = more[i]
  <2>1. \A j \in 1 .. Len(held) : q + j \in rows
    BY <1>1, <1>2, <1>3, <1>6
  <2>2. ASSUME NEW i \in rows PROVE i - q \in 1 .. Len(held) /\ held[i - q] = more[i]
    <3>1. i \in 1 .. n + 1 /\ q < i
      BY <1>6
    <3>2. i - q \in 1 .. Len(held) /\ q + (i - q) = i
      BY <1>1, <1>2, <1>3, <3>1
    <3> QED BY <1>2, <3>2
  <2> QED BY <1>2, <2>1, <2>2
<1>9. DOMAIN held = 1 .. Len(held) /\ Len(held) \in Nat /\ Len(held) >= 1
  BY <1>1, <1>2, <1>3
<1>10. Range(held) = {more[i] : i \in rows}
  <2>1. Range(held) = {held[j] : j \in 1 .. Len(held)}
    BY <1>9 DEF Range
  <2>2. \A j \in 1 .. Len(held) : held[j] \in {more[i] : i \in rows}
    BY <1>8
  <2>3. \A i \in rows : more[i] \in {held[j] : j \in 1 .. Len(held)}
    BY <1>8
  <2> QED BY <2>1, <2>2, <2>3
<1>11. /\ {b.high : b \in Range(held)} = {more[i].high : i \in rows}
       /\ {b.low : b \in Range(held)} = {more[i].low : i \in rows}
  BY <1>10
<1>12. Last(held) = more[Max(rows)]
  <2>1. Len(held) \in 1 .. Len(held) /\ q + Len(held) = n + 1
    BY <1>1, <1>2, <1>3, <1>9
  <2> QED BY <1>7, <1>8, <2>1 DEF Last
<1>13. DayBar(held) = AggregateDay(more, rows)
  BY <1>11, <1>12 DEF DayBar, AggregateDay
<1> QED BY <1>13 DEF rows, more, t, n

\* What a day completed does to the daily pivots.
LEMMA DailySeries ==
  ASSUME NEW s, Frame(s), s = Series(s.bars), NEW kept,
         Pivots(FindPivots(s, ExternalOrder, "external")),
         kept = Filter(FindPivots(s, ExternalOrder, "external")), Pivots(kept), Labelled(kept),
         NEW bar \in Bar, NEW t, t = AppendBar(s, bar), NEW after,
         after = AppendAllProminent(kept, PivotsAtNewCenter(t, ExternalOrder, "external"))
  PROVE  /\ Frame(t) /\ t = Series(t.bars)
         /\ Pivots(FindPivots(t, ExternalOrder, "external"))
         /\ after = Filter(FindPivots(t, ExternalOrder, "external"))
         /\ Pivots(after) /\ Labelled(after)
<1> DEFINE old == FindPivots(s, ExternalOrder, "external")
           new == PivotsAtNewCenter(t, ExternalOrder, "external")
           all == FindPivots(t, ExternalOrder, "external")
<1>1. ExternalOrder \in Nat \ {0} /\ IsSeq(old)
  BY OrderAssumption, PivotsAreSeq
<1>2. Frame(t) /\ t.bars \in Seq(Bar)
  BY AppendFrame DEF Frame
<1>3. t = Series(t.bars)
  BY SeriesStep
<1>4. all = old \o new
  BY <1>1, FindPivotsStep
<1>5. Pivots(new) /\ IsSeq(new)
  BY <1>1, <1>2, NewPivots, PivotsAreSeq
<1>6. Pivots(old) /\ kept = Filter(old) /\ after = AppendAllProminent(kept, new)
  OBVIOUS
<1> HIDE DEF old, new, all
<1>7. Pivots(all)
  BY <1>4, <1>5, <1>6, ConcatPivots
<1>8. after = Filter(all)
  BY <1>1, <1>4, <1>5, <1>6, LabelsGoOn
<1>9. Pivots(after) /\ Labelled(after)
  BY <1>5, <1>6, ProminentKeeps, ProminentLabelled
<1> QED BY <1>2, <1>3, <1>7, <1>8, <1>9 DEF all

LEMMA DaysStep ==
  ASSUME DaysInv, series.bars \in Seq(Bar), NEW bar \in Candle, Advance(bar)
  PROVE  DaysFit(series'.bars, bucket', daily', dailyDays', dailyProminent')
<1> DEFINE bars == series.bars
           n == Len(bars)
           t == Whole(n)
           more == Append(bars, bar)
           held == Append(IF bucket.day = t THEN bucket.bars ELSE << >>, bar)
           full == Len(held) >= DayBars
<1>1. bar \in Bar /\ StartsInDay /\ n \in Nat /\ Len(more) = n + 1 /\ DayBars \in Nat
  BY CandleIsBar, DayBarsNat DEF DaysInv, DaysFit
<1>2. series'.bars = more
  BY DEF Advance, AppendBar
<1>3. DayOf(n + 1) = t /\ t \in Nat /\ Before(t) \in 0 .. n
  BY <1>1, NextWhole, WholeBounds
<1>4. AdvanceDaily(t, bar)
  <2>1. Len(AppendBar(series, bar).bars) = n + 1
    BY <1>1 DEF AppendBar
  <2>2. AdvanceDaily(DayOf(Len(AppendBar(series, bar).bars)), bar)
    BY DEF Advance
  <2> QED BY <1>3, <2>1, <2>2
<1>5. /\ held \in Seq(Bar) /\ Len(held) = n + 1 - Before(t)
      /\ \A i \in 1 .. Len(held) : held[i] = more[Before(t) + i]
  BY <1>1, HeldBars
<1>6. DayBar(held) = AggregateDay(more, BarsOfDay(more, t))
  BY <1>1, DayAddsUp
<1>7. DaysUpTo(Whole(n + 1)) = IF n + 1 - Before(t) >= DayBars THEN Append(DaysUpTo(t), t) ELSE DaysUpTo(t)
  BY <1>1, DaysGrow
<1>8. bucket' = [day |-> t, bars |-> held] /\ (IF Len(held) < DayBars THEN UNCHANGED <<daily, dailyDays, dailyProminent>> ELSE CompleteDay(t, held))
  BY <1>4 DEF AdvanceDaily
<1>9. /\ dailyDays = DaysUpTo(t) /\ dailyDays \in Seq(Nat) /\ Len(dailyDays) \in Nat
      /\ \A k \in 1 .. Len(dailyDays) :
           AggregateDay(more, BarsOfDay(more, dailyDays[k])) =
             AggregateDay(bars, BarsOfDay(bars, dailyDays[k]))
  <2>1. dailyDays = DaysUpTo(t)
    BY DEF DaysInv, DaysFit
  <2>2. /\ dailyDays \in Seq(Nat) /\ Len(dailyDays) \in Nat
        /\ \A k \in 1 .. Len(dailyDays) :
             dailyDays[k] \in Nat /\ First <= dailyDays[k] /\ dailyDays[k] < t
    BY <1>3, <2>1, DaysOf
  <2>3. ASSUME NEW k \in 1 .. Len(dailyDays)
        PROVE  AggregateDay(more, BarsOfDay(more, dailyDays[k])) =
                 AggregateDay(bars, BarsOfDay(bars, dailyDays[k]))
    <3> DEFINE d == dailyDays[k]
    <3>1. d \in Nat /\ First <= d /\ d < Whole(Len(bars))
      BY <2>2
    <3> HIDE DEF d
    <3>2. AggregateDay(more, BarsOfDay(more, d)) = AggregateDay(bars, BarsOfDay(bars, d))
      BY <1>1, <3>1, SameDay
    <3> QED BY <3>2 DEF d
  <2> QED BY <2>1, <2>2, <2>3
<1>10. /\ Len(daily.bars) = Len(dailyDays)
       /\ \A k \in 1 .. Len(dailyDays) : daily.bars[k] = AggregateDay(bars, BarsOfDay(bars, dailyDays[k]))
       /\ Frame(daily) /\ daily = Series(daily.bars)
       /\ Pivots(FindPivots(daily, ExternalOrder, "external"))
       /\ dailyProminent = Filter(FindPivots(daily, ExternalOrder, "external"))
       /\ Pivots(dailyProminent) /\ Labelled(dailyProminent)
  BY DEF DaysInv, DaysFit
<1>11. Len(held) \in Nat /\ Len(held) >= 1
  BY <1>5, AppendSeq
<1> HIDE DEF bars, n, t, more, held
<1>12. /\ bucket'.day = t /\ bucket'.bars = held
  BY <1>8
<1>13. /\ bucket'.bars \in Seq(Bar) /\ ~(Len(more) = 0)
       /\ bucket'.day = DayOf(Len(more))
       /\ Len(bucket'.bars) = Len(more) - Before(DayOf(Len(more)))
       /\ \A i \in 1 .. Len(bucket'.bars) : bucket'.bars[i] = more[Before(DayOf(Len(more))) + i]
  <2>1. DayOf(Len(more)) = t /\ ~(Len(more) = 0)
    BY <1>1, <1>3
  <2> DEFINE x == bucket'.bars
  <2>2. x = held /\ bucket'.day = t
    BY <1>12
  <2> HIDE DEF x
  <2>3. Len(x) = Len(more) - Before(DayOf(Len(more)))
    BY <1>1, <1>3, <1>5, <2>1, <2>2
  <2>4. \A i \in 1 .. Len(x) : x[i] = more[Before(DayOf(Len(more))) + i]
    BY <1>5, <2>1, <2>2
  <2>5. x \in Seq(Bar) /\ bucket'.day = DayOf(Len(more))
    BY <1>5, <2>1, <2>2
  <2> QED BY <2>1, <2>3, <2>4, <2>5 DEF x
<1>14. CASE full
  <2>1. CompleteDay(t, held)
    BY <1>1, <1>8, <1>11, <1>14
  <2>2. /\ daily' = AppendBar(daily, DayBar(held)) /\ dailyDays' = Append(dailyDays, t)
        /\ dailyProminent' = AppendAllProminent(dailyProminent,
                               PivotsAtNewCenter(daily', ExternalOrder, "external"))
    BY <2>1 DEF CompleteDay
  <2>3. DayBar(held) \in Bar
    BY <1>5, <1>11, DayIsBar
  <2>4. /\ Frame(daily') /\ daily' = Series(daily'.bars)
        /\ Pivots(FindPivots(daily', ExternalOrder, "external"))
        /\ dailyProminent' = Filter(FindPivots(daily', ExternalOrder, "external"))
        /\ Pivots(dailyProminent') /\ Labelled(dailyProminent')
    BY <1>10, <2>2, <2>3, DailySeries
  <2>5. /\ Len(daily'.bars) = Len(daily.bars) + 1 /\ daily'.bars[Len(daily.bars) + 1] = DayBar(held)
        /\ \A k \in 1 .. Len(daily.bars) : daily'.bars[k] = daily.bars[k]
    BY <1>10, <2>2, <2>3, AppendFrame
  <2>6. /\ dailyDays' = DaysUpTo(Whole(Len(more)))
    BY <1>1, <1>5, <1>7, <1>9, <1>14, <2>2
  <2>7. /\ Len(dailyDays') = Len(dailyDays) + 1 /\ dailyDays'[Len(dailyDays) + 1] = t
        /\ \A k \in 1 .. Len(dailyDays) : dailyDays'[k] = dailyDays[k]
    BY <1>3, <1>9, <2>2, AppendAt
  <2>8. Len(daily'.bars) = Len(dailyDays')
    BY <1>10, <2>5, <2>7
  <2>9. ASSUME NEW k \in 1 .. Len(dailyDays')
        PROVE  daily'.bars[k] = AggregateDay(more, BarsOfDay(more, dailyDays'[k]))
    <3>1. CASE k \in 1 .. Len(dailyDays)
      BY <1>9, <1>10, <2>5, <2>7, <3>1
    <3>2. CASE k = Len(dailyDays) + 1
      BY <1>6, <1>10, <2>5, <2>7, <3>2
    <3> QED BY <1>9, <2>7, <3>1, <3>2
  <2>10. DaysFit(more, bucket', daily', dailyDays', dailyProminent')
    BY <1>1, <1>13, <2>4, <2>6, <2>8, <2>9 DEF DaysFit
  <2> QED BY <1>2, <2>10
<1>15. CASE ~full
  <2>1. daily' = daily /\ dailyDays' = dailyDays /\ dailyProminent' = dailyProminent
    BY <1>1, <1>8, <1>11, <1>15
  <2>2. dailyDays' = DaysUpTo(Whole(Len(more)))
    BY <1>1, <1>5, <1>7, <1>9, <1>15, <2>1
  <2>3. \A k \in 1 .. Len(dailyDays) : daily.bars[k] = AggregateDay(more, BarsOfDay(more, dailyDays[k]))
    BY <1>9, <1>10
  <2>4. DaysFit(more, bucket', daily', dailyDays', dailyProminent')
    BY <1>1, <1>10, <1>13, <2>1, <2>2, <2>3 DEF DaysFit
  <2> QED BY <1>2, <2>4
<1> QED BY <1>14, <1>15

(***************************************************************************)
(* The frame has the days of the state.                                    *)
(***************************************************************************)
LEMMA IntervalSize ==
  ASSUME NEW a \in Int, NEW b \in Int
  PROVE  Cardinality(a .. b) = IF b >= a THEN b - a + 1 ELSE 0
<1>1. Cardinality(a .. b) = IF a > b THEN 0 ELSE b - a + 1
  BY FS_Interval
<1> QED BY <1>1

\* A day has all its bars from the one after it on, but the first day only if
\* the history begins with it.
LEMMA CompleteIs ==
  ASSUME StartsInDay, NEW bars \in Seq(Bar), NEW d \in Nat
  PROVE  IsComplete(bars, d) <=> First <= d /\ d < Whole(Len(bars))
<1> DEFINE n == Len(bars)
           w == Whole(n)
           W == w * DayBars
           D == d * DayBars
           e == D + DayBars - start
           q == Before(d)
           upto == IF e <= n THEN e ELSE n
<1>1. n \in Nat /\ DOMAIN bars = 1 .. n
  OBVIOUS
<1>2. /\ w \in Nat /\ W \in Nat /\ start \in Nat /\ start < DayBars /\ DayBars \in Nat \ {0}
      /\ W <= start + n /\ start + n < W + DayBars /\ D \in Nat
  <2>1. D \in Nat
    BY DayBarsNat
  <2> QED BY <1>1, <2>1, WholeBounds, DayBarsNat
<1>3. q = (IF D > start THEN D - start ELSE 0) /\ q \in Nat
  BY <1>2 DEF Before
<1>4. BarsOfDay(bars, d) = {i \in 1 .. n : q < i /\ i <= e}
  <2>1. \A i \in 1 .. n : DayOf(i) = d <=> q < i /\ i <= e
    BY <1>1, RowsOfDay
  <2> HIDE DEF q, e, n
  <2> QED BY <1>1, <2>1 DEF BarsOfDay
<1>5. d < w <=> D + DayBars <= start + n
  <2>1. CASE d < w
    <3>1. D + DayBars <= W
      BY <1>2, <2>1, Products
    <3> QED BY <1>2, <2>1, <3>1
  <2>2. CASE ~(d < w)
    <3>1. W <= D
      <4>1. CASE w = d
        BY <1>2, <4>1
      <4>2. CASE w < d
        <5>1. W + DayBars <= D
          BY <1>2, <4>2, Products
        <5> QED BY <1>2, <5>1
      <4> QED BY <1>2, <2>2, <4>1, <4>2
    <3> QED BY <1>2, <2>2, <3>1
  <2> QED BY <2>1, <2>2
<1>6. First <= d <=> D >= start
  <2>1. CASE d = 0
    <3>1. D = 0
      BY <1>2, <2>1
    <3> QED BY <1>2, <2>1, <3>1 DEF First
  <2>2. CASE d >= 1
    <3>1. 0 * DayBars + DayBars <= D /\ 0 * DayBars = 0
      BY <1>2, <2>2, Products
    <3> HIDE DEF D
    <3> QED BY <1>2, <2>2, <3>1 DEF First
  <2> QED BY <2>1, <2>2
<1> HIDE DEF n, w, W, D, q
<1>7. BarsOfDay(bars, d) = q + 1 .. upto
  BY <1>1, <1>2, <1>3, <1>4
<1>8. upto \in Int
  BY <1>1, <1>2
<1> HIDE DEF upto
<1>9. Cardinality(BarsOfDay(bars, d)) = IF upto >= q + 1 THEN upto - (q + 1) + 1 ELSE 0
  <2> DEFINE a == q + 1
  <2>1. a \in Int
    BY <1>3
  <2> HIDE DEF a
  <2>2. Cardinality(a .. upto) = IF upto >= a THEN upto - a + 1 ELSE 0
    BY <1>8, <2>1, IntervalSize
  <2> QED BY <1>7, <2>2 DEF a
<1>10. Cardinality(BarsOfDay(bars, d)) >= DayBars <=> D >= start /\ D + DayBars <= start + n
  BY <1>1, <1>2, <1>3, <1>9 DEF upto
<1> QED BY <1>5, <1>6, <1>10 DEF IsComplete, n, w

LEMMA DayFold ==
  ASSUME NEW bars, NEW m \in Nat, m = DayOf(Len(bars)) + 1, NEW all, all = [k \in 1 .. m |-> k - 1]
  PROVE  CompleteDays(bars) = Fold(<<"day", bars>>, << >>, all)
<1> DEFINE kind == <<"day", bars>>
           Is(f) == f = [D \in SUBSET (1 .. m) |->
                           IF D = {} THEN << >>
                           ELSE IF IsComplete(bars, all[Max(D)])
                                THEN Append(f[D \ {Max(D)}], all[Max(D)]) ELSE f[D \ {Max(D)}]]
           it == CHOOSE f : Is(f)
<1>1. DOMAIN all = 1 .. m /\ Len(all) = m
  OBVIOUS
<1>2. CompleteDays(bars) = it[1 .. m]
  BY <1>1 DEF CompleteDays, FoldLeft, MapThenFoldSet
<1>3. \A f : IsFold(kind, << >>, all, m, f) <=> Is(f)
  BY DEF IsFold, Step
<1> HIDE DEF Is, kind
<1>4. PICK f : IsFold(kind, << >>, all, m, f) /\ Fold(kind, << >>, all) = f[1 .. m]
  <2>1. Len(all) \in Nat
    BY <1>1
  <2>2. \E f : IsFold(kind, << >>, all, Len(all), f) /\ Fold(kind, << >>, all) = f[1 .. Len(all)]
    BY <2>1, FoldChosen
  <2> QED BY <1>1, <2>2, Zenon
<1>5. IsFold(kind, << >>, all, m, it)
  BY <1>3, <1>4
<1> HIDE DEF it
<1> QED BY <1>2, <1>4, <1>5, FoldAlone DEF kind

LEMMA CompleteDaysAre ==
  ASSUME StartsInDay, NEW bars \in Seq(Bar)
  PROVE  CompleteDays(bars) = DaysUpTo(Whole(Len(bars)))
<1> DEFINE n == Len(bars)
           w == Whole(n)
           m == DayOf(n) + 1
           all == [k \in 1 .. m |-> k - 1]
           kind == <<"day", bars>>
<1>1. n \in Nat
  OBVIOUS
<1>2. m \in Nat /\ w \in Nat /\ w <= m
  <2> DEFINE c == start + n - 1
             g == c \div DayBars
             G == g * DayBars
             W == w * DayBars
  <2>1. /\ w \in Nat /\ W \in Nat /\ start \in Nat /\ DayBars \in Nat \ {0} /\ W <= start + n
    BY <1>1, WholeBounds, DayBarsNat
  <2>2. c \in Int
    BY <1>1, <2>1
  <2>3. g \in Int /\ G <= c /\ c < G + DayBars
    BY <2>1, <2>2, Quotient
  <2>4. m = g + 1
    BY DEF DayOf
  <2> HIDE DEF g, m, w
  <2>5. ~(g + 1 < w)
    <3> SUFFICES ASSUME g + 1 < w PROVE FALSE
      OBVIOUS
    <3> DEFINE b == g + 1
               B == b * DayBars
    <3>1. b \in Int /\ B = G + DayBars /\ B \in Int /\ G \in Int
      BY <2>1, <2>3
    <3> HIDE DEF B
    <3>2. B + DayBars <= W
      <4>1. b \in Int /\ b < w
        BY <3>1
      <4> HIDE DEF b
      <4>2. b * DayBars + DayBars <= w * DayBars
        BY <2>1, <4>1, Products
      <4> QED BY <4>2 DEF B
    <3> HIDE DEF b, G, W
    <3> QED BY <1>1, <2>1, <2>3, <3>1, <3>2
  <2> QED BY <2>1, <2>3, <2>4, <2>5
<1>3. Len(all) = m /\ \A k \in 1 .. m : all[k] = k - 1
  BY <1>2
<1>4. CompleteDays(bars) = Fold(kind, << >>, all)
  BY <1>2, DayFold
<1>5. \A k \in Nat : IsComplete(bars, k) <=> First <= k /\ k < w
  BY CompleteIs
<1>6. \A k \in Nat : DaysUpTo(k + 1) = IF k >= First THEN Append(DaysUpTo(k), k) ELSE DaysUpTo(k)
  BY DaysMore
<1>7. DaysUpTo(0) = << >> /\ First \in Nat
  <2>1. First \in Nat
    BY DEF First
  <2>2. (IF 0 > First THEN 0 - First ELSE 0) = 0
    BY <2>1
  <2>3. [j \in 1 .. 0 |-> First + j - 1] = << >>
    OBVIOUS
  <2> QED BY <2>1, <2>2, <2>3 DEF DaysUpTo
<1> HIDE DEF n, w, m, all
<1>8. PICK f : IsFold(kind, << >>, all, m, f) /\ Fold(kind, << >>, all) = f[1 .. m]
  BY <1>2, <1>3, FoldChosen
<1> DEFINE S == {k \in Nat : k <= m => f[1 .. k] = DaysUpTo(IF k < w THEN k ELSE w)}
<1>9. 0 \in S
  <2>1. 1 .. 0 = {} /\ f[{}] = << >>
    BY <1>8 DEF IsFold
  <2>2. (IF 0 < w THEN 0 ELSE w) = 0
    BY <1>2
  <2> QED BY <1>7, <2>1, <2>2
<1>10. ASSUME NEW k \in Nat, k \in S PROVE k + 1 \in S
  <2> SUFFICES ASSUME k + 1 <= m PROVE f[1 .. k + 1] = DaysUpTo(IF k + 1 < w THEN k + 1 ELSE w)
    OBVIOUS
  <2>1. f[1 .. k] = DaysUpTo(IF k < w THEN k ELSE w)
    BY <1>2, <1>10
  <2>2. all[k + 1] = k
    BY <1>2, <1>3
  <2>3. f[1 .. k + 1] = Step(kind, f[1 .. k], all[k + 1])
    BY <1>2, <1>8, FoldUnrolls
  <2>4. f[1 .. k + 1] = IF IsComplete(bars, k) THEN Append(f[1 .. k], k) ELSE f[1 .. k]
    BY <2>2, <2>3 DEF Step
  <2>5. CASE k < w
    <3>1. (IF k + 1 < w THEN k + 1 ELSE w) = k + 1
      BY <1>2, <2>5
    <3>2. f[1 .. k + 1] = IF k >= First THEN Append(DaysUpTo(k), k) ELSE DaysUpTo(k)
      BY <1>5, <1>7, <2>1, <2>4, <2>5
    <3> QED BY <1>6, <3>1, <3>2
  <2>6. CASE ~(k < w)
    <3>1. (IF k + 1 < w THEN k + 1 ELSE w) = w
      BY <1>2, <2>6
    <3> QED BY <1>5, <2>1, <2>4, <2>6, <3>1
  <2> QED BY <2>5, <2>6
<1> HIDE DEF S
<1>11. \A k \in Nat : k \in S
  BY <1>9, <1>10, Induction
<1>12. m \in S
  BY <1>2, <1>11
<1>13. f[1 .. m] = DaysUpTo(IF m < w THEN m ELSE w) /\ (IF m < w THEN m ELSE w) = w
  <2>1. m <= m
    BY <1>2
  <2> QED BY <1>2, <1>12, <2>1 DEF S
<1> QED BY <1>4, <1>8, <1>13 DEF w, n

\* The days of a state, as a formula of its parts alone.
DaysHold(st, bars, filling, s, days, kept) ==
  LET before(d) == IF d * DayBars > st THEN d * DayBars - st ELSE 0
      day(i) == (st + i - 1) \div DayBars
      first == IF st = 0 THEN 0 ELSE 1
      whole == (st + Len(bars)) \div DayBars
  IN  /\ st \in 0 .. DayBars - 1
      /\ filling.bars \in Seq(Bar)
      /\ Len(bars) = 0 => filling.bars = << >>
      /\ Len(bars) > 0 =>
           /\ filling.day = day(Len(bars))
           /\ Len(filling.bars) = Len(bars) - before(day(Len(bars)))
           /\ \A i \in 1 .. Len(filling.bars) :
                filling.bars[i] = bars[before(day(Len(bars))) + i]
      /\ days = [j \in 1 .. (IF whole > first THEN whole - first ELSE 0) |-> first + j - 1]
      /\ Len(s.bars) = Len(days)
      /\ \A k \in 1 .. Len(days) :
           s.bars[k] = AggregateDay(bars, {i \in DOMAIN bars : day(i) = days[k]})
      /\ Frame(s) /\ s = Series(s.bars)
      /\ Pivots(FindPivots(s, ExternalOrder, "external"))
      /\ kept = Filter(FindPivots(s, ExternalOrder, "external"))
      /\ Pivots(kept) /\ Labelled(kept)

LEMMA FitIsHold ==
  ASSUME NEW bars, NEW filling, NEW s, NEW days, NEW kept
  PROVE  DaysFit(bars, filling, s, days, kept) <=> DaysHold(start, bars, filling, s, days, kept)
BY Zenon DEF DaysFit, DaysHold, StartsInDay, Before, DayOf, First, Whole, DaysUpTo, BarsOfDay

LEMMA FitsNext ==
  ASSUME UNCHANGED start, DaysFit(series'.bars, bucket', daily', dailyDays', dailyProminent')
  PROVE  DaysInv'
<1>1. DaysHold(start, series'.bars, bucket', daily', dailyDays', dailyProminent')
  BY FitIsHold
<1>2. DaysHold(start', series'.bars, bucket', daily', dailyDays', dailyProminent')
  BY <1>1
<1>3. DaysInv <=> DaysHold(start, series.bars, bucket, daily, dailyDays, dailyProminent)
  BY FitIsHold DEF DaysInv
<1>4. DaysInv' <=> DaysHold(start', series'.bars, bucket', daily', dailyDays', dailyProminent')
  BY Zenon DEF DaysInv, DaysFit, DaysHold, StartsInDay, Before, DayOf, First, Whole, DaysUpTo, BarsOfDay
<1> QED BY <1>2, <1>4

(***************************************************************************)
(* The incremental state is the stateless detector's.                      *)
(***************************************************************************)
AgreeInv == EvidenceInv /\ PivotsInv /\ ReclaimsInv /\ DaysInv

LEMMA EmptyLists ==
  /\ Label(<< >>) = << >> /\ Filter(<< >>) = << >> /\ Series(<< >>) = EmptySeries
  /\ Frame(EmptySeries) /\ Labelled(<< >>)
  /\ \A order \in Nat : \A term : FindPivots(EmptySeries, order, term) = << >>
<1>1. << >> \in Seq(Bar)
  OBVIOUS
<1>2. Label(<< >>) = << >> /\ Filter(<< >>) = << >> /\ Series(<< >>) = EmptySeries
  <2>1. Label(<< >>) = Fold(<<"labeled">>, << >>, << >>)
    BY <1>1, LabeledFold DEF Label
  <2>2. Filter(<< >>) = Fold(<<"prominent">>, << >>, << >>)
    BY <1>1, ProminentFold DEF Filter
  <2>3. Series(<< >>) = Fold(<<"bar">>, EmptySeries, << >>)
    BY <1>1, SeriesFold
  <2> QED BY <2>1, <2>2, <2>3, FoldEmpty
<1>3. Frame(EmptySeries)
  <2>1. IsSeq(<< >>)
    BY <1>1, InSomeSeq
  <2> QED BY <1>1, <2>1 DEF Frame, EmptySeries
<1>4. ASSUME NEW order \in Nat, NEW term
      PROVE  FindPivots(EmptySeries, order, term) = << >>
  <2>1. Len(EmptySeries.bars) - 2 * order = 0 - 2 * order /\ 0 - 2 * order \in Int /\ ~(0 - 2 * order > 0)
    BY DEF EmptySeries
  <2>2. Max({0, Len(EmptySeries.bars) - 2 * order}) = 0
    BY <2>1, MaxWithZero
  <2>3. [k \in 1 .. 0 |-> PivotsAtCenter(EmptySeries, k + order, order, term)] = << >>
    OBVIOUS
  <2>4. FindPivots(EmptySeries, order, term) = FlattenSeq(<< >>)
    BY <2>2, <2>3 DEF FindPivots
  <2>5. FlattenSeq(<< >>) = << >>
    BY DEF FlattenSeq
  <2> QED BY <2>4, <2>5
<1> QED BY <1>2, <1>3, <1>4 DEF Labelled

LEMMA AgreeAtFirst == Init => AgreeInv
<1> SUFFICES ASSUME Init PROVE AgreeInv
  OBVIOUS
<1>1. EvidenceInv
  BY EvidenceAtFirst
<1>2. ExternalOrder \in Nat /\ InternalOrder \in Nat /\ DayBars \in Nat \ {0}
  BY OrderAssumption
<1>3. /\ series = EmptySeries /\ daily = EmptySeries /\ EmptySeries.bars = << >>
      /\ raw = << >> /\ prominent = << >> /\ internal = << >> /\ pending = {} /\ reclaims = << >>
      /\ dailyDays = << >> /\ dailyProminent = << >> /\ bucket.bars = << >> /\ StartsInDay
  BY DEF Init, EmptySeries, StartsInDay
<1>4. External = << >> /\ Inner = << >>
  BY <1>2, <1>3, EmptyLists DEF External, Inner
<1>5. PivotsInv
  BY <1>3, <1>4, EmptyLists, EmptyPivots DEF PivotsInv
<1>6. ReclaimsInv
  <2>1. Known = {}
    BY <1>4 DEF Known, Highs, Range
  <2>2. FirstReclaims({}, << >>) = << >>
    <3>1. {Key(p) : p \in Reclaimed({}, << >>)} = {}
      BY DEF Reclaimed
    <3>2. FirstReclaims({}, << >>) =
            [key \in {} |-> FirstReclaim(CHOOSE p \in {} : Key(p) = key, << >>)]
      BY <3>1 DEF FirstReclaims
    <3> QED BY <3>2
  <2> QED BY <1>3, <2>1, <2>2 DEF ReclaimsInv
<1>7. DaysInv
  <2>1. DaysUpTo(Whole(0)) = << >>
    <3>1. start \in Nat /\ 0 * DayBars <= start + 0 /\ start + 0 < 0 * DayBars + DayBars
      BY <1>2, <1>3 DEF StartsInDay
    <3>2. Whole(0) = 0
      BY <1>2, <3>1, QuotientIs DEF Whole
    <3>3. (IF 0 > First THEN 0 - First ELSE 0) = 0
      BY DEF First
    <3>4. [j \in 1 .. 0 |-> First + j - 1] = << >>
      OBVIOUS
    <3> QED BY <3>2, <3>3, <3>4 DEF DaysUpTo
  <2>2. << >> \in Seq(Bar) /\ Len(<< >>) = 0
    OBVIOUS
  <2>3. FindPivots(daily, ExternalOrder, "external") = << >>
    BY <1>2, <1>3, EmptyLists
  <2>4. /\ Frame(daily) /\ daily = Series(daily.bars)
        /\ Pivots(FindPivots(daily, ExternalOrder, "external"))
        /\ dailyProminent = Filter(FindPivots(daily, ExternalOrder, "external"))
        /\ Pivots(dailyProminent) /\ Labelled(dailyProminent)
    BY <1>3, <2>3, EmptyLists, EmptyPivots
  <2>5. /\ dailyDays = DaysUpTo(Whole(Len(series.bars))) /\ Len(daily.bars) = Len(dailyDays)
        /\ Len(dailyDays) = 0 /\ Len(series.bars) = 0
    BY <1>3, <2>1, <2>2
  <2>6. bucket.bars \in Seq(Bar) /\ bucket.bars = << >>
    BY <1>3, <2>2
  <2> QED BY <1>3, <2>4, <2>5, <2>6 DEF DaysInv, DaysFit
<1> QED BY <1>1, <1>5, <1>6, <1>7 DEF AgreeInv

\* AgreeInv holds in every state of every history.
THEOREM AgreeInvariance == Spec => []AgreeInv
<1>1. AgreeInv /\ [Next]_vars => AgreeInv'
  <2>1. ASSUME AgreeInv, NEW bar \in Candle, Advance(bar)
        PROVE  AgreeInv'
    <3>1. EvidenceInv /\ PivotsInv /\ ReclaimsInv /\ DaysInv /\ ReclaimInv
      BY <2>1 DEF AgreeInv, EvidenceInv
    <3>2. EvidenceInv'
      BY <2>1, <3>1, EvidenceStep
    <3>3. PivotsInv'
      BY <2>1, <3>1, PivotsStep
    <3>4. ReclaimsInv'
      BY <2>1, <3>1, ReclaimsAgree
    <3>5. series.bars \in Seq(Bar) /\ UNCHANGED start
      BY <2>1, <3>1 DEF PivotsInv, Frame, Advance
    <3>6. DaysInv'
      BY <2>1, <3>1, <3>5, DaysStep, FitsNext
    <3> QED BY <3>2, <3>3, <3>4, <3>6 DEF AgreeInv
  <2>2. ASSUME AgreeInv, UNCHANGED vars
        PROVE  AgreeInv'
    <3>1. EvidenceInv'
      BY <2>2, EvidenceStutters DEF AgreeInv
    <3>2. PivotsInv'
      BY <2>2 DEF AgreeInv, PivotsInv, External, Inner, vars
    <3>3. ReclaimsInv'
      BY <2>2 DEF AgreeInv, ReclaimsInv, Known, External, Inner, vars
    <3>4. DaysInv'
      BY <2>2, FitsNext DEF AgreeInv, DaysInv, vars
    <3> QED BY <3>1, <3>2, <3>3, <3>4 DEF AgreeInv
  <2> QED BY <2>1, <2>2 DEF Next
<1> QED BY <1>1, AgreeAtFirst, PTL DEF Spec

LEMMA AgreeInvSuffices == AgreeInv => IncrementalAgrees
<1> SUFFICES ASSUME AgreeInv PROVE Snapshot = Extract(series.bars)
  BY DEF IncrementalAgrees
<1> DEFINE bars == series.bars
<1>1. /\ series = Series(bars) /\ bars \in Seq(Bar) /\ raw = Label(External) /\ internal = Label(Inner)
      /\ prominent = Filter(External) /\ Label(prominent) = prominent
  BY DEF AgreeInv, PivotsInv, Frame, Labelled
<1>2. reclaims = FirstReclaims(Highs(External) \union Highs(Inner), bars)
  BY DEF AgreeInv, ReclaimsInv, Known
<1>3. /\ StartsInDay /\ dailyDays = DaysUpTo(Whole(Len(bars))) /\ Len(daily.bars) = Len(dailyDays)
      /\ \A k \in 1 .. Len(dailyDays) : daily.bars[k] = AggregateDay(bars, BarsOfDay(bars, dailyDays[k]))
      /\ daily.bars \in Seq(Bar) /\ daily = Series(daily.bars)
      /\ dailyProminent = Filter(FindPivots(daily, ExternalOrder, "external"))
      /\ Label(dailyProminent) = dailyProminent
  BY DEF AgreeInv, DaysInv, DaysFit, Frame, Labelled
<1>4. CompleteDays(bars) = dailyDays
  BY <1>1, <1>3, CompleteDaysAre
<1>5. AggregateDaily(bars, dailyDays) = daily.bars
  <2>1. Whole(Len(bars)) \in Nat
    <3>1. Len(bars) \in Nat
      BY <1>1
    <3> HIDE DEF bars
    <3> QED BY <1>3, <3>1, WholeBounds
  <2>2. dailyDays \in Seq(Nat) /\ Len(dailyDays) \in Nat
    BY <1>3, <2>1, DaysOf
  <2> DEFINE x == AggregateDaily(bars, dailyDays)
             y == daily.bars
             m == Len(dailyDays)
  <2>3. x = [k \in 1 .. m |-> AggregateDay(bars, BarsOfDay(bars, dailyDays[k]))]
    BY <2>2 DEF AggregateDaily
  <2>4. y \in Seq(Bar) /\ Len(y) = m /\ y = [k \in 1 .. m |-> y[k]]
    BY <1>3, <2>2
  <2>5. \A k \in 1 .. m : y[k] = AggregateDay(bars, BarsOfDay(bars, dailyDays[k]))
    BY <1>3
  <2> HIDE DEF x, y, m
  <2>6. x = y
    BY <2>3, <2>4, <2>5
  <2> QED BY <2>6 DEF x, y
<1>6. ExtractDaily(bars) = dailyProminent
  BY <1>3, <1>4, <1>5 DEF ExtractDaily
<1> HIDE DEF bars
<1>7. Extract(bars) =
        IF Len(bars) < 2 * ExternalOrder + 1 \/ Filter(External) = << >> THEN None
        ELSE [raw |-> Label(External), prominent |-> Label(Filter(External)),
              internal |-> Label(Inner), daily |-> ExtractDaily(bars), days |-> CompleteDays(bars),
              reclaims |-> FirstReclaims(Highs(External) \union Highs(Inner), bars)]
  BY <1>1 DEF Extract, External, Inner
<1>8. Snapshot =
        IF Len(bars) < 2 * ExternalOrder + 1 \/ prominent = << >> THEN None
        ELSE [raw |-> raw, prominent |-> prominent, internal |-> internal,
              daily |-> dailyProminent, days |-> dailyDays, reclaims |-> reclaims]
  BY DEF Snapshot, bars
<1> QED BY <1>1, <1>2, <1>4, <1>6, <1>7, <1>8 DEF bars

\* For every set of candles, every swing order, knob and day length, and
\* wherever in the day the history begins: after any number of bars the
\* incremental state holds what the stateless detector reads off the same bars.
THEOREM IncrementalAgreesAlways == Spec => []IncrementalAgrees
BY AgreeInvariance, AgreeInvSuffices, PTL

=============================================================================
