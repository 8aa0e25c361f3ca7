------------------------------ MODULE Ranking -------------------------------
(***************************************************************************)
(* In which order a bid takes asks (marketplace.py: effective_price to     *)
(* rank_asks).  An ask is a record with the price asked, its host's        *)
(* acceptance rate in parts of Whole, and the median seconds its host      *)
(* takes; None stands for no evidence.  Fractions are exact, as the code's *)
(* are: pairs of a numerator and a denominator above zero.                 *)
(***************************************************************************)
EXTENDS Integers, FiniteSets, FiniteSetsExt

None == -1
Whole == 10

Under(x, y) == x[1] * y[2] < y[1] * x[2]
Times(x, y) == <<x[1] * y[1], x[2] * y[2]>>

-----------------------------------------------------------------------------
\* effective_price: what an accepted task costs.  A newcomer is taken at its
\* word; a host all of whose work was rejected has no price, unless it is free.
Priced(a) == a.ask = 0 \/ a.rate # 0
EffectivePrice(a) == IF a.ask = 0 \/ a.rate = None THEN <<a.ask, 1>>
                     ELSE <<a.ask * Whole, a.rate>>

\* class_median_seconds: of the measured durations in order the middle one, or the
\* mean of the middle two when they are even in number.  The n-th is the least that
\* n of them are within.
Measured(a) == a.seconds > 0
NthSeconds(asks, n) ==
  Min({v \in {a.seconds : a \in asks} : Cardinality({a \in asks : a.seconds <= v}) >= n})
MedianOf(asks) ==
  LET n == Cardinality(asks)
      mid == n \div 2
  IN IF n % 2 = 1 THEN <<NthSeconds(asks, mid + 1), 1>>
     ELSE <<NthSeconds(asks, mid) + NthSeconds(asks, mid + 1), 2>>
ClassMedian(book) == MedianOf({a \in book : Measured(a)})

\* quality_factor: a host's median against its class, between a half and two.
Clamped(ratio) ==
  IF Under(ratio, <<1, 2>>) THEN <<1, 2>>
  ELSE IF Under(<<2, 1>>, ratio) THEN <<2, 1>> ELSE ratio
Against(a, m) == Clamped(<<a.seconds * m[2], m[1]>>)
QualityFactor(a, book) ==
  IF Measured(a) THEN Against(a, ClassMedian(book)) ELSE <<1, 1>>

\* rank_score: the number the objective puts first, for a priced ask; the unmeasured
\* come last under "fastest".
RankScore(objective, a, book) ==
  IF objective = "balanced" THEN Times(EffectivePrice(a), QualityFactor(a, book))
  ELSE EffectivePrice(a)

\* The sort keys of _rank_key_for, compared: what is named first decides.
Lesser(a, b) == a.ask < b.ask \/ (a.ask = b.ask /\ a.id < b.id)
ByScore(a, b, mine, other) ==
  Under(mine, other) \/ (~Under(other, mine) /\ Lesser(a, b))
Before(objective, book, a, b) ==
  IF Priced(a) # Priced(b) THEN Priced(a)
  ELSE IF objective = "fastest" /\ Measured(a) # Measured(b) THEN Measured(a)
  ELSE IF objective = "fastest" /\ Measured(a) /\ a.seconds # b.seconds
  THEN a.seconds < b.seconds
  ELSE IF ~Priced(a) THEN Lesser(a, b)
  ELSE ByScore(a, b, RankScore(objective, a, book), RankScore(objective, b, book))

\* rank_asks, with the class median of the whole book the asks are taken from: of
\* the asks, the one a bid comes to last.
RankedLast(objective, book, asks) ==
  CHOOSE a \in asks : \A b \in asks \ {a} : Before(objective, book, b, a)
=============================================================================
