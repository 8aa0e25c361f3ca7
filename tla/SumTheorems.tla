---------------------------- MODULE SumTheorems -----------------------------
(***************************************************************************)
(* Sums and folds over finite sets, and some arithmetic. The recursions    *)
(* MapThenSumSet and MapThenFoldSet are defined by are not ones the        *)
(* library's induction theorems reach, which take an operator; what they   *)
(* compute is shown here by the smallest counterexample among the subsets  *)
(* of a finite set.                                                        *)
(***************************************************************************)
EXTENDS Integers, FiniteSetsExt, FiniteSetTheorems, TLAPS

\* The element MapThenSumSet takes next.
Pick(T) == CHOOSE x \in T : TRUE
\* What MapThenSumSet works out for the subsets of S.
Adds(f, S, h) ==
  h = [T \in SUBSET S |-> IF T = {} THEN 0 ELSE f[Pick(T)] + h[T \ {Pick(T)}]]
\* The sum of f over S.
SumOver(f, S) == (CHOOSE h : Adds(f, S, h))[S]

\* It is one of them.
LEMMA PickIn == ASSUME NEW T, T # {} PROVE Pick(T) \in T
  BY DEF Pick

\* Some subsets of a finite set have one that none is smaller than: what induction
\* over finite sets is done by here.
LEMMA SmallestSet ==
  ASSUME NEW S, IsFiniteSet(S), NEW B \in SUBSET (SUBSET S), B # {}
  PROVE  \E T \in B : \A U \in SUBSET T : U # T => U \notin B
<1> DEFINE R == StrictSubsetOrdering(S)
<1>1. IsWellFoundedOn(R, SUBSET S)
      BY FS_StrictSubsetOrderingWellFounded, FS_FiniteSubsetsOfFinite
<1>2. \A U, T \in SUBSET S : U \subseteq T /\ U # T => <<U, T>> \in R
      BY DEF StrictSubsetOrdering
<1> HIDE DEF R
<1>3. \E T \in B : \A U \in B : ~(<<U, T>> \in R)
      BY <1>1, WFMin
<1> QED BY <1>2, <1>3

\* The sum of some is that of one and of the others.
LEMMA AddsAt ==
  ASSUME NEW f, NEW S, NEW h, Adds(f, S, h), NEW T \in SUBSET S, T # {}
  PROVE  h[T] = f[Pick(T)] + h[T \ {Pick(T)}]
  BY DEF Adds

\* The sum of none.
LEMMA AddsEmpty ==
  ASSUME NEW f, NEW S, NEW h, Adds(f, S, h)
  PROVE  h[{}] = 0
  BY DEF Adds

\* A sum is worked out in one way.
LEMMA AddsUnique ==
  ASSUME NEW f, NEW S, NEW V, NEW h, NEW k, Adds(f, S, h), Adds(f, V, k),
         IsFiniteSet(S), S \subseteq V
  PROVE  \A T \in SUBSET S : h[T] = k[T]
<1> DEFINE B == {T \in SUBSET S : h[T] # k[T]}
<1> SUFFICES ASSUME B # {} PROVE FALSE
    OBVIOUS
<1>0. B \in SUBSET (SUBSET S)
      OBVIOUS
<1>1. PICK T \in B : \A U \in SUBSET T : U # T => U \notin B
  <2> HIDE DEF B
  <2> QED BY <1>0, SmallestSet
<1>2. CASE T = {}
      BY <1>2, AddsEmpty
<1>3. CASE T # {}
  <2> DEFINE U == T \ {Pick(T)}
  <2>1. U \in SUBSET T /\ U # T
        BY <1>3, PickIn
  <2>2. h[U] = k[U]
        BY <1>1, <2>1
  <2>3. h[T] = f[Pick(T)] + h[U] /\ k[T] = f[Pick(T)] + k[U]
        BY <1>3, AddsAt
  <2> QED BY <2>2, <2>3
<1> QED BY <1>2, <1>3

\* It can be worked out.
LEMMA AddsExist ==
  ASSUME NEW f, NEW S, IsFiniteSet(S)
  PROVE  \E h : Adds(f, S, h)
<1> DEFINE B == {T \in SUBSET S : ~\E h : Adds(f, T, h)}
           H(V) == CHOOSE h : Adds(f, V, h)
           Less(V) == V \ {Pick(V)}
<1> SUFFICES ASSUME B # {} PROVE FALSE
    OBVIOUS
<1>0. B \in SUBSET (SUBSET S)
      OBVIOUS
<1>1. PICK T \in B : \A U \in SUBSET T : U # T => U \notin B
  <2> HIDE DEF B
  <2> QED BY <1>0, SmallestSet
<1>2. ASSUME NEW U \in SUBSET T, U # T PROVE Adds(f, U, H(U)) /\ IsFiniteSet(U)
      BY <1>1, <1>2, FS_Subset
<1>3. ASSUME NEW V \in SUBSET T, V # {} PROVE Less(V) \in SUBSET T /\ Less(V) # T /\ Less(V) \subseteq V
      BY <1>3, PickIn
<1> HIDE DEF H, Less
<1> DEFINE g == [V \in SUBSET T |-> IF V = {} THEN 0 ELSE f[Pick(V)] + H(Less(V))[Less(V)]]
<1>4. ASSUME NEW V \in SUBSET T, V # {} PROVE g[V] = f[Pick(V)] + g[Less(V)]
  <2> DEFINE W == Less(V)
  <2>1. W \in SUBSET T /\ W # T
        BY <1>3, <1>4
  <2>2. Adds(f, W, H(W)) /\ IsFiniteSet(W)
        BY <2>1, <1>2
  <2>3. CASE W = {}
        BY <2>1, <2>2, <2>3, <1>4, AddsEmpty
  <2>4. CASE W # {}
    <3> DEFINE X == Less(W)
    <3>1. X \in SUBSET T /\ X # T /\ X \subseteq W
          BY <2>1, <2>4, <1>3
    <3>2. Adds(f, X, H(X)) /\ IsFiniteSet(X)
          BY <3>1, <1>2
    <3>3. H(X)[X] = H(W)[X]
          BY <3>1, <3>2, <2>2, AddsUnique
    <3>4. H(W)[W] = f[Pick(W)] + H(W)[X]
      <4>1. W \in SUBSET W
            OBVIOUS
      <4> HIDE DEF W
      <4>2. H(W)[W] = f[Pick(W)] + H(W)[W \ {Pick(W)}]
            BY <4>1, <2>2, <2>4, AddsAt
      <4> QED BY <4>2 DEF Less
    <3>5. g[W] = f[Pick(W)] + H(X)[X]
          BY <2>1, <2>4
    <3>6. g[V] = f[Pick(V)] + H(W)[W]
          BY <1>4
    <3> QED BY <3>3, <3>4, <3>5, <3>6
  <2> QED BY <2>3, <2>4
<1>5. g = [V \in SUBSET T |-> IF V = {} THEN 0 ELSE f[Pick(V)] + g[Less(V)]]
  <2> DEFINE k == [V \in SUBSET T |-> IF V = {} THEN 0 ELSE f[Pick(V)] + g[Less(V)]]
  <2>1. \A V \in SUBSET T : g[V] = IF V = {} THEN 0 ELSE f[Pick(V)] + g[Less(V)]
        BY <1>4
  <2>2. g = [V \in SUBSET T |-> g[V]]
        OBVIOUS
  <2> HIDE DEF g
  <2> QED BY <2>1, <2>2
<1>6. Adds(f, T, g)
      BY <1>5 DEF Adds, Less
<1> QED BY <1>1, <1>6

\* A sum is what any way to work it out gives.
LEMMA TotalAdds ==
  ASSUME NEW f, NEW S, IsFiniteSet(S), NEW T \in SUBSET S, NEW h, Adds(f, S, h)
  PROVE  SumOver(f, T) = h[T]
<1>1. IsFiniteSet(T)
      BY FS_Subset
<1> DEFINE k == CHOOSE k : Adds(f, T, k)
<1>2. Adds(f, T, k)
      BY <1>1, AddsExist
<1>3. SumOver(f, T) = k[T]
      BY DEF SumOver
<1> HIDE DEF k
<1> QED BY <1>1, <1>2, <1>3, AddsUnique
\* The sum of none.
LEMMA TotalEmpty == ASSUME NEW f PROVE SumOver(f, {}) = 0
  BY FS_EmptySet, AddsExist, AddsEmpty DEF SumOver

\* The sum of some is that of one and of the others.
LEMMA TotalPick ==
  ASSUME NEW f, NEW S, IsFiniteSet(S), S # {}
  PROVE  SumOver(f, S) = f[Pick(S)] + SumOver(f, S \ {Pick(S)})
<1>1. PICK h : Adds(f, S, h)
      BY AddsExist
<1>2. S \in SUBSET S /\ S \ {Pick(S)} \in SUBSET S
      OBVIOUS
<1>3. h[S] = f[Pick(S)] + h[S \ {Pick(S)}]
      BY <1>1, <1>2, AddsAt
<1> QED BY <1>1, <1>2, <1>3, TotalAdds

\* A sum is of the kind its terms are, if that is closed under addition.
LEMMA TotalIn ==
  ASSUME NEW f, NEW S, IsFiniteSet(S), NEW D, 0 \in D, \A a, b \in D : a + b \in D,
         \A x \in S : f[x] \in D
  PROVE  SumOver(f, S) \in D
<1> DEFINE B == {T \in SUBSET S : SumOver(f, T) \notin D}
<1> SUFFICES ASSUME B # {} PROVE FALSE
    OBVIOUS
<1>0. B \in SUBSET (SUBSET S)
      OBVIOUS
<1>1. PICK T \in B : \A U \in SUBSET T : U # T => U \notin B
  <2> HIDE DEF B
  <2> QED BY <1>0, SmallestSet
<1>2. CASE T = {}
      BY <1>2, TotalEmpty
<1>3. CASE T # {}
  <2>1. Pick(T) \in T /\ IsFiniteSet(T)
        BY <1>3, PickIn, FS_Subset
  <2>2. SumOver(f, T \ {Pick(T)}) \in D
        BY <1>1, <2>1
  <2> QED BY <1>3, <2>1, <2>2, TotalPick
<1> QED BY <1>2, <1>3

\* Any element can be taken out of a sum.
LEMMA TotalRemove ==
  ASSUME NEW S, IsFiniteSet(S), NEW f, \A x \in S : f[x] \in Int, NEW e \in S
  PROVE  SumOver(f, S) = f[e] + SumOver(f, S \ {e})
<1> DEFINE B == {T \in SUBSET S : \E x \in T : SumOver(f, T) # f[x] + SumOver(f, T \ {x})}
<1> SUFFICES ASSUME B # {} PROVE FALSE
    OBVIOUS
<1>0. B \in SUBSET (SUBSET S)
      OBVIOUS
<1>1. PICK T \in B : \A U \in SUBSET T : U # T => U \notin B
  <2> HIDE DEF B
  <2> QED BY <1>0, SmallestSet
<1>2. PICK x \in T : SumOver(f, T) # f[x] + SumOver(f, T \ {x})
      OBVIOUS
<1> DEFINE y == Pick(T)
<1>3. T \in SUBSET S /\ IsFiniteSet(T) /\ y \in T
      BY <1>2, PickIn, FS_Subset
<1>4. SumOver(f, T) = f[y] + SumOver(f, T \ {y})
      BY <1>2, <1>3, TotalPick
<1> HIDE DEF y
<1>5. x # y
      BY <1>2, <1>4
<1>6. SumOver(f, T \ {y}) = f[x] + SumOver(f, (T \ {y}) \ {x})
  <2>1. T \ {y} \notin B /\ x \in T \ {y} /\ T \ {y} \in SUBSET S
        BY <1>1, <1>3, <1>5
  <2> QED BY <2>1
<1>7. SumOver(f, T \ {x}) = f[y] + SumOver(f, (T \ {x}) \ {y})
  <2>1. T \ {x} \notin B /\ y \in T \ {x} /\ T \ {x} \in SUBSET S
        BY <1>1, <1>3, <1>5
  <2> QED BY <2>1
<1>8. (T \ {y}) \ {x} = (T \ {x}) \ {y}
      OBVIOUS
<1>9. SumOver(f, (T \ {x}) \ {y}) \in Int
  <2>1. IsFiniteSet((T \ {x}) \ {y})
        BY <1>3, FS_Subset
  <2>2. \A z \in (T \ {x}) \ {y} : f[z] \in Int
        BY <1>3
  <2> QED BY <2>1, <2>2, TotalIn
<1>10. f[x] \in Int /\ f[y] \in Int
       BY <1>3
<1> DEFINE r == SumOver(f, (T \ {x}) \ {y})
<1>11. SumOver(f, T) = f[y] + (f[x] + r) /\ SumOver(f, T \ {x}) = f[y] + r
       BY <1>4, <1>6, <1>7, <1>8
<1>12. r \in Int
       BY <1>9
<1> HIDE DEF r
<1>13. f[y] + (f[x] + r) = f[x] + (f[y] + r)
       BY <1>10, <1>12
<1> QED BY <1>2, <1>11, <1>13

\* Sums of the same terms are the same.
LEMMA TotalAgree ==
  ASSUME NEW S, IsFiniteSet(S), NEW f, NEW g, \A x \in S : f[x] = g[x]
  PROVE  SumOver(f, S) = SumOver(g, S)
<1>1. PICK h : Adds(f, S, h)
      BY AddsExist
<1>2. \A T \in SUBSET S : T # {} => f[Pick(T)] = g[Pick(T)]
      BY PickIn
<1>3. Adds(g, S, h)
  <2> DEFINE a == [T \in SUBSET S |-> IF T = {} THEN 0 ELSE f[Pick(T)] + h[T \ {Pick(T)}]]
             b == [T \in SUBSET S |-> IF T = {} THEN 0 ELSE g[Pick(T)] + h[T \ {Pick(T)}]]
  <2>1. \A T \in SUBSET S : a[T] = b[T]
        BY <1>2
  <2>2. a = b
        BY <2>1
  <2> QED BY <1>1, <2>2 DEF Adds
<1>4. S \in SUBSET S
      OBVIOUS
<1> QED BY <1>1, <1>3, <1>4, TotalAdds

\* When one term changes the sum changes by as much.
LEMMA TotalUpdate ==
  ASSUME NEW S, IsFiniteSet(S), NEW f, NEW g, NEW e \in S, g[e] \in Int,
         \A x \in S : f[x] \in Int, \A x \in S : x # e => g[x] = f[x]
  PROVE  SumOver(g, S) = SumOver(f, S) + g[e] - f[e]
<1>1. \A x \in S : g[x] \in Int
      OBVIOUS
<1>2. SumOver(f, S) = f[e] + SumOver(f, S \ {e}) /\ SumOver(g, S) = g[e] + SumOver(g, S \ {e})
      BY <1>1, TotalRemove
<1>3. IsFiniteSet(S \ {e}) /\ \A x \in S \ {e} : f[x] = g[x]
      BY FS_Subset
<1>4. SumOver(f, S \ {e}) = SumOver(g, S \ {e})
      BY <1>3, TotalAgree
<1>5. SumOver(f, S \ {e}) \in Int
      BY <1>3, TotalIn
<1> QED BY <1>2, <1>4, <1>5

\* A sum of naturals is one, and no less than any of its terms.
LEMMA TotalBounds ==
  ASSUME NEW S, IsFiniteSet(S), NEW f, \A x \in S : f[x] \in Nat
  PROVE  SumOver(f, S) \in Nat /\ \A x \in S : f[x] <= SumOver(f, S)
<1>0. \A a, b \in Nat : a + b \in Nat
      OBVIOUS
<1>1. SumOver(f, S) \in Nat
      BY <1>0, TotalIn
<1>2. ASSUME NEW e \in S PROVE f[e] <= SumOver(f, S)
  <2>1. IsFiniteSet(S \ {e}) /\ \A x \in S \ {e} : f[x] \in Nat
        BY FS_Subset
  <2>2. SumOver(f, S \ {e}) \in Nat
        BY <2>1, <1>0, TotalIn
  <2>3. SumOver(f, S) = f[e] + SumOver(f, S \ {e})
        BY TotalRemove
  <2> QED BY <2>2, <2>3
<1> QED BY <1>1, <1>2

\* One more of one term is one more in all.
LEMMA TotalRaised ==
  ASSUME NEW S, IsFiniteSet(S), NEW f, NEW g, NEW e \in S, \A x \in S : f[x] \in Nat,
         g[e] = f[e] + 1, \A x \in S : x # e => g[x] = f[x]
  PROVE  SumOver(g, S) = SumOver(f, S) + 1
<1>1. g[e] \in Int /\ \A x \in S : f[x] \in Int
      OBVIOUS
<1>2. SumOver(g, S) = SumOver(f, S) + g[e] - f[e]
  <2> USE <1>1
  <2>1. IsFiniteSet(S) /\ e \in S /\ \A x \in S : x # e => g[x] = f[x]
        OBVIOUS
  <2> QED BY <2>1, TotalUpdate
<1>3. SumOver(f, S) \in Nat
      BY TotalBounds
<1> QED BY <1>1, <1>2, <1>3

\* What MapThenSumSet computes.
LEMMA SumIsTotal ==
  ASSUME NEW S, NEW f
  PROVE  MapThenSumSet(LAMBDA x : f[x], S) = SumOver(f, S)
  BY DEF MapThenSumSet, MapThenFoldSet, SumOver, Adds, Pick

-----------------------------------------------------------------------------
\* What a fold works out for the subsets of S: from base, one step for each element,
\* pick[T] being the last of T to be taken.
FoldsTo(pick, step, base, S, h) ==
  h = [T \in SUBSET S |-> IF T = {} THEN base ELSE step[<<pick[T], h[T \ {pick[T]}]>>]]

\* The fold of some is one step from that of the others.
LEMMA FoldAt ==
  ASSUME NEW pick, NEW step, NEW base, NEW S, NEW h, FoldsTo(pick, step, base, S, h),
         NEW T \in SUBSET S, T # {}
  PROVE  h[T] = step[<<pick[T], h[T \ {pick[T]}]>>]
  BY DEF FoldsTo

\* The fold of none is where it starts.
LEMMA FoldEmpty ==
  ASSUME NEW pick, NEW step, NEW base, NEW S, NEW h, FoldsTo(pick, step, base, S, h)
  PROVE  h[{}] = base
  BY DEF FoldsTo

\* A fold is worked out in one way.
LEMMA FoldUnique ==
  ASSUME NEW pick, NEW step, NEW base, NEW S, NEW V, NEW h, NEW k,
         FoldsTo(pick, step, base, S, h), FoldsTo(pick, step, base, V, k),
         IsFiniteSet(S), S \subseteq V, \A T \in SUBSET S : T # {} => pick[T] \in T
  PROVE  \A T \in SUBSET S : h[T] = k[T]
<1> DEFINE B == {T \in SUBSET S : h[T] # k[T]}
<1> SUFFICES ASSUME B # {} PROVE FALSE
    OBVIOUS
<1>0. B \in SUBSET (SUBSET S)
      OBVIOUS
<1>1. PICK T \in B : \A U \in SUBSET T : U # T => U \notin B
  <2> HIDE DEF B
  <2> QED BY <1>0, SmallestSet
<1>2. CASE T = {}
      BY <1>2, FoldEmpty
<1>3. CASE T # {}
  <2> DEFINE U == T \ {pick[T]}
  <2>1. U \in SUBSET T /\ U # T
        BY <1>3
  <2>2. h[U] = k[U]
        BY <1>1, <2>1
  <2>3. h[T] = step[<<pick[T], h[U]>>] /\ k[T] = step[<<pick[T], k[U]>>]
        BY <1>3, FoldAt
  <2> QED BY <2>2, <2>3
<1> QED BY <1>2, <1>3

\* It can be worked out, whatever the step, if what is taken is there.
LEMMA FoldExists ==
  ASSUME NEW pick, NEW step, NEW base, NEW S, IsFiniteSet(S),
         \A T \in SUBSET S : T # {} => pick[T] \in T
  PROVE  \E h : FoldsTo(pick, step, base, S, h)
<1> DEFINE B == {T \in SUBSET S : ~\E h : FoldsTo(pick, step, base, T, h)}
           H(V) == CHOOSE h : FoldsTo(pick, step, base, V, h)
           Less(V) == V \ {pick[V]}
<1> SUFFICES ASSUME B # {} PROVE FALSE
    OBVIOUS
<1>0. B \in SUBSET (SUBSET S)
      OBVIOUS
<1>1. PICK T \in B : \A U \in SUBSET T : U # T => U \notin B
  <2> HIDE DEF B
  <2> QED BY <1>0, SmallestSet
<1>a. T \in SUBSET S /\ ~\E h : FoldsTo(pick, step, base, T, h)
      OBVIOUS
<1>b. \A V \in SUBSET T : V # {} => pick[V] \in V
      BY <1>a
<1>2. ASSUME NEW U \in SUBSET T, U # T
      PROVE  FoldsTo(pick, step, base, U, H(U)) /\ IsFiniteSet(U)
      BY <1>1, <1>2, FS_Subset
<1>3. ASSUME NEW V \in SUBSET T, V # {} PROVE Less(V) \in SUBSET T /\ Less(V) # T /\ Less(V) \subseteq V
      BY <1>3, <1>b
<1> HIDE DEF H, Less, B
<1> DEFINE g == [V \in SUBSET T |-> IF V = {} THEN base ELSE step[<<pick[V], H(Less(V))[Less(V)]>>]]
<1>4. ASSUME NEW V \in SUBSET T, V # {} PROVE g[V] = step[<<pick[V], g[Less(V)]>>]
  <2> DEFINE W == Less(V)
  <2>1. W \in SUBSET T /\ W # T
        BY <1>3, <1>4
  <2>2. FoldsTo(pick, step, base, W, H(W)) /\ IsFiniteSet(W)
        BY <2>1, <1>2
  <2>3. g[V] = step[<<pick[V], H(W)[W]>>]
        BY <1>4
  <2>4. CASE W = {}
    <3>1. g[W] = base
          BY <2>1, <2>4
    <3>2. H(W)[W] = base
          BY <2>2, <2>4, FoldEmpty
    <3> QED BY <2>3, <3>1, <3>2
  <2>5. CASE W # {}
    <3> DEFINE X == Less(W)
    <3>1. X \in SUBSET T /\ X # T /\ X \subseteq W
          BY <2>1, <2>5, <1>3
    <3>2. FoldsTo(pick, step, base, X, H(X)) /\ IsFiniteSet(X)
          BY <3>1, <1>2
    <3>3. H(X)[X] = H(W)[X]
      <4>1. \A V1 \in SUBSET X : V1 # {} => pick[V1] \in V1
            BY <1>b, <3>1
      <4> HIDE DEF W, X
      <4> QED BY <3>1, <3>2, <2>2, <4>1, FoldUnique
    <3>4. H(W)[W] = step[<<pick[W], H(W)[X]>>]
      <4>1. W \in SUBSET W
            OBVIOUS
      <4> HIDE DEF W
      <4>2. H(W)[W] = step[<<pick[W], H(W)[W \ {pick[W]}]>>]
            BY <4>1, <2>2, <2>5, FoldAt
      <4> QED BY <4>2 DEF Less
    <3>5. g[W] = step[<<pick[W], H(X)[X]>>]
          BY <2>1, <2>5
    <3> QED BY <2>3, <3>3, <3>4, <3>5
  <2> QED BY <2>4, <2>5
<1>5. g = [V \in SUBSET T |-> IF V = {} THEN base ELSE step[<<pick[V], g[Less(V)]>>]]
  <2>1. \A V \in SUBSET T : g[V] = IF V = {} THEN base ELSE step[<<pick[V], g[Less(V)]>>]
        BY <1>4
  <2>2. g = [V \in SUBSET T |-> g[V]]
        OBVIOUS
  <2> HIDE DEF g
  <2> QED BY <2>1, <2>2
<1>6. FoldsTo(pick, step, base, T, g)
      BY <1>5 DEF FoldsTo, Less
<1> QED BY <1>a, <1>6

\* A finite set that is in order has a last element.
LEMMA LastExists ==
  ASSUME NEW S, IsFiniteSet(S), S # {}, NEW R,
         \A a, b \in S : a # b => <<a, b>> \in R \/ <<b, a>> \in R,
         \A a, b, c \in S : (<<a, b>> \in R /\ <<b, c>> \in R) => <<a, c>> \in R
  PROVE  \E z \in S : \A a \in S \ {z} : <<a, z>> \in R
<1> DEFINE Ends(T) == \E z \in T : \A a \in T \ {z} : <<a, z>> \in R
           B == {T \in SUBSET S : T # {} /\ ~Ends(T)}
<1> SUFFICES ASSUME B # {} PROVE FALSE
    OBVIOUS
<1>0. B \in SUBSET (SUBSET S)
      OBVIOUS
<1>1. PICK T \in B : \A U \in SUBSET T : U # T => U \notin B
  <2> HIDE DEF B
  <2> QED BY <1>0, SmallestSet
<1>2. T \in SUBSET S /\ ~Ends(T)
      OBVIOUS
<1>3. PICK x \in T : TRUE
      OBVIOUS
<1> DEFINE U == T \ {x}
<1>4. CASE U = {}
      BY <1>2, <1>4
<1>5. CASE U # {}
  <2>1. Ends(U)
    <3>1. U \in SUBSET T /\ U # T
          BY <1>3
    <3>2. U \notin B /\ U \in SUBSET S
          BY <1>1, <1>2, <3>1
    <3> QED BY <1>5, <3>2
  <2>2. PICK y \in U : \A a \in U \ {y} : <<a, y>> \in R
        BY <2>1
  <2>3. x \in S /\ y \in S /\ x # y /\ U \subseteq S
        BY <1>2
  <2>4. CASE <<x, y>> \in R
    <3>1. \A a \in T \ {y} : <<a, y>> \in R
          BY <2>2, <2>4
    <3> QED BY <3>1, <1>2, <2>2
  <2>5. CASE <<y, x>> \in R
    <3>1. \A a \in T \ {x} : <<a, x>> \in R
          BY <2>2, <2>3, <2>5
    <3> QED BY <3>1, <1>2, <1>3
  <2> QED BY <2>3, <2>4, <2>5
<1> QED BY <1>4, <1>5

\* A function takes finitely many values on a finite set.
LEMMA ImageFinite ==
  ASSUME NEW S, IsFiniteSet(S), NEW f
  PROVE  IsFiniteSet({f[x] : x \in S})
<1> DEFINE T == {f[x] : x \in S}
           g == [x \in S |-> f[x]]
<1>1. g \in Surjection(S, T)
      BY DEF Surjection
<1> HIDE DEF g, T
<1>2. IsFiniteSet(T)
      BY <1>1, FS_Surjection
<1> QED BY <1>2 DEF T

\* A finite set of numbers has a greatest.
LEMMA MaxIs ==
  ASSUME NEW S, IsFiniteSet(S), S # {}, S \subseteq Int
  PROVE  Max(S) \in S /\ \A x \in S : x <= Max(S)
<1> DEFINE R == {p \in S \X S : p[1] <= p[2]}
<1>1. \A a, b \in S : <<a, b>> \in R <=> a <= b
      OBVIOUS
<1>2. /\ \A a, b \in S : a # b => <<a, b>> \in R \/ <<b, a>> \in R
      /\ \A a, b, c \in S : (<<a, b>> \in R /\ <<b, c>> \in R) => <<a, c>> \in R
      BY <1>1
<1> HIDE DEF R
<1>3. PICK z \in S : \A a \in S \ {z} : <<a, z>> \in R
      BY <1>2, LastExists
<1>4. \A a \in S \ {z} : a <= z
      BY <1>1, <1>3
<1>5. \A a \in S : z >= a
      BY <1>4
<1> QED BY <1>5 DEF Max
\* And a least.
LEMMA MinIs ==
  ASSUME NEW S, IsFiniteSet(S), S # {}, S \subseteq Int
  PROVE  Min(S) \in S /\ \A x \in S : Min(S) <= x
<1> DEFINE R == {p \in S \X S : p[2] <= p[1]}
<1>1. \A a, b \in S : <<a, b>> \in R <=> b <= a
      OBVIOUS
<1>2. /\ \A a, b \in S : a # b => <<a, b>> \in R \/ <<b, a>> \in R
      /\ \A a, b, c \in S : (<<a, b>> \in R /\ <<b, c>> \in R) => <<a, c>> \in R
      BY <1>1
<1> HIDE DEF R
<1>3. PICK z \in S : \A a \in S \ {z} : <<a, z>> \in R
      BY <1>2, LastExists
<1>4. \A a \in S \ {z} : z <= a
      BY <1>1, <1>3
<1>5. \A a \in S : z <= a
      BY <1>4
<1> QED BY <1>5 DEF Min

\* The sum of sums, term by term.
LEMMA TotalPlus ==
  ASSUME NEW S, IsFiniteSet(S), NEW f, NEW g, NEW h,
         \A x \in S : f[x] \in Int /\ g[x] \in Int /\ h[x] = f[x] + g[x]
  PROVE  SumOver(h, S) = SumOver(f, S) + SumOver(g, S)
<1> DEFINE B == {T \in SUBSET S : SumOver(h, T) # SumOver(f, T) + SumOver(g, T)}
<1> SUFFICES ASSUME B # {} PROVE FALSE
    OBVIOUS
<1>0. B \in SUBSET (SUBSET S)
      OBVIOUS
<1>1. PICK T \in B : \A U \in SUBSET T : U # T => U \notin B
  <2> HIDE DEF B
  <2> QED BY <1>0, SmallestSet
<1>2. CASE T = {}
      BY <1>2, TotalEmpty
<1>3. CASE T # {}
  <2> DEFINE x == Pick(T)
             U == T \ {x}
  <2>1. x \in T /\ IsFiniteSet(T) /\ IsFiniteSet(U)
        BY <1>3, PickIn, FS_Subset
  <2>2. /\ SumOver(f, T) = f[x] + SumOver(f, U)
        /\ SumOver(g, T) = g[x] + SumOver(g, U)
        /\ SumOver(h, T) = h[x] + SumOver(h, U)
        BY <1>3, <2>1, TotalPick
  <2>3. U \in SUBSET S /\ U \notin B
        BY <1>1, <2>1
  <2>4. SumOver(h, U) = SumOver(f, U) + SumOver(g, U)
        BY <2>3
  <2>5. \A a, b \in Int : a + b \in Int
        OBVIOUS
  <2>6. /\ 0 \in Int /\ \A y \in U : f[y] \in Int /\ g[y] \in Int
        /\ f[x] \in Int /\ g[x] \in Int /\ h[x] = f[x] + g[x]
        BY <2>1
  <2>7. SumOver(f, U) \in Int /\ SumOver(g, U) \in Int
        BY <2>1, <2>5, <2>6, TotalIn
  <2> HIDE DEF x, U, B
  <2>8. SumOver(h, T) = SumOver(f, T) + SumOver(g, T)
        BY <2>2, <2>4, <2>6, <2>7
  <2> QED BY <2>8 DEF B
<1> QED BY <1>2, <1>3

\* More in each term is more in the sum.
LEMMA TotalMonotone ==
  ASSUME NEW S, IsFiniteSet(S), NEW f, NEW g,
         \A x \in S : f[x] \in Nat /\ g[x] \in Nat /\ f[x] <= g[x]
  PROVE  SumOver(f, S) <= SumOver(g, S)
<1> DEFINE d == [x \in S |-> g[x] - f[x]]
<1>1. \A x \in S : f[x] \in Int /\ d[x] \in Int /\ g[x] = f[x] + d[x]
      OBVIOUS
<1>2. \A x \in S : d[x] \in Nat
      OBVIOUS
<1> HIDE DEF d
<1>3. SumOver(g, S) = SumOver(f, S) + SumOver(d, S)
      BY <1>1, TotalPlus
<1>4. SumOver(d, S) \in Nat /\ SumOver(f, S) \in Nat
      BY <1>2, TotalBounds
<1> QED BY <1>3, <1>4

\* A sum of nothings is nothing.
LEMMA TotalZero ==
  ASSUME NEW S, IsFiniteSet(S), NEW f, \A x \in S : f[x] = 0
  PROVE  SumOver(f, S) = 0
<1>1. 0 \in {0} /\ \A a, b \in {0} : a + b \in {0}
      OBVIOUS
<1>2. \A x \in S : f[x] \in {0}
      OBVIOUS
<1>3. SumOver(f, S) \in {0}
      BY <1>1, <1>2, TotalIn
<1> QED BY <1>3

\* What SumFunction and SumFunctionOnSet compute.
LEMMA SumFunctionIsTotal ==
  ASSUME NEW S, NEW f
  PROVE  SumFunctionOnSet(f, S) = SumOver(f, S)
  BY DEF SumFunctionOnSet, FoldFunctionOnSet, MapThenFoldSet, SumOver, Adds, Pick

\* The sum over two sets that share nothing.
LEMMA TotalUnion ==
  ASSUME NEW S, IsFiniteSet(S), NEW T, IsFiniteSet(T), S \cap T = {}, NEW f,
         \A x \in S \cup T : f[x] \in Int
  PROVE  SumOver(f, S \cup T) = SumOver(f, S) + SumOver(f, T)
<1> DEFINE B == {U \in SUBSET T : SumOver(f, S \cup U) # SumOver(f, S) + SumOver(f, U)}
<1> SUFFICES ASSUME B # {} PROVE FALSE
    OBVIOUS
<1>0. B \in SUBSET (SUBSET T)
      OBVIOUS
<1>1. PICK V \in B : \A U \in SUBSET V : U # V => U \notin B
  <2> HIDE DEF B
  <2> QED BY <1>0, SmallestSet
<1>2. SumOver(f, S) \in Int
  <2>1. 0 \in Int /\ \A a, b \in Int : a + b \in Int
        OBVIOUS
  <2> QED BY <2>1, TotalIn
<1>3. CASE V = {}
  <2>1. S \cup V = S
        BY <1>3
  <2> QED BY <1>2, <1>3, <2>1, TotalEmpty
<1>4. CASE V # {}
  <2>1. PICK x \in V : TRUE
        BY <1>4
  <2> DEFINE U == V \ {x}
  <2>2. U \in SUBSET T /\ U \notin B /\ V \in SUBSET T /\ x \in S \cup V
        BY <1>1, <2>1
  <2>3. SumOver(f, S \cup U) = SumOver(f, S) + SumOver(f, U)
        BY <2>2
  <2>4. IsFiniteSet(V) /\ IsFiniteSet(S \cup V) /\ IsFiniteSet(U)
        BY <2>2, FS_Subset, FS_Union
  <2>5. (S \cup V) \ {x} = S \cup U
        BY <2>1, <2>2
  <2>6. \A y \in S \cup V : f[y] \in Int
        BY <2>2
  <2>7. SumOver(f, S \cup V) = f[x] + SumOver(f, S \cup U)
        BY <2>2, <2>4, <2>5, <2>6, TotalRemove
  <2>8. SumOver(f, V) = f[x] + SumOver(f, U)
        BY <2>1, <2>4, <2>6, TotalRemove
  <2>9. SumOver(f, U) \in Int /\ f[x] \in Int
    <3>1. 0 \in Int /\ \A a, b \in Int : a + b \in Int
          OBVIOUS
    <3> QED BY <3>1, <2>2, <2>4, <2>6, TotalIn
  <2>10. SumOver(f, S \cup V) = SumOver(f, S) + SumOver(f, V)
    <3> HIDE DEF U, B
    <3> QED BY <1>2, <2>3, <2>7, <2>8, <2>9
  <2> QED BY <2>10
<1> QED BY <1>3, <1>4

\* A part has no more than the whole.
LEMMA TotalPart ==
  ASSUME NEW T, IsFiniteSet(T), NEW S \in SUBSET T, NEW f, \A x \in T : f[x] \in Nat
  PROVE  SumOver(f, S) <= SumOver(f, T)
<1> DEFINE R == T \ S
<1>1. IsFiniteSet(S) /\ IsFiniteSet(R) /\ T = S \cup R /\ S \cap R = {}
  BY FS_Subset
<1>2. (\A x \in S : f[x] \in Nat) /\ (\A x \in R : f[x] \in Nat) /\ \A x \in S \cup R : f[x] \in Int
  OBVIOUS
<1> HIDE DEF R
<1>3. SumOver(f, S) \in Nat /\ SumOver(f, R) \in Nat
  BY <1>1, <1>2, TotalBounds
<1>4. SumOver(f, S \cup R) = SumOver(f, S) + SumOver(f, R)
  BY <1>1, <1>2, TotalUnion
<1>5. SumOver(f, T) = SumOver(f, S) + SumOver(f, R)
  BY <1>1, <1>4
<1> QED BY <1>3, <1>5

-----------------------------------------------------------------------------
\* Division rounds down.
LEMMA DivBounds ==
  ASSUME NEW a \in Nat, NEW b \in Nat, b > 0
  PROVE  a \div b \in Nat /\ (a \div b) * b <= a /\ a < (a \div b) * b + b
  OBVIOUS

\* And what is more stays at least as much.
LEMMA DivMonotone ==
  ASSUME NEW a \in Nat, NEW c \in Nat, NEW b \in Nat, b > 0, a <= c
  PROVE  a \div b <= c \div b
<1> DEFINE p == a \div b
           q == c \div b
<1>1. p \in Nat /\ q \in Nat /\ p * b <= a /\ c < q * b + b
  BY DivBounds
<1> HIDE DEF p, q
<1>2. p * b < (q + 1) * b
  BY <1>1
<1>3. p <= q
  <2> SUFFICES ASSUME p >= q + 1 PROVE FALSE
      BY <1>1
  <2>1. PICK d \in Nat : p = q + 1 + d
      <3>1. p - (q + 1) \in Nat
        BY <1>1
      <3> QED BY <1>1, <3>1
  <2>2. p * b = (q + 1) * b + d * b
      BY <1>1, <2>1
  <2>3. d * b \in Nat
      BY <2>1
  <2> QED BY <1>1, <1>2, <2>2, <2>3
<1> QED BY <1>3 DEF p, q

\* What a share is clamped to.
LEMMA MinOfTwo ==
  ASSUME NEW x \in Int, NEW y \in Int
  PROVE  Min({x, y}) = IF x <= y THEN x ELSE y
<1>1. IsFiniteSet({x, y}) /\ {x, y} # {} /\ {x, y} \subseteq Int
  <2>1. IsFiniteSet({x}) /\ {x, y} = {x} \cup {y}
    BY FS_Singleton
  <2>2. IsFiniteSet({x} \cup {y})
    BY <2>1, FS_AddElement
  <2> QED BY <2>1, <2>2
<1>2. Min({x, y}) \in {x, y} /\ \A z \in {x, y} : Min({x, y}) <= z
  BY <1>1, MinIs
<1> QED BY <1>2

\* A sum of ones counts.
LEMMA TotalOnes ==
  ASSUME NEW S, IsFiniteSet(S), NEW f, \A x \in S : f[x] = 1
  PROVE  SumOver(f, S) = Cardinality(S)
<1> DEFINE B == {T \in SUBSET S : SumOver(f, T) # Cardinality(T)}
<1> SUFFICES ASSUME B # {} PROVE FALSE
    OBVIOUS
<1>0. B \in SUBSET (SUBSET S)
      OBVIOUS
<1>1. PICK T \in B : \A U \in SUBSET T : U # T => U \notin B
  <2> HIDE DEF B
  <2> QED BY <1>0, SmallestSet
<1>2. CASE T = {}
      BY <1>2, TotalEmpty, FS_EmptySet
<1>3. CASE T # {}
  <2> DEFINE x == Pick(T)
             U == T \ {x}
  <2>1. x \in T /\ IsFiniteSet(T) /\ IsFiniteSet(U) /\ Cardinality(T) \in Nat
        /\ Cardinality(U) = Cardinality(T) - 1
        BY <1>3, PickIn, FS_Subset, FS_RemoveElement, FS_CardinalityType
  <2>2. SumOver(f, T) = f[x] + SumOver(f, U)
        BY <1>3, <2>1, TotalPick
  <2>3. U \in SUBSET S /\ U \notin B
        BY <1>1, <2>1
  <2>4. SumOver(f, U) = Cardinality(U)
        BY <2>3
  <2>5. f[x] = 1
        BY <2>1
  <2> HIDE DEF x, U, B
  <2>6. SumOver(f, T) = Cardinality(T)
        BY <2>1, <2>2, <2>4, <2>5
  <2> QED BY <2>6 DEF B
<1> QED BY <1>2, <1>3

\* A factor of every term is one of the sum.
LEMMA TotalScale ==
  ASSUME NEW S, IsFiniteSet(S), NEW k \in Nat, NEW f, NEW g,
         \A x \in S : f[x] \in Nat /\ g[x] = k * f[x]
  PROVE  SumOver(g, S) = k * SumOver(f, S)
<1> DEFINE B == {T \in SUBSET S : SumOver(g, T) # k * SumOver(f, T)}
<1> SUFFICES ASSUME B # {} PROVE FALSE
    OBVIOUS
<1>0. B \in SUBSET (SUBSET S)
      OBVIOUS
<1>1. PICK T \in B : \A U \in SUBSET T : U # T => U \notin B
  <2> HIDE DEF B
  <2> QED BY <1>0, SmallestSet
<1>2. CASE T = {}
  <2>1. SumOver(f, T) = 0 /\ SumOver(g, T) = 0 /\ k * 0 = 0
        BY <1>2, TotalEmpty
  <2> QED BY <2>1
<1>3. CASE T # {}
  <2> DEFINE x == Pick(T)
             U == T \ {x}
  <2>1. x \in T /\ IsFiniteSet(T) /\ IsFiniteSet(U)
        BY <1>3, PickIn, FS_Subset
  <2>2. /\ SumOver(f, T) = f[x] + SumOver(f, U)
        /\ SumOver(g, T) = g[x] + SumOver(g, U)
        BY <1>3, <2>1, TotalPick
  <2>3. U \in SUBSET S /\ U \notin B
        BY <1>1, <2>1
  <2>4. SumOver(g, U) = k * SumOver(f, U)
        BY <2>3
  <2>5. f[x] \in Nat /\ g[x] = k * f[x] /\ \A y \in U : f[y] \in Nat
        BY <2>1
  <2>6. SumOver(f, U) \in Nat
        BY <2>1, <2>5, TotalBounds
  <2> HIDE DEF x, U, B
  <2>7. k * (f[x] + SumOver(f, U)) = k * f[x] + k * SumOver(f, U)
        BY <2>5, <2>6
  <2>8. SumOver(g, T) = k * SumOver(f, T)
        BY <2>2, <2>4, <2>5, <2>7
  <2> QED BY <2>8 DEF B
<1> QED BY <1>2, <1>3

\* Terms of at least q add up to q for each.
LEMMA TotalAtLeast ==
  ASSUME NEW S, IsFiniteSet(S), NEW q \in Nat, NEW f, \A x \in S : f[x] \in Nat /\ q <= f[x]
  PROVE  q * Cardinality(S) <= SumOver(f, S)
<1> DEFINE one == [x \in S |-> 1]
           all == [x \in S |-> q * one[x]]
<1>1. /\ \A x \in S : one[x] = 1 /\ one[x] \in Nat
      /\ \A x \in S : all[x] = q * one[x] /\ all[x] \in Nat /\ all[x] = q
      OBVIOUS
<1> HIDE DEF one, all
<1>2. SumOver(one, S) = Cardinality(S)
      BY <1>1, TotalOnes
<1>3. SumOver(all, S) = q * SumOver(one, S)
      BY <1>1, TotalScale
<1>4. SumOver(all, S) <= SumOver(f, S)
      BY <1>1, TotalMonotone
<1> QED BY <1>2, <1>3, <1>4

\* Terms of at most q add up to no more.
LEMMA TotalAtMost ==
  ASSUME NEW S, IsFiniteSet(S), NEW q \in Nat, NEW f, \A x \in S : f[x] \in Nat /\ f[x] <= q
  PROVE  SumOver(f, S) <= q * Cardinality(S)
<1> DEFINE one == [x \in S |-> 1]
           all == [x \in S |-> q * one[x]]
<1>1. /\ \A x \in S : one[x] = 1 /\ one[x] \in Nat
      /\ \A x \in S : all[x] = q * one[x] /\ all[x] \in Nat /\ all[x] = q
      OBVIOUS
<1> HIDE DEF one, all
<1>2. SumOver(one, S) = Cardinality(S)
      BY <1>1, TotalOnes
<1>3. SumOver(all, S) = q * SumOver(one, S)
      BY <1>1, TotalScale
<1>4. SumOver(f, S) <= SumOver(all, S)
      BY <1>1, TotalMonotone
<1> QED BY <1>2, <1>3, <1>4

\* More in each term, and in one really more, is really more.
LEMMA TotalStrict ==
  ASSUME NEW S, IsFiniteSet(S), NEW f, NEW g, NEW e \in S, f[e] < g[e],
         \A x \in S : f[x] \in Nat /\ g[x] \in Nat /\ f[x] <= g[x]
  PROVE  SumOver(f, S) < SumOver(g, S)
<1> DEFINE U == S \ {e}
<1>1. IsFiniteSet(U) /\ (\A x \in S : f[x] \in Int) /\ (\A x \in S : g[x] \in Int)
      BY FS_Subset
<1>2. SumOver(f, S) = f[e] + SumOver(f, U) /\ SumOver(g, S) = g[e] + SumOver(g, U)
      BY <1>1, TotalRemove
<1>3. \A x \in U : f[x] \in Nat /\ g[x] \in Nat /\ f[x] <= g[x]
      OBVIOUS
<1> HIDE DEF U
<1>4. SumOver(f, U) <= SumOver(g, U) /\ SumOver(f, U) \in Nat /\ SumOver(g, U) \in Nat
      BY <1>1, <1>3, TotalMonotone, TotalBounds
<1> QED BY <1>2, <1>4

\* Terms of nothing change no sum.
LEMMA TotalSupport ==
  ASSUME NEW T, IsFiniteSet(T), NEW S \in SUBSET T, NEW f,
         \A x \in T : f[x] \in Nat, \A x \in T \ S : f[x] = 0
  PROVE  SumOver(f, T) = SumOver(f, S)
<1> DEFINE R == T \ S
<1>1. IsFiniteSet(S) /\ IsFiniteSet(R) /\ T = S \cup R /\ S \cap R = {}
      BY FS_Subset
<1>2. (\A x \in S : f[x] \in Nat) /\ (\A x \in R : f[x] = 0) /\ \A x \in S \cup R : f[x] \in Int
      OBVIOUS
<1> HIDE DEF R
<1>3. SumOver(f, S) \in Nat /\ SumOver(f, R) = 0
      BY <1>1, <1>2, TotalBounds, TotalZero
<1>4. SumOver(f, S \cup R) = SumOver(f, S) + SumOver(f, R)
      BY <1>1, <1>2, TotalUnion
<1>5. SumOver(f, T) = SumOver(f, S) + SumOver(f, R)
      BY <1>1, <1>4
<1> QED BY <1>3, <1>5

\* Of two products the larger has the larger factor.
LEMMA FactorLess ==
  ASSUME NEW a \in Nat, NEW b \in Nat, NEW k \in Nat, a * k < b * k
  PROVE  a < b
<1> SUFFICES ASSUME ~(a < b) PROVE FALSE
    OBVIOUS
<1>1. PICK d \in Nat : a = b + d
  <2>1. a - b \in Nat /\ a = b + (a - b)
        OBVIOUS
  <2> QED BY <2>1
<1>2. a * k = b * k + d * k /\ d * k \in Nat /\ b * k \in Nat
      BY <1>1
<1> QED BY <1>2

\* What the larger of two is.
LEMMA MaxOfTwo ==
  ASSUME NEW x \in Int, NEW y \in Int
  PROVE  Max({x, y}) = IF x >= y THEN x ELSE y
<1>1. IsFiniteSet({x, y}) /\ {x, y} # {} /\ {x, y} \subseteq Int
  <2>1. IsFiniteSet({x}) /\ {x, y} = {x} \cup {y}
        BY FS_Singleton
  <2>2. IsFiniteSet({x} \cup {y})
        BY <2>1, FS_AddElement
  <2> QED BY <2>1, <2>2
<1>2. Max({x, y}) \in {x, y} /\ \A z \in {x, y} : z <= Max({x, y})
      BY <1>1, MaxIs
<1> QED BY <1>2

\* What is at least as much everywhere and in all the same is the same everywhere.
LEMMA TotalSqueeze ==
  ASSUME NEW S, IsFiniteSet(S), NEW f, NEW g,
         \A x \in S : f[x] \in Nat /\ g[x] \in Nat /\ f[x] <= g[x], SumOver(f, S) = SumOver(g, S)
  PROVE  \A x \in S : f[x] = g[x]
<1> SUFFICES ASSUME NEW x \in S, f[x] # g[x] PROVE FALSE
    OBVIOUS
<1>1. f[x] \in Nat /\ g[x] \in Nat /\ f[x] <= g[x]
      OBVIOUS
<1>2. f[x] < g[x]
      BY <1>1
<1>3. SumOver(f, S) < SumOver(g, S)
      BY <1>2, TotalStrict
<1>4. SumOver(f, S) \in Nat
      BY TotalBounds
<1> QED BY <1>3, <1>4
=============================================================================
