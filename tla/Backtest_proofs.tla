--------------------------- MODULE Backtest_proofs ---------------------------
(***************************************************************************)
(* Proofs about Backtest, for any tables, symbols, rates and spreads.      *)
(*                                                                         *)
(*   NothingAhead      what the engine says of a bar does not depend on    *)
(*                     what comes after it                                 *)
(*   CarriedOvernight  what an intraday backtest carries overnight         *)
(*   HoldingsEarn      a portfolio of one symbol earns its price ratio     *)
(*   CostsOnlyCost     with rates that cannot ruin a portfolio, the net    *)
(*                     value is at most the gross one                      *)
(*   CostsNeverPay     with any rates, so it is while both are positive    *)
(*   LedgerBalances    lots are first-in, first-out and the gains add up   *)
(*                                                                         *)
(* The first two need no arithmetic: two calls that agree up to a bar do   *)
(* the same operations on the same values up to there, and the invariant   *)
(* is the recurrence each call follows, bar by bar. The others rest on     *)
(* that gcd gives the greatest common divisor, on the laws of fractions in *)
(* lowest terms that follow, and on what sums of such fractions come to.   *)
(***************************************************************************)
EXTENDS Backtest, Lemmas, SequenceTheorems

----------------------------------------------------------------------------
----------------------------------------------------------------------------
(* A sum of fractions is such a fold. *)
SumOn(f, S) == FoldFunctionOnSet(Add, Zero, f, S)

Values(f, S) == \A x \in S : f[x] \in Reduced

Adding(f, S) == [x \in S |-> [a \in Reduced |-> Add(f[x], a)]]

LEMMA AddingCommutes ==
    ASSUME NEW S, NEW f, Values(f, S)
    PROVE  Adding(f, S) \in Commuting(S, Reduced)
<1> DEFINE add == Adding(f, S)
<1>1. add \in [S -> [Reduced -> Reduced]]
  <2>1. \A x \in S, a \in Reduced : Add(f[x], a) \in Reduced
    BY AddType DEF Values
  <2>2. QED  BY <2>1 DEF Adding
<1>2. ASSUME NEW y \in S, NEW z \in S, NEW v \in Reduced
      PROVE  add[y][add[z][v]] = add[z][add[y][v]]
  <2>1. f[y] \in Reduced /\ f[z] \in Reduced
    BY DEF Values
  <2>2. Add(f[y], v) \in Reduced /\ Add(f[z], v) \in Reduced
    BY <2>1, AddType
  <2>3. Add(f[y], Add(f[z], v)) = Add(f[z], Add(f[y], v))
    BY <2>1, AddSwaps
  <2>4. QED  BY <2>2, <2>3 DEF Adding
<1>3. QED  BY <1>1, <1>2 DEF Commuting

LEMMA SumFolds ==
    ASSUME NEW S, IsFiniteSet(S), NEW f, Values(f, S)
    PROVE  \E g : /\ FoldsTo(g, S, Reduced, Zero, Adding(f, S))
                  /\ SumOn(f, S) = g[S]
<1> DEFINE Is(c) == c = [s \in SUBSET S |-> IF s = {} THEN Zero
                                            ELSE Add(f[Pick(s)], c[s \ {Pick(s)}])]
           c == CHOOSE c : Is(c)
<1>1. SumOn(f, S) = c[S]
  BY Zenon DEF SumOn, FoldFunctionOnSet, MapThenFoldSet, Pick
<1>2. Zero \in Reduced
  BY ZeroReduced
<1>3. Adding(f, S) \in [S -> [Reduced -> Reduced]]
  BY AddingCommutes DEF Commuting
<1>4. PICK g : FoldsTo(g, S, Reduced, Zero, Adding(f, S))
  BY <1>2, <1>3, FoldExists
<1>5. Is(g)
  <2>1. \A s \in SUBSET S : s # {} => g[s] = Add(f[Pick(s)], g[s \ {Pick(s)}])
    <3>1. SUFFICES ASSUME NEW s \in SUBSET S, s # {}
                   PROVE  g[s] = Add(f[Pick(s)], g[s \ {Pick(s)}])
      OBVIOUS
    <3>2. Pick(s) \in S
      BY <3>1, PickIn
    <3>3. g[s \ {Pick(s)}] \in Reduced
      BY <1>4, <3>1 DEF FoldsTo
    <3>4. g[s] = Adding(f, S)[Pick(s)][g[s \ {Pick(s)}]]
      BY <1>4, <3>1 DEF FoldsTo
    <3>5. QED  BY <3>2, <3>3, <3>4 DEF Adding
  <2>2. g = [s \in SUBSET S |-> g[s]] /\ g[{}] = Zero
    BY <1>4 DEF FoldsTo
  <2>3. QED  BY <2>1, <2>2
<1>6. Is(c)
  BY <1>5
<1>7. c[S] = g[S]
  <2>1. c[{}] = g[{}]
    BY <1>5, <1>6
  <2>2. ASSUME NEW s \in SUBSET S, s # {}, c[s \ {Pick(s)}] = g[s \ {Pick(s)}]
        PROVE  c[s] = g[s]
    <3>1. c[s] = Add(f[Pick(s)], c[s \ {Pick(s)}])
      BY <1>6, <2>2
    <3>2. g[s] = Add(f[Pick(s)], g[s \ {Pick(s)}])
      BY <1>5, <2>2
    <3>3. QED  BY <2>2, <3>1, <3>2
  <2> HIDE DEF c, Is
  <2>3. \A s \in SUBSET S : c[s] = g[s]
    BY <2>1, <2>2, AgreeOnSubsets
  <2>4. QED  BY <2>3
<1>8. QED  BY <1>1, <1>4, <1>7

(* What a sum comes to: nothing, or a term and the sum of the others. *)
LEMMA SumNone ==
    ASSUME NEW f
    PROVE  SumOn(f, {}) = Zero
<1>1. IsFiniteSet({}) /\ Values(f, {})
  BY FS_EmptySet DEF Values
<1>2. PICK g : FoldsTo(g, {}, Reduced, Zero, Adding(f, {})) /\ SumOn(f, {}) = g[{}]
  BY <1>1, SumFolds
<1>3. QED  BY <1>2 DEF FoldsTo

LEMMA SumValue ==
    ASSUME NEW S, IsFiniteSet(S), NEW f, Values(f, S)
    PROVE  SumOn(f, S) \in Reduced
<1>1. PICK g : FoldsTo(g, S, Reduced, Zero, Adding(f, S)) /\ SumOn(f, S) = g[S]
  BY SumFolds
<1>2. QED  BY <1>1 DEF FoldsTo

LEMMA SumMore ==
    ASSUME NEW T, IsFiniteSet(T), NEW x, x \notin T, NEW f, Values(f, T), f[x] \in Reduced,
           NEW more, more = T \union {x}
    PROVE  /\ SumOn(f, more) = Add(f[x], SumOn(f, T))
           /\ f[x] \in Reduced /\ SumOn(f, T) \in Reduced
<1> DEFINE S == T \union {x}
           adf == Adding(f, S)
           adh == Adding(f, T)
           zero == Zero
<1>1. IsFiniteSet(S) /\ x \in S /\ T \in SUBSET S /\ T \subseteq T /\ T \subseteq S /\ more = S
  BY FS_AddElement
<1>2. Values(f, S)
  BY DEF Values
<1>3. PICK g : FoldsTo(g, S, Reduced, zero, adf) /\ SumOn(f, S) = g[S]
  BY <1>1, <1>2, SumFolds
<1>4. PICK k : FoldsTo(k, T, Reduced, zero, adh) /\ SumOn(f, T) = k[T]
  BY SumFolds
<1>5. adf \in Commuting(S, Reduced)
  BY <1>2, AddingCommutes
<1>6. Alike(adh, adf, T)
  BY DEF Adding, Alike
<1>7. g[S] = adf[x][g[T]] /\ g[T] = k[T]
  <2> HIDE DEF adf, adh, S, zero
  <2>1. g[T \union {x}] = adf[x][g[T]]
    BY <1>1, <1>3, <1>5, FoldAdds
  <2>2. k[T] = g[T]
    BY <1>1, <1>3, <1>4, <1>6, FoldUnique
  <2>3. QED  BY <2>1, <2>2 DEF S
<1>8. g[T] \in Reduced
  <2> HIDE DEF adf, S
  <2>1. QED  BY <1>1, <1>3 DEF FoldsTo
<1>9. adf[x][g[T]] = Add(f[x], g[T])
  BY <1>1, <1>8 DEF Adding
<1>10. QED  BY <1>1, <1>3, <1>4, <1>7, <1>8, <1>9

LEMMA SumAgrees ==
    ASSUME NEW S, IsFiniteSet(S), NEW f, Values(f, S), NEW h, \A x \in S : h[x] = f[x]
    PROVE  SumOn(h, S) = SumOn(f, S)
<1> DEFINE adf == Adding(f, S)
           adh == Adding(h, S)
<1>1. PICK g : FoldsTo(g, S, Reduced, Zero, adf) /\ SumOn(f, S) = g[S]
  BY SumFolds
<1>2. Values(h, S)
  BY DEF Values
<1>3. PICK k : FoldsTo(k, S, Reduced, Zero, adh) /\ SumOn(h, S) = k[S]
  BY <1>2, SumFolds
<1>4. Alike(adf, adh, S) /\ S \subseteq S
  BY DEF Adding, Alike
<1> HIDE DEF adf, adh
<1>5. g[S] = k[S]
  BY <1>1, <1>3, <1>4, FoldUnique
<1>6. QED  BY <1>1, <1>3, <1>5

(* A sum of sums, of differences, and of multiples. *)
LEMMA SumOfSums ==
    ASSUME NEW S, IsFiniteSet(S), NEW f, NEW h, Values(f, S), Values(h, S),
           NEW k, \A x \in S : k[x] = Add(f[x], h[x])
    PROVE  SumOn(k, S) = Add(SumOn(f, S), SumOn(h, S))
<1> DEFINE G == {T \in SUBSET S : SumOn(k, T) = Add(SumOn(f, T), SumOn(h, T))}
<1>1. {} \in G
  BY SumNone, ZeroReduced, AddZero
<1>2. ASSUME NEW T \in SUBSET S, NEW x \in S \ T, T \in G
      PROVE  T \union {x} \in G
  <2>1. IsFiniteSet(T)
    BY FS_Subset
  <2>2. Values(f, T) /\ Values(h, T) /\ f[x] \in Reduced /\ h[x] \in Reduced
    BY DEF Values
  <2>3. Values(k, T) /\ k[x] \in Reduced
    BY <2>2, AddType DEF Values
  <2> DEFINE a == f[x]
             b == h[x]
             p == SumOn(f, T)
             q == SumOn(h, T)
             more == T \union {x}
  <2>4. SumOn(f, more) = Add(a, p) /\ a \in Reduced /\ p \in Reduced
    BY <2>1, <2>2, SumMore
  <2>5. SumOn(h, more) = Add(b, q) /\ b \in Reduced /\ q \in Reduced
    BY <2>1, <2>2, SumMore
  <2>6. SumOn(k, more) = Add(k[x], SumOn(k, T))
    BY <2>1, <2>3, SumMore
  <2>7. k[x] = Add(a, b) /\ SumOn(k, T) = Add(p, q)
    BY <1>2
  <2> HIDE DEF a, b, p, q
  <2>8. Add(Add(a, b), Add(p, q)) = Add(Add(a, p), Add(b, q))
    BY <2>4, <2>5, AddPairs
  <2>9. QED  BY <2>4, <2>5, <2>6, <2>7, <2>8
<1> HIDE DEF G
<1>3. S \in G
  BY <1>1, <1>2, FromEmpty
<1>4. QED  BY <1>3 DEF G

LEMMA SumOfMultiples ==
    ASSUME NEW S, IsFiniteSet(S), NEW f, Values(f, S), NEW c \in Reduced,
           NEW k, \A x \in S : k[x] = Mul(c, f[x])
    PROVE  SumOn(k, S) = Mul(c, SumOn(f, S))
<1> DEFINE G == {T \in SUBSET S : SumOn(k, T) = Mul(c, SumOn(f, T))}
<1>1. {} \in G
  BY SumNone, ZeroReduced, MulSign
<1>2. ASSUME NEW T \in SUBSET S, NEW x \in S \ T, T \in G
      PROVE  T \union {x} \in G
  <2>1. IsFiniteSet(T)
    BY FS_Subset
  <2>2. Values(f, T) /\ f[x] \in Reduced
    BY DEF Values
  <2>3. Values(k, T) /\ k[x] \in Reduced
    BY <2>2, MulType DEF Values
  <2> DEFINE a == f[x]
             p == SumOn(f, T)
             more == T \union {x}
  <2>4. SumOn(f, more) = Add(a, p) /\ a \in Reduced /\ p \in Reduced
    BY <2>1, <2>2, SumMore
  <2>5. SumOn(k, more) = Add(k[x], SumOn(k, T))
    BY <2>1, <2>3, SumMore
  <2>6. k[x] = Mul(c, a) /\ SumOn(k, T) = Mul(c, p)
    BY <1>2
  <2> HIDE DEF a, p
  <2>7. Mul(c, Add(a, p)) = Add(Mul(c, a), Mul(c, p))
    BY <2>4, MulSpreads
  <2>8. QED  BY <2>4, <2>5, <2>6, <2>7
<1> HIDE DEF G
<1>3. S \in G
  BY <1>1, <1>2, FromEmpty
<1>4. QED  BY <1>3 DEF G

(* A sum of nothing but zeros, and one of a single other term. *)
LEMMA SumOfZeros ==
    ASSUME NEW S, IsFiniteSet(S), NEW f, \A x \in S : f[x] = Zero
    PROVE  SumOn(f, S) = Zero
<1> DEFINE G == {T \in SUBSET S : SumOn(f, T) = Zero}
<1>1. {} \in G
  BY SumNone
<1>2. ASSUME NEW T \in SUBSET S, NEW x \in S \ T, T \in G
      PROVE  T \union {x} \in G
  <2>1. IsFiniteSet(T) /\ Values(f, T) /\ f[x] = Zero /\ Zero \in Reduced
    BY FS_Subset, ZeroReduced DEF Values
  <2>2. SumOn(f, T \union {x}) = Add(f[x], SumOn(f, T))
    BY <2>1, SumMore
  <2>3. QED  BY <1>2, <2>1, <2>2, AddZero
<1> HIDE DEF G
<1>3. S \in G
  BY <1>1, <1>2, FromEmpty
<1>4. QED  BY <1>3 DEF G

LEMMA SumOfOne ==
    ASSUME NEW S, IsFiniteSet(S), NEW x \in S, NEW f, f[x] \in Reduced,
           \A y \in S \ {x} : f[y] = Zero
    PROVE  SumOn(f, S) = f[x]
<1> DEFINE T == S \ {x}
<1>1. IsFiniteSet(T) /\ x \notin T /\ S = T \union {x}
  BY FS_Subset
<1>2. Values(f, T)
  BY ZeroReduced DEF Values
<1>3. SumOn(f, T) = Zero
  BY <1>1, SumOfZeros
<1>4. SumOn(f, S) = Add(f[x], SumOn(f, T))
  <2> HIDE DEF T
  <2>1. QED  BY <1>1, <1>2, SumMore
<1>5. QED  BY <1>3, <1>4, AddZero

LEMMA SumSign ==
    ASSUME NEW S, IsFiniteSet(S), NEW f, Values(f, S), \A x \in S : f[x].num >= 0
    PROVE  SumOn(f, S).num >= 0
<1> DEFINE G == {T \in SUBSET S : SumOn(f, T).num >= 0}
<1>1. {} \in G
  BY SumNone, ZeroReduced
<1>2. ASSUME NEW T \in SUBSET S, NEW x \in S \ T, T \in G
      PROVE  T \union {x} \in G
  <2>1. IsFiniteSet(T) /\ Values(f, T) /\ f[x] \in Reduced /\ f[x].num >= 0
    BY FS_Subset DEF Values
  <2> DEFINE a == f[x]
             p == SumOn(f, T)
  <2>2. SumOn(f, T \union {x}) = Add(a, p) /\ a \in Reduced /\ p \in Reduced
    BY <2>1, SumMore
  <2>3. a.num >= 0 /\ p.num >= 0
    BY <1>2, <2>1
  <2> HIDE DEF a, p
  <2>4. Add(a, p).num >= 0
    BY <2>2, <2>3, AddSign
  <2>5. QED  BY <2>2, <2>4
<1> HIDE DEF G
<1>3. S \in G
  BY <1>1, <1>2, FromEmpty
<1>4. QED  BY <1>3 DEF G

(* Two disjoint parts. *)
LEMMA SumParts ==
    ASSUME NEW S, IsFiniteSet(S), NEW R, IsFiniteSet(R), S \intersect R = {},
           NEW f, Values(f, S \union R)
    PROVE  SumOn(f, S \union R) = Add(SumOn(f, S), SumOn(f, R))
<1> DEFINE G == {T \in SUBSET S : SumOn(f, T \union R) = Add(SumOn(f, T), SumOn(f, R))}
<1>0. Values(f, R)
  BY DEF Values
<1>5. SumOn(f, R) \in Reduced
  BY <1>0, SumValue
<1>1. {} \in G
  <2>1. {} \union R = R
    OBVIOUS
  <2>2. QED  BY <1>5, <2>1, SumNone, AddZero
<1>2. ASSUME NEW T \in SUBSET S, NEW x \in S \ T, T \in G
      PROVE  T \union {x} \in G
  <2> DEFINE U == T \union R
             a == f[x]
             p == SumOn(f, T)
             q == SumOn(f, R)
             more == U \union {x}
  <2>1. IsFiniteSet(T) /\ Values(f, T) /\ f[x] \in Reduced
    BY FS_Subset DEF Values
  <2>2. IsFiniteSet(U) /\ x \notin U /\ Values(f, U) /\ (T \union {x}) \union R = more
    BY <2>1, FS_Union DEF Values
  <2>3. SumOn(f, T \union {x}) = Add(a, p) /\ a \in Reduced /\ p \in Reduced
    BY <2>1, SumMore
  <2>4. SumOn(f, more) = Add(a, SumOn(f, U))
    <3> HIDE DEF U
    <3>1. QED  BY <2>1, <2>2, SumMore
  <2>5. SumOn(f, U) = Add(p, q) /\ q \in Reduced
    BY <1>2, <1>5
  <2> HIDE DEF a, p, q, U
  <2>6. Add(a, Add(p, q)) = Add(Add(a, p), q)
    BY <2>3, <2>5, AddGroups
  <2>7. QED  BY <2>2, <2>3, <2>4, <2>5, <2>6 DEF q
<1> HIDE DEF G
<1>3. S \in G
  BY <1>1, <1>2, FromEmpty
<1>4. QED  BY <1>3 DEF G

(* Terms may be named otherwise. *)
LEMMA SumRenamed ==
    ASSUME NEW S, IsFiniteSet(S), NEW f, NEW h, NEW R, NEW p \in [S -> R],
           \A x \in S, y \in S : p[x] = p[y] => x = y,
           \A z \in R : \E x \in S : p[x] = z,
           Values(h, R), \A x \in S : f[x] = h[p[x]]
    PROVE  SumOn(f, S) = SumOn(h, R)
<1> DEFINE I(T) == {p[x] : x \in T}
           G == {T \in SUBSET S : IsFiniteSet(I(T)) /\ SumOn(f, T) = SumOn(h, I(T))}
<1>1. {} \in G
  <2>1. I({}) = {}
    OBVIOUS
  <2>2. QED  BY <2>1, SumNone, FS_EmptySet
<1>2. ASSUME NEW T \in SUBSET S, NEW x \in S \ T, T \in G
      PROVE  T \union {x} \in G
  <2>1. IsFiniteSet(T) /\ Values(f, T) /\ f[x] \in Reduced
    BY FS_Subset DEF Values
  <2>2. I(T \union {x}) = I(T) \union {p[x]} /\ p[x] \notin I(T) /\ I(T) \subseteq R /\ p[x] \in R
    OBVIOUS
  <2> DEFINE J == I(T)
             z == p[x]
             more == J \union {z}
  <2>3. /\ IsFiniteSet(J) /\ SumOn(f, T) = SumOn(h, J)
        /\ I(T \union {x}) = more /\ z \notin J /\ Values(h, J) /\ h[z] \in Reduced /\ f[x] = h[z]
    BY <1>2, <2>2 DEF Values
  <2>4. SumOn(f, T \union {x}) = Add(f[x], SumOn(f, T))
    BY <2>1, SumMore
  <2>5. SumOn(h, more) = Add(h[z], SumOn(h, J)) /\ IsFiniteSet(more)
    <3> HIDE DEF J, z
    <3>1. IsFiniteSet(more)
      BY <2>3, FS_AddElement
    <3>2. QED  BY <2>3, <3>1, SumMore
  <2>6. QED  BY <2>3, <2>4, <2>5
<1>3. I(S) = R
  OBVIOUS
<1>4. S \in G
  <2> HIDE DEF G
  <2>1. QED  BY <1>1, <1>2, FromEmpty
<1>5. QED  BY <1>3, <1>4

----------------------------------------------------------------------------
(* The elements of a finite set of numbers in their order. *)

LEMMA RankRises ==
    ASSUME NEW S \in SUBSET Nat, IsFiniteSet(S)
    PROVE  /\ \A b \in S : Rank(b, S) \in 1..Cardinality(S)
           /\ \A b \in S, d \in S : b < d => Rank(b, S) < Rank(d, S)
<1> DEFINE Upto(b) == {d \in S : d <= b}
<1>1. \A b \in S : Rank(b, S) = Cardinality(Upto(b))
  BY DEF Rank
<1>2. Cardinality(S) \in Nat
  BY FS_CardinalityType
<1>3. ASSUME NEW b \in S
      PROVE  IsFiniteSet(Upto(b)) /\ Cardinality(Upto(b)) \in 1..Cardinality(S)
  <2>1. Upto(b) \in SUBSET S /\ b \in Upto(b)
    OBVIOUS
  <2>2. IsFiniteSet(Upto(b)) /\ Cardinality(Upto(b)) <= Cardinality(S)
    BY <2>1, FS_Subset
  <2>3. Cardinality(Upto(b)) \in Nat /\ Cardinality(Upto(b)) # 0
    BY <2>1, <2>2, FS_CardinalityType, FS_EmptySet
  <2>4. QED  BY <1>2, <2>2, <2>3
<1>4. ASSUME NEW b \in S, NEW d \in S, b < d
      PROVE  Cardinality(Upto(b)) < Cardinality(Upto(d))
  <2>5. b \in Nat /\ d \in Nat /\ \A x \in S : x \in Nat
    OBVIOUS
  <2>6. d <= d /\ ~(d <= b) /\ \A x \in S : x <= b => x <= d
    BY <1>4, <2>5
  <2>1. Upto(b) \in SUBSET Upto(d) /\ d \in Upto(d) /\ d \notin Upto(b)
    BY <2>6
  <2>2. Cardinality(Upto(b)) <= Cardinality(Upto(d)) /\ Cardinality(Upto(d)) # Cardinality(Upto(b))
    BY <1>3, <2>1, FS_Subset
  <2>3. Cardinality(Upto(b)) \in Nat /\ Cardinality(Upto(d)) \in Nat
    BY <1>3, FS_CardinalityType
  <2>4. QED  BY <2>2, <2>3
<1>5. QED  BY <1>1, <1>3, <1>4

LEMMA RankOne ==
    ASSUME NEW S \in SUBSET Nat, IsFiniteSet(S), NEW b \in S, NEW d \in S, Rank(b, S) = Rank(d, S)
    PROVE  b = d
<1>1. Cardinality(S) \in Nat
  BY FS_CardinalityType
<1>2. Rank(b, S) \in 1..Cardinality(S)
  BY RankRises
<1>3. ~(b < d) /\ ~(d < b)
  BY <1>1, <1>2, RankRises
<1>4. b \in Nat /\ d \in Nat
  OBVIOUS
<1>5. QED  BY <1>3, <1>4

LEMMA RankReached ==
    ASSUME NEW S \in SUBSET Nat, IsFiniteSet(S), NEW i \in 1..Cardinality(S)
    PROVE  \E b \in S : Rank(b, S) = i
<1> DEFINE n == Cardinality(S)
           f == [b \in S |-> Rank(b, S)]
<1>1. n \in Nat
  BY FS_CardinalityType
<1>2. IsFiniteSet(1..n) /\ Cardinality(1..n) = n
  BY <1>1, FS_Interval
<1>3. f \in [S -> 1..n]
  BY RankRises
<1>4. ASSUME NEW b \in S, NEW d \in S, f[b] = f[d] PROVE b = d
  BY <1>4, RankOne
<1>5. f \in Injection(S, 1..n)
  BY <1>3, <1>4 DEF Injection, IsInjective
<1>6. f \in Surjection(S, 1..n)
  BY <1>2, <1>5, FS_Injection
<1>7. \A k \in 1..n : \E b \in S : f[b] = k
  BY <1>6 DEF Surjection
<1>8. QED  BY <1>7

(* The elements by rank ascend, and are all there. *)
LEMMA InOrder ==
    ASSUME NEW S \in SUBSET Nat, IsFiniteSet(S)
    PROVE  LET seq == [i \in 1..Cardinality(S) |-> CHOOSE b \in S : Rank(b, S) = i]
           IN  /\ \A i \in DOMAIN seq : seq[i] \in S
               /\ \A i \in DOMAIN seq, k \in DOMAIN seq : i < k => seq[i] < seq[k]
               /\ \A b \in S : \E i \in DOMAIN seq : seq[i] = b
<1> DEFINE seq == [i \in 1..Cardinality(S) |-> CHOOSE b \in S : Rank(b, S) = i]
<1>1. Cardinality(S) \in Nat
  BY FS_CardinalityType
<1>2. ASSUME NEW i \in 1..Cardinality(S) PROVE seq[i] \in S /\ Rank(seq[i], S) = i
  BY RankReached
<1>3. ASSUME NEW i \in 1..Cardinality(S), NEW k \in 1..Cardinality(S), i < k PROVE seq[i] < seq[k]
  <2>1. PICK x \in S, y \in S : x = seq[i] /\ y = seq[k] /\ Rank(x, S) = i /\ Rank(y, S) = k
    BY <1>2
  <2>2. x \in Nat /\ y \in Nat /\ i \in Nat /\ k \in Nat
    BY <1>1
  <2>3. ~(y < x) /\ x # y
    BY <1>3, <2>1, <2>2, RankRises
  <2>4. x < y
    BY <2>2, <2>3
  <2>5. QED  BY <2>1, <2>4
<1>4. ASSUME NEW b \in S PROVE \E i \in 1..Cardinality(S) : seq[i] = b
  <2>1. Rank(b, S) \in 1..Cardinality(S)
    BY RankRises
  <2>2. seq[Rank(b, S)] \in S /\ Rank(seq[Rank(b, S)], S) = Rank(b, S)
    BY <1>2, <2>1
  <2>3. seq[Rank(b, S)] = b
    BY <2>2, RankOne
  <2>4. QED  BY <2>1, <2>3
<1>5. QED  BY <1>2, <1>3, <1>4

(* The largest element is one. *)
----------------------------------------------------------------------------
(* The bars of a call. *)

LEMMA BarNumbers ==
    Bars \in Nat /\ Bar \subseteq Nat /\ \A b \in Bar : b \in Nat /\ 1..b \subseteq Bar
<1>1. Bars \in Nat
  BY BacktestAssumption
<1>2. QED  BY <1>1 DEF Bar

LEMMA BarsInOrder ==
    ASSUME NEW c \in Call
    PROVE  /\ DOMAIN Common(c) = 1..Len(Common(c)) /\ Len(Common(c)) \in Nat
           /\ \A i \in DOMAIN Common(c) : Common(c)[i] \in Both(c)
           /\ \A i \in DOMAIN Common(c), k \in DOMAIN Common(c) : i < k => Common(c)[i] < Common(c)[k]
           /\ \A b \in Both(c) : \E i \in DOMAIN Common(c) : Common(c)[i] = b
<1> DEFINE S == Both(c)
<1>7. S \in SUBSET Bar
  BY DEF Both
<1>8. Bars \in Nat
  BY BacktestAssumption
<1>1. S \in SUBSET Bar /\ IsFiniteSet(Bar) /\ Bar \subseteq Nat
  BY <1>7, <1>8, FS_Interval DEF Bar
<1>2. S \in SUBSET Nat /\ IsFiniteSet(S) /\ Cardinality(S) \in Nat
  BY <1>1, FS_Subset, FS_CardinalityType
<1>3. Common(c) = [i \in 1..Cardinality(S) |-> CHOOSE b \in S : Rank(b, S) = i]
  BY DEF Common
<1> HIDE DEF S
<1>4. /\ \A i \in DOMAIN Common(c) : Common(c)[i] \in S
      /\ \A i \in DOMAIN Common(c), k \in DOMAIN Common(c) : i < k => Common(c)[i] < Common(c)[k]
      /\ \A b \in S : \E i \in DOMAIN Common(c) : Common(c)[i] = b
  BY <1>2, <1>3, InOrder
<1>5. DOMAIN Common(c) = 1..Cardinality(S) /\ Len(Common(c)) = Cardinality(S)
  BY <1>2, <1>3
<1>6. QED  BY <1>2, <1>4, <1>5 DEF S

(* The tables of the two calls have the same bars. *)
LEMMA SameBars ==
    ASSUME NEW c \in Call, NEW d \in Call
    PROVE  /\ \A b \in Bar : Signals(c, b) = None <=> Signals(d, b) = None
           /\ Both(c) = Both(d) /\ Squared(c) = Squared(d) /\ Common(c) = Common(d)
<1>1. \A b \in Bar : /\ Signals(c, b) = None <=> Signals(d, b) = None
                     /\ Prices(c, b) = None <=> Prices(d, b) = None
  BY BacktestAssumption DEF Signals, Later, Prices
<1>2. Both(c) = Both(d)
  BY <1>1 DEF Both
<1>3. Squared(c) = Squared(d)
  BY <1>1 DEF Squared
<1>4. QED  BY <1>1, <1>2, <1>3 DEF Common

(* And the same entries, up to the cut. *)
LEMMA SameEntries ==
    ASSUME NEW c \in Call, NEW d \in Call, NEW b \in Bar, cut \in Bar
    PROVE  /\ b < cut => Signals(c, b) = Signals(d, b) /\ Target(c, b) = Target(d, b)
           /\ b <= cut => Prices(c, b) = Prices(d, b) /\ Spreads(c, b) = Spreads(d, b)
<1>5. /\ b < cut => ~(b >= cut)
      /\ b <= cut => ~(b > cut)
  BY BacktestAssumption DEF Bar
<1>1. b < cut => Signals(c, b) = Signals(d, b)
  BY <1>5 DEF Signals
<1>2. Squared(c) = Squared(d)
  BY SameBars
<1>3. b < cut => Target(c, b) = Target(d, b)
  BY <1>1, <1>2 DEF Target
<1>4. b <= cut => Prices(c, b) = Prices(d, b) /\ Spreads(c, b) = Spreads(d, b)
  BY <1>5 DEF Prices, Spreads
<1>6. QED  BY <1>1, <1>3, <1>4

----------------------------------------------------------------------------
(* What the operations of an iteration look at. *)

Weights(c) == [i \in DOMAIN Common(c) |-> Target(c, Common(c)[i])]

LEMMA EarlierBars ==
    ASSUME NEW c \in Call, NEW d \in Call, cut \in Bar,
           NEW i \in DOMAIN Common(c), Common(c)[i] <= cut
    PROVE  /\ i \in Nat /\ i >= 1
           /\ \A k \in 1..i : k \in DOMAIN Common(c) /\ Common(c)[k] \in Bar
           /\ \A k \in 1..i : Prices(c, Common(c)[k]) = Prices(d, Common(c)[k])
           /\ \A k \in 1..i : k < i => Target(c, Common(c)[k]) = Target(d, Common(c)[k])
<1>1. /\ DOMAIN Common(c) = 1..Len(Common(c)) /\ Len(Common(c)) \in Nat
      /\ \A k \in DOMAIN Common(c) : Common(c)[k] \in Bar
      /\ \A k \in DOMAIN Common(c) : k < i => Common(c)[k] < Common(c)[i]
  BY BarsInOrder DEF Both
<1>2. i \in Nat /\ i >= 1 /\ \A k \in 1..i : k \in DOMAIN Common(c) /\ (k = i \/ k < i)
  BY <1>1
<1>3. ASSUME NEW k \in 1..i
      PROVE  /\ Prices(c, Common(c)[k]) = Prices(d, Common(c)[k])
             /\ k < i => Target(c, Common(c)[k]) = Target(d, Common(c)[k])
  <2>1. k \in DOMAIN Common(c) /\ (k = i \/ k < i)
    BY <1>2
  <2>2. PICK x \in Bar, y \in Bar : x = Common(c)[k] /\ y = Common(c)[i]
    BY <1>1, <2>1
  <2>3. x \in Nat /\ y \in Nat /\ cut \in Nat
    BY BacktestAssumption DEF Bar
  <2>4. y <= cut /\ (k < i => x < y) /\ (k = i => x = y)
    BY <1>1, <2>1, <2>2
  <2>5. x <= cut /\ (k < i => x < cut)
    BY <2>1, <2>3, <2>4
  <2>6. QED  BY <2>2, <2>5, SameEntries
<1>4. QED  BY <1>1, <1>2, <1>3

LEMMA SameReturn ==
    ASSUME NEW c \in Call, NEW d \in Call, cut \in Bar,
           NEW i \in DOMAIN Common(c), Common(c)[i] <= cut, NEW s \in Symbol
    PROVE  Return(c, Common(c), i, s) = Return(d, Common(c), i, s)
<1> DEFINE bars == Common(c)
<1>1. i \in Nat /\ i >= 1 /\ \A k \in 1..i : Prices(c, bars[k]) = Prices(d, bars[k])
  BY EarlierBars
<1> HIDE DEF bars
<1>2. ASSUME NEW j \in Nat, j <= i PROVE LastPrice(c, bars, j, s) = LastPrice(d, bars, j, s)
  <2> DEFINE quoted == {k \in 1..j : Prices(c, bars[k])[s] # None}
  <2>1. \A k \in 1..j : k \in 1..i
    BY <1>1, <1>2
  <2>2. quoted = {k \in 1..j : Prices(d, bars[k])[s] # None}
    BY <1>1, <2>1
  <2>3. quoted # {} => Max(quoted) \in quoted
    <3>1. quoted \in SUBSET (1..j) /\ quoted \in SUBSET Nat
      BY <1>2
    <3>2. IsFiniteSet(1..j)
      BY FS_Interval
    <3>3. IsFiniteSet(quoted)
      BY <3>1, <3>2, FS_Subset
    <3>4. QED  BY <3>1, <3>3, MaxFound
  <2>4. quoted # {} => Prices(c, bars[Max(quoted)]) = Prices(d, bars[Max(quoted)])
    BY <1>1, <2>1, <2>3
  <2> HIDE DEF quoted
  <2>5. LastPrice(c, bars, j, s) = IF quoted = {} THEN None ELSE Prices(c, bars[Max(quoted)])[s]
    BY DEF LastPrice, quoted
  <2>6. LastPrice(d, bars, j, s) = IF quoted = {} THEN None ELSE Prices(d, bars[Max(quoted)])[s]
    BY <2>2 DEF LastPrice
  <2>7. QED  BY <2>4, <2>5, <2>6
<1>3. LastPrice(c, bars, i, s) = LastPrice(d, bars, i, s)
  BY <1>1, <1>2
<1>4. i # 1 => LastPrice(c, bars, i - 1, s) = LastPrice(d, bars, i - 1, s)
  BY <1>1, <1>2
<1>5. Prices(c, bars[i]) = Prices(d, bars[i]) /\ (i # 1 => Prices(c, bars[i - 1]) = Prices(d, bars[i - 1]))
  BY <1>1
<1>6. CASE i = 1
  BY <1>6 DEF Return, bars
<1>7. CASE i # 1
  <2> DEFINE now(x) == IF pads THEN LastPrice(x, bars, i, s) ELSE Prices(x, bars[i])[s]
             then(x) == IF pads THEN LastPrice(x, bars, i - 1, s) ELSE Prices(x, bars[i - 1])[s]
  <2>1. now(c) = now(d) /\ then(c) = then(d)
    BY <1>3, <1>4, <1>5, <1>7
  <2>2. \A x \in Call : Return(x, bars, i, s) =
           IF now(x) = None \/ then(x) = None THEN Zero ELSE Ratio(now(x) - then(x), then(x))
    BY <1>7 DEF Return
  <2> HIDE DEF now, then
  <2>3. Return(c, bars, i, s) = Return(d, bars, i, s)
    BY <2>1, <2>2
  <2>4. QED  BY <2>3 DEF bars
<1>8. QED  BY <1>6, <1>7

(* What the weights held earn at a bar up to the cut. *)
LEMMA SameGrowth ==
    ASSUME NEW c \in Call, NEW d \in Call, cut \in Bar,
           NEW i \in DOMAIN Common(c), Common(c)[i] <= cut, NEW v
    PROVE  /\ Held(Weights(c), i) = Held(Weights(d), i)
           /\ Grown(c, Common(c), Weights(c), i, v) = Grown(d, Common(c), Weights(d), i, v)
<1>1. Common(d) = Common(c)
  BY SameBars
<1>2. Held(Weights(c), i) = Held(Weights(d), i)
  <2>1. CASE i = 1
    BY <2>1 DEF Held
  <2>2. CASE i # 1
    <3>1. i - 1 \in 1..i /\ i - 1 < i
      BY <2>2, EarlierBars
    <3>2. i - 1 \in DOMAIN Common(c) /\ Target(c, Common(c)[i - 1]) = Target(d, Common(c)[i - 1])
      BY <3>1, EarlierBars
    <3>3. Weights(c)[i - 1] = Weights(d)[i - 1]
      BY <1>1, <3>2 DEF Weights
    <3>4. QED  BY <2>2, <3>3 DEF Held
  <2>3. QED  BY <2>1, <2>2
<1>3. \A s \in Symbol : Return(c, Common(c), i, s) = Return(d, Common(c), i, s)
  BY SameReturn
<1> DEFINE earns(x, w) == [s \in Symbol |-> Mul(Ratio(w[s], WeightUnit), Return(x, Common(c), i, s))]
<1>4. earns(c, Held(Weights(c), i)) = earns(d, Held(Weights(d), i))
  BY <1>2, <1>3
<1>5. \A x \in Call : Grown(x, Common(c), Weights(x), i, v) =
         Mul(v, Add(Whole(1), Sum(earns(x, Held(Weights(x), i)))))
  BY DEF Grown
<1> HIDE DEF earns
<1>6. Grown(c, Common(c), Weights(c), i, v) = Grown(d, Common(c), Weights(d), i, v)
  BY <1>4, <1>5
<1>7. QED  BY <1>2, <1>6

(* The rows of spreads that are looked up are those of bars. *)
LEMMA LookedUp ==
    ASSUME NEW b \in Bar
    PROVE  AsOf(b) \in SUBSET Bar /\ AsOf(b) \in SUBSET Nat /\ IsFiniteSet(AsOf(b))
<1>1. Bars \in Nat
  BY BacktestAssumption
<1>2. AsOf(b) \in SUBSET Bar
  BY DEF AsOf
<1>3. IsFiniteSet(Bar) /\ Bar \in SUBSET Nat
  BY <1>1, FS_Interval DEF Bar
<1>4. IsFiniteSet(AsOf(b))
  BY <1>2, <1>3, FS_Subset
<1>5. QED  BY <1>2, <1>3, <1>4

(* What is settled, and the bars that come before it. *)
LEMMA SettledBefore ==
    ASSUME cut \in Bar, NEW b \in Bar, Settled(b)
    PROVE  /\ b \in Nat /\ cut \in Nat /\ b < cut /\ b <= cut
           /\ \A e \in Bar : e < b => Settled(e)
           /\ \A e \in AsOf(b) : e \in Bar /\ e <= cut
<1>1. /\ \A e \in Bar : e \in Nat /\ Session[e] \in Nat
      /\ \A e, f \in Bar : e < f => Session[e] <= Session[f]
  <2>1. \A e \in Bar : e \in Nat
    BY BarNumbers
  <2>2. \A e \in Bar : Session[e] \in Nat
    BY BacktestAssumption
  <2>3. \A e, f \in Bar : e < f => Session[e] <= Session[f]
    BY BacktestAssumption
  <2>4. QED  BY <2>1, <2>2, <2>3
<1>2. b \in Nat /\ cut \in Nat /\ b < cut /\ b <= cut
  BY <1>1 DEF Settled
<1>3. \A e \in Bar : Session[e] < Session[b] => e < b
  BY <1>1
<1>4. by_date => \A e \in Bar : Session[e] = Session[b] => e <= cut
  BY DEF Settled
<1>5. ASSUME NEW e \in Bar, e < b PROVE Settled(e)
  <2>1. e < cut /\ Session[e] <= Session[b]
    BY <1>1, <1>2, <1>5
  <2>2. ASSUME by_date, NEW f \in Bar, Session[f] = Session[e] PROVE f <= cut
    <3>1. Session[f] = Session[b] \/ Session[f] < Session[b]
      BY <1>1, <2>1, <2>2
    <3>2. CASE Session[f] = Session[b]
      BY <1>4, <2>2, <3>2
    <3>3. CASE Session[f] < Session[b]
      BY <1>1, <1>2, <1>3, <3>3
    <3>4. QED  BY <3>1, <3>2, <3>3
  <2>3. QED  BY <2>1, <2>2 DEF Settled
<1>6. ASSUME NEW e \in AsOf(b) PROVE e \in Bar /\ e <= cut
  <2>1. e \in Bar /\ (Session[e] < Session[b] \/ (by_date /\ Session[e] <= Session[b]))
    BY <1>6 DEF AsOf
  <2>2. Session[e] < Session[b] \/ (by_date /\ Session[e] = Session[b])
    BY <1>1, <2>1
  <2>3. CASE Session[e] < Session[b]
    BY <1>1, <1>2, <1>3, <2>1, <2>3
  <2>4. CASE by_date /\ Session[e] = Session[b]
    BY <1>4, <2>1, <2>4
  <2>5. QED  BY <2>1, <2>2, <2>3, <2>4
<1>7. QED  BY <1>2, <1>5, <1>6

(* What is traded at a bar that is settled, and what it costs. *)
LEMMA SameTrades ==
    ASSUME NEW c \in Call, NEW d \in Call, cut \in Bar,
           NEW i \in DOMAIN Common(c), Settled(Common(c)[i]), NEW v, NEW x, NEW y
    PROVE  /\ Buys(Weights(c), i, v) = Buys(Weights(d), i, v)
           /\ Sells(Weights(c), i, v) = Sells(Weights(d), i, v)
           /\ Paid(c, Common(c)[i], v, x, y) = Paid(d, Common(c)[i], v, x, y)
<1> DEFINE b == Common(c)[i]
<1>10. b \in Bar
  BY BarsInOrder DEF Both
<1>1. b \in Bar /\ b \in Nat /\ cut \in Nat /\ Common(d) = Common(c)
  BY <1>10, SameBars, BarNumbers
<1>2. b <= cut /\ b < cut
  BY <1>10, SettledBefore
<1>3. Weights(c)[i] = Weights(d)[i]
  BY <1>1, <1>2, SameEntries DEF Weights
<1>4. Held(Weights(c), i) = Held(Weights(d), i)
  BY <1>2, SameGrowth
<1>5. /\ Buys(Weights(c), i, v) = Buys(Weights(d), i, v)
      /\ Sells(Weights(c), i, v) = Sells(Weights(d), i, v)
  BY <1>3, <1>4 DEF Buys, Sells
<1>6. \A e \in AsOf(b) : Spreads(c, e) = Spreads(d, e)
  BY <1>10, SettledBefore, SameEntries
<1> HIDE DEF b
<1>7. slippage_cost(c, b, x, y) = slippage_cost(d, b, x, y)
  <2> DEFINE dated == {e \in AsOf(b) : Spreads(c, e) # None}
             quoted(z, s) == IF dated = {} THEN None ELSE Spreads(z, Max(dated))[s]
             cost(z) == [s \in Symbol |->
                            Mul(Add(x[s], y[s]),
                                Ratio(IF quoted(z, s) = None THEN default_bps ELSE quoted(z, s),
                                      2 * RateUnit))]
  <2>1. dated = {e \in AsOf(b) : Spreads(d, e) # None}
    BY <1>6
  <2>2. dated # {} => Max(dated) \in dated
    <3>1. AsOf(b) \in SUBSET Nat /\ IsFiniteSet(AsOf(b))
      BY <1>1, LookedUp
    <3>2. dated \in SUBSET AsOf(b) /\ dated \in SUBSET Nat
      BY <3>1
    <3>3. IsFiniteSet(dated)
      BY <3>1, <3>2, FS_Subset
    <3> HIDE DEF dated
    <3>4. QED  BY <3>2, <3>3, MaxFound
  <2>3. dated # {} => Spreads(c, Max(dated)) = Spreads(d, Max(dated))
    BY <1>6, <2>2
  <2>4. slippage_cost(c, b, x, y) = Sum(cost(c))
    BY DEF slippage_cost
  <2>5. slippage_cost(d, b, x, y) = Sum(cost(d))
    BY <2>1 DEF slippage_cost
  <2> HIDE DEF dated
  <2>6. \A s \in Symbol : quoted(c, s) = quoted(d, s)
    BY <2>3
  <2> HIDE DEF quoted
  <2>7. cost(c) = cost(d)
    BY <2>6
  <2>8. QED  BY <2>4, <2>5, <2>7
<1>8. Paid(c, b, v, x, y) = Paid(d, b, v, x, y)
  BY <1>7 DEF Paid
<1>9. QED  BY <1>5, <1>8 DEF b

----------------------------------------------------------------------------
(* The recurrence. *)

(* A sequence of values of which nothing is known. *)
IsSeq(s) == Len(s) \in Nat /\ s = [i \in 1..Len(s) |-> s[i]]

(* The i-th bar of a call is computed from the one before it. *)
Done(c, r, i) ==
    LET value == Grown(c, Common(c), Weights(c), i, Before(r.net, i))
        buys  == Buys(Weights(c), i, value)
        sells == Sells(Weights(c), i, value)
    IN  /\ r.gross[i] = Grown(c, Common(c), Weights(c), i, Before(r.gross, i))
        /\ r.net[i] = Paid(c, Common(c)[i], value, buys, sells)
        /\ r.trades[i] = Traded(buys, sells)

Follows(c, r) ==
    /\ r = [bars |-> r.bars, weights |-> r.weights, gross |-> r.gross, net |-> r.net,
            trades |-> r.trades, raised |-> r.raised]
    /\ IsSeq(r.gross) /\ IsSeq(r.net) /\ IsSeq(r.trades)
    /\ Len(r.gross) = Len(r.net) /\ Len(r.trades) = Len(r.net)
    /\ \/ r.bars = <<>> /\ r.weights = <<>> /\ Len(r.net) = 0
       \/ r.bars = Common(c) /\ r.weights = Weights(c) /\ Len(r.net) <= Len(Common(c))
    /\ \A i \in 1..Len(r.net) : Done(c, r, i)

(* Two results say the same of a bar, as far as the cut allows. *)
Agree(r, q, i) ==
    LET b == Common(1)[i]
    IN  /\ b <= cut => r.gross[i] = q.gross[i]
        /\ Settled(b) => r.net[i] = q.net[i] /\ r.trades[i] = q.trades[i]

EngineInv ==
    /\ cut \in Bar
    /\ result = [c \in Call |-> result[c]]
    /\ \A c \in Call : Follows(c, result[c])
    /\ \A c \in Call, d \in Call : \A i \in 1..Len(result[c].net) :
          i <= Len(result[d].net) => Agree(result[c], result[d], i)

LEMMA Appended ==
    ASSUME NEW s, IsSeq(s), NEW e
    PROVE  /\ IsSeq(Append(s, e)) /\ Len(Append(s, e)) = Len(s) + 1
           /\ \A i \in 1..Len(s) : Append(s, e)[i] = s[i]
           /\ Append(s, e)[Len(s) + 1] = e
<1> DEFINE S == {s[i] : i \in 1..Len(s)} \union {e}
<1>1. s \in Seq(S) /\ e \in S
  BY DEF IsSeq
<1> HIDE DEF S
<1> DEFINE a == Append(s, e)
<1>2. /\ a \in Seq(S) /\ Len(a) = Len(s) + 1 /\ Len(s) \in Nat
      /\ \A i \in 1..Len(s) : a[i] = s[i]
      /\ a[Len(s) + 1] = e
  BY <1>1
<1> HIDE DEF a
<1>3. IsSeq(a)
  BY <1>2 DEF IsSeq
<1>4. QED  BY <1>2, <1>3 DEF a

(* Bar by bar, nothing later is looked at. *)
LEMMA AgreeOn ==
    ASSUME NEW c \in Call, NEW d \in Call, cut \in Bar, NEW r, NEW q,
           NEW n \in DOMAIN Common(c), n # 1 => Agree(r, q, n - 1),
           Done(c, r, n), Done(d, q, n)
    PROVE  Agree(r, q, n)
<1> DEFINE bars == Common(c)
           b    == bars[n]
<1>1. Common(1) = bars /\ Common(d) = bars
  BY SameBars DEF Call
<1>7. b \in Bar
  BY BarsInOrder DEF Both
<1>2. b \in Bar /\ b \in Nat /\ cut \in Nat
  BY <1>7, BarNumbers
<1>3. ASSUME b <= cut
      PROVE  /\ Before(r.gross, n) = Before(q.gross, n)
             /\ Settled(b) => Before(r.net, n) = Before(q.net, n)
  <2>1. CASE n = 1
    BY <2>1 DEF Before
  <2>2. CASE n # 1
    <3>1. n - 1 \in DOMAIN bars /\ bars[n - 1] \in Bar /\ n \in Nat
      BY <1>3, <2>2, EarlierBars
    <3>2. bars[n - 1] < b
      BY <3>1, BarsInOrder
    <3>3. bars[n - 1] \in Nat
      BY <3>1, BacktestAssumption DEF Bar
    <3>4. bars[n - 1] <= cut /\ bars[n - 1] < cut
      BY <1>2, <1>3, <3>2, <3>3
    <3>5. /\ r.gross[n - 1] = q.gross[n - 1]
          /\ Settled(b) => r.net[n - 1] = q.net[n - 1]
      BY <1>1, <1>2, <2>2, <3>1, <3>2, <3>4, SettledBefore DEF Agree
    <3>6. QED  BY <2>2, <3>5 DEF Before
  <2>3. QED  BY <2>1, <2>2
<1>4. ASSUME b <= cut PROVE r.gross[n] = q.gross[n]
  <2>1. r.gross[n] = Grown(c, bars, Weights(c), n, Before(r.gross, n))
    BY DEF Done
  <2>2. q.gross[n] = Grown(d, bars, Weights(d), n, Before(q.gross, n))
    BY <1>1 DEF Done
  <2>3. QED  BY <1>3, <1>4, <2>1, <2>2, SameGrowth
<1>5. ASSUME Settled(b) PROVE r.net[n] = q.net[n] /\ r.trades[n] = q.trades[n]
  <2> DEFINE value(x, z) == Grown(x, bars, Weights(x), n, Before(z.net, n))
  <2>1. b <= cut
    BY <1>2, <1>5, SettledBefore
  <2>2. value(c, r) = value(d, q)
    BY <1>3, <1>5, <2>1, SameGrowth
  <2>3. /\ r.net[n] = Paid(c, b, value(c, r), Buys(Weights(c), n, value(c, r)), Sells(Weights(c), n, value(c, r)))
        /\ r.trades[n] = Traded(Buys(Weights(c), n, value(c, r)), Sells(Weights(c), n, value(c, r)))
    BY DEF Done
  <2>4. /\ q.net[n] = Paid(d, b, value(d, q), Buys(Weights(d), n, value(d, q)), Sells(Weights(d), n, value(d, q)))
        /\ q.trades[n] = Traded(Buys(Weights(d), n, value(d, q)), Sells(Weights(d), n, value(d, q)))
    BY <1>1 DEF Done
  <2> HIDE DEF value
  <2>5. /\ Buys(Weights(c), n, value(d, q)) = Buys(Weights(d), n, value(d, q))
        /\ Sells(Weights(c), n, value(d, q)) = Sells(Weights(d), n, value(d, q))
    BY <1>5, SameTrades
  <2>6. \A x, y : Paid(c, b, value(d, q), x, y) = Paid(d, b, value(d, q), x, y)
    BY <1>5, SameTrades
  <2>7. QED  BY <2>2, <2>3, <2>4, <2>5, <2>6
<1>6. QED  BY <1>1, <1>4, <1>5 DEF Agree

----------------------------------------------------------------------------
(* The tables stay, and what is computed from them. *)

LEMMA TablesStay ==
    ASSUME UNCHANGED inputs, NEW c, NEW b
    PROVE  /\ Signals(c, b)' = Signals(c, b) /\ Prices(c, b)' = Prices(c, b)
           /\ Spreads(c, b)' = Spreads(c, b) /\ Target(c, b)' = Target(c, b)
           /\ Squared(c)' = Squared(c) /\ Common(c)' = Common(c) /\ Weights(c)' = Weights(c)
<1>1. \A e : /\ Signals(c, e)' = Signals(c, e) /\ Prices(c, e)' = Prices(c, e)
             /\ Spreads(c, e)' = Spreads(c, e)
  BY DEF inputs, Later, Signals, Prices, Spreads
<1>2. Squared(c)' = Squared(c)
  BY <1>1 DEF Squared, inputs
<1>3. \A e : Target(c, e)' = Target(c, e)
  BY <1>1, <1>2 DEF Target, inputs
<1>4. Both(c)' = Both(c)
  BY <1>1 DEF Both
<1>5. Common(c)' = Common(c)
  BY <1>4 DEF Common
<1>6. Weights(c)' = Weights(c)
  BY <1>3, <1>5 DEF Weights
<1>7. QED  BY <1>1, <1>2, <1>3, <1>5, <1>6

LEMMA ComputedStays ==
    ASSUME UNCHANGED inputs, NEW c, NEW bars, NEW weights, NEW i, NEW v, NEW b, NEW x, NEW y
    PROVE  /\ Grown(c, bars, weights, i, v)' = Grown(c, bars, weights, i, v)
           /\ Paid(c, b, v, x, y)' = Paid(c, b, v, x, y)
<1>1. \A e : Prices(c, e)' = Prices(c, e) /\ Spreads(c, e)' = Spreads(c, e)
  BY TablesStay
<1>2. \A j, s : LastPrice(c, bars, j, s)' = LastPrice(c, bars, j, s)
  BY <1>1 DEF LastPrice
<1>3. \A s : Return(c, bars, i, s)' = Return(c, bars, i, s)
  BY <1>1, <1>2 DEF Return, inputs
<1>4. Grown(c, bars, weights, i, v)' = Grown(c, bars, weights, i, v)
  BY <1>3 DEF Grown
<1>5. slippage_cost(c, b, x, y)' = slippage_cost(c, b, x, y)
  <2>1. AsOf(b)' = AsOf(b)
    BY DEF AsOf, inputs
  <2>2. QED  BY <1>1, <2>1 DEF slippage_cost
<1>6. QED  BY <1>4, <1>5 DEF Paid

LEMMA DoneStays ==
    ASSUME UNCHANGED inputs, NEW c, NEW r, NEW i
    PROVE  Done(c, r, i)' <=> Done(c, r, i)
<1> DEFINE V == Grown(c, Common(c), Weights(c), i, Before(r.net, i))
           G == Grown(c, Common(c), Weights(c), i, Before(r.gross, i))
<1>1. Common(c)' = Common(c) /\ Weights(c)' = Weights(c)
  BY TablesStay
<1>2. V' = V /\ G' = G
  BY <1>1, ComputedStays
<1>3. QED  BY <1>1, <1>2, ComputedStays DEF Done

LEMMA FollowsStays ==
    ASSUME UNCHANGED inputs, NEW c, NEW q, q = result'[c], Follows(c, q)
    PROVE  Follows(c, result[c])'
<1>1. Common(c)' = Common(c) /\ Weights(c)' = Weights(c)
  BY TablesStay
<1>2. \A i : Done(c, q, i)' <=> Done(c, q, i)
  BY DoneStays
<1>3. Follows(c, q)'
  BY <1>1, <1>2 DEF Follows
<1>4. QED  BY <1>3

LEMMA AgreeStays ==
    ASSUME UNCHANGED inputs, NEW c, NEW d, NEW r, NEW q, NEW i,
           r = result'[c], q = result'[d], Agree(r, q, i)
    PROVE  Agree(result[c], result[d], i)'
<1>1. Common(1)' = Common(1) /\ cut' = cut /\ by_date' = by_date
  BY TablesStay DEF inputs
<1>2. \A b : Settled(b)' <=> Settled(b)
  BY <1>1 DEF Settled
<1>4. Agree(r, q, i)'
  BY <1>1, <1>2 DEF Agree
<1>3. QED  BY <1>4

----------------------------------------------------------------------------
(* Every step keeps to the recurrence. *)

LEMMA EngineInit == Init => EngineInv
<1> SUFFICES ASSUME Init PROVE EngineInv
  OBVIOUS
<1>1. cut \in Bar /\ result = [c \in Call |-> Empty]
  BY DEF Init
<1>2. Len(Empty.net) = 0 /\ IsSeq(<<>>) /\ Len(<<>>) = 0
  BY DEF Empty, IsSeq
<1>3. \A c \in Call : Follows(c, Empty)
  BY <1>2 DEF Follows, Empty
<1>4. \A c \in Call : result[c] = Empty
  BY <1>1
<1>5. QED  BY <1>1, <1>2, <1>3, <1>4 DEF EngineInv

(* A step that gives one call a result that follows, and agrees with the   *)
(* other's.                                                                *)
LEMMA OneCall ==
    ASSUME EngineInv, UNCHANGED inputs, NEW c \in Call, NEW q,
           result' = [result EXCEPT ![c] = q], Follows(c, q),
           \A d \in Call : \A i \in 1..Len(q.net) :
              d # c /\ i <= Len(result[d].net) => Agree(q, result[d], i)
    PROVE  EngineInv'
<1> DEFINE f == result'
<1>1. cut' \in Bar' /\ f = [d \in Call |-> f[d]]
  BY DEF EngineInv, inputs, Bar
<1>2. f[c] = q /\ \A d \in Call : d # c => f[d] = result[d]
  BY DEF EngineInv
<1>3. ASSUME NEW d \in Call PROVE Follows(d, result[d])'
  <2>1. PICK r : r = result'[d]
    OBVIOUS
  <2>2. Follows(d, r)
    <3>1. CASE d = c
      BY <1>2, <2>1, <3>1
    <3>2. CASE d # c
      <4>1. r = result[d]
        BY <1>2, <2>1, <3>2
      <4>2. QED  BY <4>1 DEF EngineInv
    <3>3. QED  BY <3>1, <3>2
  <2>3. QED  BY <2>1, <2>2, FollowsStays
<1>4. ASSUME NEW d \in Call, NEW e \in Call, NEW i \in 1..Len(f[d].net), i <= Len(f[e].net)
      PROVE  Agree(result[d], result[e], i)'
  <2>1. PICK r, p : r = result'[d] /\ p = result'[e]
    OBVIOUS
  <2>2. Agree(r, p, i)
    <3>1. CASE d = e
      BY <2>1, <3>1 DEF Agree
    <3>2. CASE d # e /\ d = c
      <4>1. r = q /\ p = result[e] /\ i \in 1..Len(q.net) /\ i <= Len(result[e].net)
        BY <1>2, <1>4, <2>1, <3>2
      <4>2. QED  BY <3>2, <4>1
    <3>3. CASE d # e /\ e = c
      <4>1. r = result[d] /\ p = q /\ i \in 1..Len(result[d].net) /\ i <= Len(q.net)
        BY <1>2, <1>4, <2>1, <3>3
      <4>2. Len(result[d].net) \in Nat /\ Len(q.net) \in Nat
        BY DEF EngineInv, Follows, IsSeq
      <4>3. i \in 1..Len(q.net) /\ i <= Len(result[d].net)
        BY <4>1, <4>2
      <4>4. Agree(p, r, i)
        BY <3>3, <4>1, <4>3
      <4>5. QED  BY <4>4 DEF Agree
    <3>4. CASE d # c /\ e # c
      <4>1. r = result[d] /\ p = result[e] /\ i \in 1..Len(result[d].net) /\ i <= Len(result[e].net)
        BY <1>2, <1>4, <2>1, <3>4
      <4>2. QED  BY <4>1 DEF EngineInv
    <3>5. QED  BY <3>1, <3>2, <3>3, <3>4
  <2>3. QED  BY <2>1, <2>2, AgreeStays
<1>5. QED  BY <1>1, <1>3, <1>4 DEF EngineInv, Call

(* The records of the results, changed. *)
LEMMA StartedRecord ==
    ASSUME NEW r,
           r = [bars |-> r.bars, weights |-> r.weights, gross |-> r.gross, net |-> r.net,
                trades |-> r.trades, raised |-> r.raised],
           NEW b, NEW w
    PROVE  [r EXCEPT !.bars = b, !.weights = w] =
              [bars |-> b, weights |-> w, gross |-> r.gross, net |-> r.net,
               trades |-> r.trades, raised |-> r.raised]
<1> DEFINE q == [r EXCEPT !.bars = b, !.weights = w]
<1>1. DOMAIN r = {"bars", "weights", "gross", "net", "trades", "raised"}
  OBVIOUS
<1>2. q = [f \in DOMAIN r |-> q[f]]
  OBVIOUS
<1>3. /\ q.bars = b /\ q.weights = w /\ q.gross = r.gross
      /\ q.net = r.net /\ q.trades = r.trades /\ q.raised = r.raised
  BY <1>1
<1> HIDE DEF q
<1>4. q = [bars |-> b, weights |-> w, gross |-> r.gross, net |-> r.net,
               trades |-> r.trades, raised |-> r.raised]
  BY <1>1, <1>2, <1>3
<1>5. QED  BY <1>4 DEF q

LEMMA RaisedRecord ==
    ASSUME NEW r,
           r = [bars |-> r.bars, weights |-> r.weights, gross |-> r.gross, net |-> r.net,
                trades |-> r.trades, raised |-> r.raised],
           NEW x
    PROVE  [r EXCEPT !.raised = x] =
              [bars |-> r.bars, weights |-> r.weights, gross |-> r.gross, net |-> r.net,
               trades |-> r.trades, raised |-> x]
<1> DEFINE q == [r EXCEPT !.raised = x]
<1>1. DOMAIN r = {"bars", "weights", "gross", "net", "trades", "raised"}
  OBVIOUS
<1>2. q = [f \in DOMAIN r |-> q[f]]
  OBVIOUS
<1>3. /\ q.bars = r.bars /\ q.weights = r.weights /\ q.gross = r.gross
      /\ q.net = r.net /\ q.trades = r.trades /\ q.raised = x
  BY <1>1
<1> HIDE DEF q
<1>4. q = [bars |-> r.bars, weights |-> r.weights, gross |-> r.gross, net |-> r.net,
               trades |-> r.trades, raised |-> x]
  BY <1>1, <1>2, <1>3
<1>5. QED  BY <1>4 DEF q

LEMMA StartStep == ASSUME EngineInv, Start PROVE EngineInv'
<1> DEFINE c == call
           r == result[c]
           bars == Common(c)
           weights == [i \in DOMAIN bars |-> Target(c, bars[i])]
           q == [bars |-> bars, weights |-> weights, gross |-> r.gross, net |-> r.net,
                 trades |-> r.trades, raised |-> r.raised]
           yes == TRUE
           z == [bars |-> r.bars, weights |-> r.weights, gross |-> r.gross, net |-> r.net,
                 trades |-> r.trades, raised |-> yes]
<1>1. c \in Call /\ UNCHANGED inputs /\ weights = Weights(c)
  BY DEF Start, Weights
<1>3. Follows(c, r)
  BY <1>1 DEF EngineInv
<1>2. result' = [result EXCEPT ![c] = q] \/ result' = [result EXCEPT ![c] = z]
  <2>1. [r EXCEPT !.bars = bars, !.weights = weights] = q /\ [r EXCEPT !.raised = yes] = z
    <3> HIDE DEF r, bars, weights, yes
    <3>1. r = [bars |-> r.bars, weights |-> r.weights, gross |-> r.gross, net |-> r.net,
               trades |-> r.trades, raised |-> r.raised]
      BY <1>3 DEF Follows
    <3>2. [r EXCEPT !.bars = bars, !.weights = weights] = q
      BY <3>1, StartedRecord
    <3>3. [r EXCEPT !.raised = yes] = z
      BY <3>1, RaisedRecord
    <3>4. QED  BY <3>2, <3>3
  <2>2. \/ result' = [result EXCEPT ![c] = [r EXCEPT !.bars = bars, !.weights = weights]]
        \/ result' = [result EXCEPT ![c] = [r EXCEPT !.raised = yes]]
    BY DEF Start
  <2>3. QED  BY <2>1, <2>2
<1>4. \A i, x : Agree(q, x, i) = Agree(r, x, i) /\ Agree(z, x, i) = Agree(r, x, i)
  BY DEF Agree
<1>5. \A d \in Call : \A i \in 1..Len(r.net) : i <= Len(result[d].net) => Agree(r, result[d], i)
  BY <1>1 DEF EngineInv
<1>6. /\ q.net = r.net /\ q.gross = r.gross /\ q.trades = r.trades /\ q.raised = r.raised
      /\ q.bars = bars /\ q.weights = weights
      /\ q = [bars |-> q.bars, weights |-> q.weights, gross |-> q.gross, net |-> q.net,
              trades |-> q.trades, raised |-> q.raised]
  OBVIOUS
<1>7. /\ z.net = r.net /\ z.gross = r.gross /\ z.trades = r.trades
      /\ z.bars = r.bars /\ z.weights = r.weights
      /\ z = [bars |-> z.bars, weights |-> z.weights, gross |-> z.gross, net |-> z.net,
              trades |-> z.trades, raised |-> z.raised]
  OBVIOUS
<1>8. \A i : (Done(c, q, i) <=> Done(c, r, i)) /\ (Done(c, z, i) <=> Done(c, r, i))
  BY <1>6, <1>7 DEF Done
<1>9. Len(r.net) <= Len(bars)
  <2>1. Len(r.net) \in Nat /\ Len(bars) \in Nat
    BY <1>1, <1>3, BarsInOrder DEF Follows, IsSeq
  <2>2. QED  BY <1>3, <2>1 DEF Follows
<1> HIDE DEF q, z, r
<1>10. Follows(c, q)
  BY <1>1, <1>3, <1>6, <1>8, <1>9 DEF Follows
<1>11. Follows(c, z)
  BY <1>3, <1>7, <1>8 DEF Follows
<1>12. QED  BY <1>1, <1>2, <1>4, <1>5, <1>6, <1>7, <1>10, <1>11, OneCall

LEMMA IterateStep == ASSUME EngineInv, Iterate PROVE EngineInv'
<1> DEFINE c == call
           r == result[c]
           n == Len(r.net) + 1
           gross == Grown(c, r.bars, r.weights, n, Before(r.gross, n))
           value == Grown(c, r.bars, r.weights, n, Before(r.net, n))
           buys == Buys(r.weights, n, value)
           sells == Sells(r.weights, n, value)
           net == Paid(c, r.bars[n], value, buys, sells)
           q == [bars |-> r.bars, weights |-> r.weights, gross |-> Append(r.gross, gross),
                 net |-> Append(r.net, net), trades |-> Append(r.trades, Traded(buys, sells)),
                 raised |-> r.raised]
<1>1. c \in Call /\ UNCHANGED inputs /\ n <= Len(r.bars)
  BY DEF Iterate
<1>2. /\ Follows(c, r) /\ IsSeq(r.gross) /\ IsSeq(r.net) /\ IsSeq(r.trades)
      /\ Len(r.gross) = Len(r.net) /\ Len(r.trades) = Len(r.net) /\ Len(r.net) \in Nat
  BY <1>1 DEF EngineInv, Follows, IsSeq
<1>3. r.bars = Common(c) /\ r.weights = Weights(c) /\ n \in DOMAIN Common(c)
  <2>1. r.bars # <<>>
    BY <1>1, <1>2
  <2>2. r.bars = Common(c) /\ r.weights = Weights(c)
    BY <1>2, <2>1 DEF Follows
  <2>3. DOMAIN Common(c) = 1..Len(Common(c)) /\ Len(Common(c)) \in Nat
    BY <1>1, BarsInOrder
  <2>4. QED  BY <1>1, <1>2, <2>2, <2>3
<1>13. result' = [result EXCEPT ![c] = q]
  <2>1. result' = [result EXCEPT ![c] = [r EXCEPT !.gross  = Append(r.gross, gross),
                                                  !.net    = Append(r.net, net),
                                                  !.trades = Append(r.trades, Traded(buys, sells))]]
    BY DEF Iterate
  <2> DEFINE g == Append(r.gross, gross)
             m == Append(r.net, net)
             w == Append(r.trades, Traded(buys, sells))
  <2>5. q = [bars |-> r.bars, weights |-> r.weights, gross |-> g, net |-> m, trades |-> w,
             raised |-> r.raised]
    OBVIOUS
  <2> HIDE DEF r, gross, net, buys, sells, q
  <2>2. r = [bars |-> r.bars, weights |-> r.weights, gross |-> r.gross, net |-> r.net,
             trades |-> r.trades, raised |-> r.raised]
    BY <1>2 DEF Follows
  <2>3. [r EXCEPT !.gross = g, !.net = m, !.trades = w] = q
    <3> DEFINE y == [r EXCEPT !.gross = g, !.net = m, !.trades = w]
    <3> HIDE DEF g, m, w
    <3>1. DOMAIN r = {"bars", "weights", "gross", "net", "trades", "raised"}
      BY <2>2
    <3>2. y = [f \in DOMAIN r |-> y[f]]
      OBVIOUS
    <3>3. /\ y.bars = r.bars /\ y.weights = r.weights /\ y.gross = g
          /\ y.net = m /\ y.trades = w /\ y.raised = r.raised
      BY <3>1
    <3> HIDE DEF y
    <3>4. y = q
      BY <2>5, <3>1, <3>2, <3>3
    <3>5. QED  BY <3>4 DEF y
  <2>4. QED  BY <2>1, <2>3
<1>4. /\ q.bars = r.bars /\ q.weights = r.weights /\ q.gross = Append(r.gross, gross)
      /\ q.net = Append(r.net, net) /\ q.trades = Append(r.trades, Traded(buys, sells))
      /\ q = [bars |-> q.bars, weights |-> q.weights, gross |-> q.gross, net |-> q.net,
              trades |-> q.trades, raised |-> q.raised]
  OBVIOUS
<1>5. /\ gross = Grown(c, Common(c), Weights(c), n, Before(r.gross, n))
      /\ value = Grown(c, Common(c), Weights(c), n, Before(r.net, n))
      /\ buys = Buys(Weights(c), n, value) /\ sells = Sells(Weights(c), n, value)
      /\ net = Paid(c, Common(c)[n], value, buys, sells)
  BY <1>3
<1> HIDE DEF q, gross, value, buys, sells, net
<1>6. /\ IsSeq(q.gross) /\ IsSeq(q.net) /\ IsSeq(q.trades)
      /\ Len(q.gross) = n /\ Len(q.net) = n /\ Len(q.trades) = n
      /\ \A i \in 1..Len(r.net) : q.gross[i] = r.gross[i] /\ q.net[i] = r.net[i] /\ q.trades[i] = r.trades[i]
      /\ q.gross[n] = gross /\ q.net[n] = net /\ q.trades[n] = Traded(buys, sells)
  <2> HIDE DEF r
  <2>1. /\ IsSeq(q.gross) /\ Len(q.gross) = Len(r.gross) + 1 /\ q.gross[Len(r.gross) + 1] = gross
        /\ \A i \in 1..Len(r.gross) : q.gross[i] = r.gross[i]
    BY <1>2, <1>4, Appended
  <2>2. /\ IsSeq(q.net) /\ Len(q.net) = Len(r.net) + 1 /\ q.net[Len(r.net) + 1] = net
        /\ \A i \in 1..Len(r.net) : q.net[i] = r.net[i]
    BY <1>2, <1>4, Appended
  <2>3. /\ IsSeq(q.trades) /\ Len(q.trades) = Len(r.trades) + 1
        /\ q.trades[Len(r.trades) + 1] = Traded(buys, sells)
        /\ \A i \in 1..Len(r.trades) : q.trades[i] = r.trades[i]
    BY <1>2, <1>4, Appended
  <2>4. QED  BY <1>2, <2>1, <2>2, <2>3
<1> HIDE DEF r
<1>7. \A i \in 1..n : i = n \/ i \in 1..Len(r.net)
  BY <1>2
<1>8. \A i \in 1..n : Before(q.gross, i) = Before(r.gross, i) /\ Before(q.net, i) = Before(r.net, i)
  <2>1. \A i \in 1..n : i # 1 => i - 1 \in 1..Len(r.net)
    BY <1>2
  <2>2. QED  BY <1>6, <2>1 DEF Before
<1>9. ASSUME NEW i \in 1..n PROVE Done(c, q, i)
  <2>1. CASE i = n
    BY <1>5, <1>6, <1>8, <2>1 DEF Done
  <2>2. CASE i \in 1..Len(r.net)
    <3>1. Done(c, r, i)
      BY <1>2, <2>2 DEF Follows
    <3>2. QED  BY <1>6, <1>8, <2>2, <3>1 DEF Done
  <2>3. QED  BY <1>7, <2>1, <2>2
<1>10. Follows(c, q)
  <2>1. Len(q.net) <= Len(Common(c))
    BY <1>1, <1>3, <1>6
  <2>2. QED  BY <1>3, <1>4, <1>6, <1>9, <2>1 DEF Follows
<1>11. ASSUME NEW d \in Call, NEW i \in 1..n, d # c, i <= Len(result[d].net)
       PROVE  Agree(q, result[d], i)
  <2>1. Len(result[d].net) \in Nat /\ Follows(d, result[d])
    BY DEF EngineInv, Follows, IsSeq
  <2>2. CASE i \in 1..Len(r.net)
    <3>1. Agree(r, result[d], i)
      BY <1>1, <1>11, <2>2 DEF EngineInv, r
    <3>2. QED  BY <1>6, <2>2, <3>1 DEF Agree
  <2>3. CASE i = n
    <3>1. n \in 1..Len(result[d].net)
      BY <1>2, <1>11, <2>1, <2>3
    <3>2. Done(d, result[d], n) /\ Done(c, q, n)
      BY <1>9, <2>1, <2>3, <3>1 DEF Follows
    <3>3. n # 1 => Agree(q, result[d], n - 1)
      <4>1. n # 1 => /\ n - 1 \in 1..Len(r.net)
                     /\ n - 1 <= Len(result[d].net)
        BY <1>2, <2>1, <3>1
      <4>2. n # 1 => Agree(r, result[d], n - 1)
        BY <1>1, <4>1 DEF EngineInv, r
      <4>3. QED  BY <1>6, <4>1, <4>2 DEF Agree
    <3>4. cut \in Bar
      BY DEF EngineInv
    <3>5. Agree(q, result[d], n)
      BY <1>1, <1>3, <3>2, <3>3, <3>4, AgreeOn
    <3>6. QED  BY <2>3, <3>5
  <2>4. QED  BY <1>7, <2>2, <2>3
<1>12. QED  BY <1>1, <1>6, <1>10, <1>11, <1>13, OneCall

LEMMA EngineStep == ASSUME EngineInv, [Next]_vars PROVE EngineInv'
<1>1. CASE Start
  BY <1>1, StartStep
<1>2. CASE Iterate
  BY <1>2, IterateStep
<1>3. CASE UNCHANGED <<inputs, result>>
  <2> DEFINE f == result'
  <2>1. PICK c \in Call : TRUE
    BY DEF Call
  <2>2. result' = [result EXCEPT ![c] = result[c]]
    BY <1>3 DEF EngineInv
  <2>3. /\ Follows(c, result[c])
        /\ \A d \in Call : \A i \in 1..Len(result[c].net) :
              d # c /\ i <= Len(result[d].net) => Agree(result[c], result[d], i)
    BY DEF EngineInv
  <2>4. QED  BY <1>3, <2>2, <2>3, OneCall
<1>4. CASE Finish \/ TaxRow \/ UNCHANGED vars
  BY <1>3, <1>4 DEF Finish, TaxRow, vars
<1>5. QED  BY <1>1, <1>2, <1>4 DEF Next

LEMMA EngineSafe == Spec => []EngineInv
<1>1. QED  BY EngineInit, EngineStep, PTL DEF Spec

(* Whatever the tables, the rates and the spreads, and however far both     *)
(* calls have got, what the engine says of a bar, gross, net and trades, is *)
(* the same whether or not the later rows of the tables are replaced; with  *)
(* spreads by date, those after the bar's day (backtest and                 *)
(* backtest_intraday, engine.py).                                           *)
THEOREM NothingAhead == Spec => []LooksNotAhead
<1>1. EngineInv => LooksNotAhead
  <2> SUFFICES ASSUME EngineInv PROVE LooksNotAhead
    OBVIOUS
  <2>1. 1 \in Call /\ 2 \in Call
    BY DEF Call
  <2>2. ASSUME NEW i \in DOMAIN result[1].net \intersect DOMAIN result[2].net
        PROVE  result[1].bars[i] = Common(1)[i] /\ Agree(result[1], result[2], i)
    <3>1. /\ DOMAIN result[1].net = 1..Len(result[1].net) /\ DOMAIN result[2].net = 1..Len(result[2].net)
          /\ Len(result[1].net) \in Nat /\ Len(result[2].net) \in Nat
      <4>1. IsSeq(result[1].net) /\ IsSeq(result[2].net)
        BY <2>1 DEF EngineInv, Follows
      <4>2. QED  BY <4>1 DEF IsSeq
    <3>2. i \in 1..Len(result[1].net) /\ i <= Len(result[2].net)
      BY <3>1
    <3>3. Agree(result[1], result[2], i)
      BY <2>1, <3>2 DEF EngineInv
    <3>4. Len(result[1].net) # 0 /\ Follows(1, result[1])
      BY <2>1, <3>1, <3>2 DEF EngineInv
    <3>5. result[1].bars = Common(1)
      BY <3>4 DEF Follows
    <3>6. QED  BY <3>3, <3>5
  <2>3. QED  BY <2>2 DEF LooksNotAhead, Agree
<1>2. QED  BY <1>1, EngineSafe, PTL

LEMMA LaterBar ==
    ASSUME NEW c \in Call, NEW i \in DOMAIN Common(c), i + 1 \in DOMAIN Common(c),
           NEW d \in Both(c), d > Common(c)[i]
    PROVE  d >= Common(c)[i + 1]
<1> DEFINE bars == Common(c)
<1>1. PICK k \in DOMAIN bars : bars[k] = d
  BY BarsInOrder
<1>2. DOMAIN bars = 1..Len(bars) /\ Len(bars) \in Nat
  BY BarsInOrder
<1>3. \A j \in DOMAIN bars : bars[j] \in Bar
  BY BarsInOrder DEF Both
<1>4. \A j \in DOMAIN bars : bars[j] \in Nat
  BY <1>3, BarNumbers
<1>5. k < i => bars[k] < bars[i]
  BY <1>1, BarsInOrder
<1>6. i + 1 < k => bars[i + 1] < bars[k]
  BY <1>1, BarsInOrder
<1> HIDE DEF bars
<1>7. i \in Nat /\ k \in Nat /\ i \in DOMAIN bars /\ i + 1 \in DOMAIN bars /\ d > bars[i]
  BY <1>2 DEF bars
<1>8. ~(k < i) /\ k # i
  BY <1>1, <1>4, <1>5, <1>7
<1>9. k = i + 1 \/ i + 1 < k
  BY <1>7, <1>8
<1>10. d >= bars[i + 1]
  BY <1>1, <1>4, <1>6, <1>7, <1>9
<1>11. QED  BY <1>10 DEF bars

(* Weights are carried into another session only past a bar that            *)
(* apply_square_off does not reach, because it is after session_end or      *)
(* because the session's last bar by then is not in the table of prices     *)
(* (apply_square_off and _align, engine.py).                                *)
THEOREM CarriedOvernight == Spec => []FlatOvernight
<1>1. EngineInv => FlatOvernight
  <2> SUFFICES ASSUME EngineInv, intraday, NEW c \in Call,
                      NEW i \in 1..(Len(result[c].weights) - 1),
                      Session[result[c].bars[i]] # Session[result[c].bars[i + 1]],
                      result[c].weights[i] # Nothing, result[c].bars[i] \notin late
               PROVE  \E d \in Bar : /\ d > result[c].bars[i]
                                     /\ Session[d] = Session[result[c].bars[i]]
                                     /\ signals[d] # None /\ prices[d] = None
    BY DEF FlatOvernight
  <2> DEFINE bars == Common(c)
             b    == bars[i]
             next == bars[i + 1]
  <2>1. result[c].bars = bars /\ result[c].weights = Weights(c)
    <3>1. Follows(c, result[c])
      BY DEF EngineInv
    <3>2. result[c].weights # <<>>
      OBVIOUS
    <3>3. QED  BY <3>1, <3>2 DEF Follows
  <2>2. i \in DOMAIN bars /\ i + 1 \in DOMAIN bars
    <3>1. DOMAIN bars = 1..Len(bars) /\ Len(bars) \in Nat
      BY BarsInOrder
    <3>2. Len(Weights(c)) = Len(bars)
      BY <3>1 DEF Weights
    <3>3. QED  BY <2>1, <3>1, <3>2
  <2>3. b \in Both(c) /\ next \in Both(c)
    BY <2>2, BarsInOrder
  <2>4. /\ b \in Bar /\ next \in Bar /\ b \in Nat /\ next \in Nat
        /\ Signals(c, b) # None
    BY <2>3, BarNumbers DEF Both
  <2>5. Target(c, b) # Nothing /\ b \notin late /\ Session[b] # Session[next]
    BY <2>1, <2>2 DEF Weights
  <2>6. b \notin Squared(c)
    BY <2>5 DEF Target, Nothing
  <2>11. b < next
    <3>1. i < i + 1
      OBVIOUS
    <3>2. QED  BY <2>2, <3>1, BarsInOrder
  <2> HIDE DEF b, next
  <2>7. PICK d \in Bar : Signals(c, d) # None /\ Session[d] = Session[b] /\ ~(d <= b)
    BY <2>4, <2>5, <2>6 DEF Squared
  <2>8. d \in Nat /\ d > b
    BY <2>4, <2>7, BarNumbers
  <2>9. d \notin Both(c)
    <3> SUFFICES ASSUME d \in Both(c) PROVE FALSE
      OBVIOUS
    <3>1. d >= next
      BY <2>2, <2>8, LaterBar DEF b, next
    <3>2. next = d \/ next < d
      BY <2>4, <2>8, <3>1
    <3>3. Session[b] <= Session[next] /\ Session[next] <= Session[d]
      <4>1. /\ \A x \in Bar : Session[x] \in Nat
            /\ \A x, y \in Bar : x < y => Session[x] <= Session[y]
        BY BacktestAssumption
      <4>2. QED  BY <2>4, <2>7, <2>11, <3>2, <4>1
    <3>4. Session[b] \in Nat /\ Session[next] \in Nat /\ Session[d] = Session[b]
      BY <2>4, <2>7, BacktestAssumption
    <3>5. QED  BY <2>5, <3>3, <3>4
  <2>10. signals[d] # None /\ prices[d] = None
    <3>1. Prices(c, d) = None
      BY <2>7, <2>9 DEF Both
    <3>2. None \notin {LaterSignal, LaterSignalIntraday, LaterPrice}
      BY BacktestAssumption
    <3>3. QED  BY <2>7, <3>1, <3>2 DEF Signals, Prices
  <2>12. QED  BY <2>1, <2>7, <2>8, <2>10 DEF b
<1>2. QED  BY <1>1, EngineSafe, PTL
----------------------------------------------------------------------------
(* Induction over the numbers from m to n, G being those it holds of. *)
LEMMA Upwards ==
    ASSUME NEW m \in Nat, NEW n \in Nat, NEW G, m \in G,
           \A j \in m..(n - 1) : j \in G => j + 1 \in G
    PROVE  \A j \in m..n : j \in G
<1> DEFINE T == {j \in m..n : j \notin G}
<1>1. SUFFICES ASSUME T # {} PROVE FALSE
  OBVIOUS
<1>2. T \in SUBSET Nat
  OBVIOUS
<1>3. PICK j \in T : \A k \in T : j <= k
  <2> HIDE DEF T
  <2>1. QED  BY <1>1, <1>2, LeastNatural
<1>4. j \in Nat /\ m <= j /\ j <= n /\ j \notin G /\ j # m
  BY <1>3
<1>5. j - 1 \in m..(n - 1) /\ j - 1 \in m..n /\ (j - 1) + 1 = j /\ ~(j <= j - 1)
  BY <1>4
<1>6. j - 1 \in G
  BY <1>3, <1>5
<1>7. QED  BY <1>4, <1>5, <1>6

----------------------------------------------------------------------------
(* Types of the tables and of what is computed from them. *)

TablesTyped ==
    /\ signals \in [Bar -> SignalRow \union {None}]
    /\ prices \in [Bar -> PriceRow \union {None}]

Quote == Nat \ {0}

LEMMA EntryTypes ==
    ASSUME TablesTyped, NEW c \in Call, NEW b \in Both(c), NEW s \in Symbol
    PROVE  /\ b \in Bar /\ b \in Nat
           /\ Prices(c, b)[s] \in Quote \union {None}
           /\ Target(c, b)[s] \in Int
<1>1. b \in Bar /\ Signals(c, b) # None /\ Prices(c, b) # None
  BY DEF Both
<1>2. Signals(c, b) \in SignalRow \union {LaterSignal, LaterSignalIntraday} /\ Prices(c, b) \in PriceRow \union {LaterPrice}
  BY <1>1 DEF TablesTyped, Signals, Later, Prices
<1>3. Signals(c, b)[s] \in Int \union {None}
  BY <1>2, BacktestAssumption
<1>4. Prices(c, b)[s] \in Quote \union {None}
  BY <1>2, BacktestAssumption DEF Quote
<1>5. Target(c, b)[s] \in Int
  BY <1>3 DEF Target
<1>6. QED  BY <1>1, <1>4, <1>5, BarNumbers

(* The price a return is computed from. *)
Known(c, i, s) ==
    IF pads THEN LastPrice(c, Common(c), i, s) ELSE Prices(c, Common(c)[i])[s]

LEMMA KnownType ==
    ASSUME TablesTyped, NEW c \in Call, NEW i \in DOMAIN Common(c), NEW s \in Symbol
    PROVE  Known(c, i, s) \in Quote \union {None}
<1> DEFINE bars == Common(c)
           quoted == {k \in 1..i : Prices(c, bars[k])[s] # None}
<1>1. DOMAIN bars = 1..Len(bars) /\ Len(bars) \in Nat /\ \A k \in DOMAIN bars : bars[k] \in Both(c)
  BY BarsInOrder
<1>2. \A k \in DOMAIN bars : Prices(c, bars[k])[s] \in Quote \union {None}
  BY <1>1, EntryTypes
<1> HIDE DEF bars
<1>3. i \in Nat /\ i \in DOMAIN bars /\ \A k \in 1..i : k \in DOMAIN bars
  BY <1>1 DEF bars
<1>4. quoted # {} => Max(quoted) \in quoted
  <2>1. quoted \in SUBSET (1..i) /\ quoted \in SUBSET Nat /\ IsFiniteSet(1..i)
    BY <1>3, FS_Interval
  <2>2. IsFiniteSet(quoted)
    BY <2>1, FS_Subset
  <2> HIDE DEF quoted
  <2>3. QED  BY <2>1, <2>2, MaxFound
<1>5. quoted # {} => Prices(c, bars[Max(quoted)])[s] \in Quote
  BY <1>2, <1>3, <1>4
<1> HIDE DEF quoted
<1>6. LastPrice(c, bars, i, s) \in Quote \union {None}
  BY <1>5 DEF LastPrice, quoted
<1>7. QED  BY <1>2, <1>3, <1>6 DEF Known, bars

LEMMA ReturnIs ==
    ASSUME NEW c \in Call, NEW i \in DOMAIN Common(c), NEW s \in Symbol
    PROVE  Return(c, Common(c), i, s) =
              IF i = 1 \/ Known(c, i, s) = None \/ Known(c, i - 1, s) = None THEN Zero
              ELSE Ratio(Known(c, i, s) - Known(c, i - 1, s), Known(c, i - 1, s))
  BY DEF Return, Known

LEMMA BarBefore ==
    ASSUME NEW c \in Call, NEW i \in DOMAIN Common(c), i # 1
    PROVE  i - 1 \in DOMAIN Common(c) /\ i \in Nat
<1>1. DOMAIN Common(c) = 1..Len(Common(c)) /\ Len(Common(c)) \in Nat
  BY BarsInOrder
<1>2. QED  BY <1>1

LEMMA ReturnType ==
    ASSUME TablesTyped, NEW c \in Call, NEW i \in DOMAIN Common(c), NEW s \in Symbol
    PROVE  Return(c, Common(c), i, s) \in Reduced
<1>1. CASE i = 1 \/ Known(c, i, s) = None \/ Known(c, i - 1, s) = None
  BY <1>1, ReturnIs, ZeroReduced
<1>2. CASE ~(i = 1 \/ Known(c, i, s) = None \/ Known(c, i - 1, s) = None)
  <2> DEFINE now == Known(c, i, s)
             then == Known(c, i - 1, s)
  <2>1. i - 1 \in DOMAIN Common(c)
    BY <1>2, BarBefore
  <2>2. now \in Quote /\ then \in Quote
    BY <1>2, <2>1, KnownType
  <2>3. Return(c, Common(c), i, s) = Ratio(now - then, then)
    BY <1>2, ReturnIs
  <2> HIDE DEF now, then
  <2>4. now - then \in Int /\ then \in Nat \ {0}
    BY <2>2 DEF Quote
  <2>5. QED  BY <2>3, <2>4, RatioSign
<1>3. QED  BY <1>1, <1>2

LEMMA HeldType ==
    ASSUME TablesTyped, NEW c \in Call, NEW i \in DOMAIN Common(c), NEW s \in Symbol
    PROVE  Held(Weights(c), i)[s] \in Int /\ Weights(c)[i][s] \in Int
<1>1. \A k \in DOMAIN Common(c) : Weights(c)[k][s] \in Int
  <2>1. \A k \in DOMAIN Common(c) : Common(c)[k] \in Both(c)
    BY BarsInOrder
  <2>2. QED  BY <2>1, EntryTypes DEF Weights
<1>2. CASE i = 1
  BY <1>1, <1>2 DEF Held, Nothing
<1>3. CASE i # 1
  BY <1>1, <1>3, BarBefore DEF Held
<1>4. QED  BY <1>1, <1>2, <1>3

(* What each symbol contributes, and the factor the value grows by. *)
Earned(c, i) ==
    [s \in Symbol |-> Mul(Ratio(Held(Weights(c), i)[s], WeightUnit), Return(c, Common(c), i, s))]

Growth(c, i) == Add(Whole(1), SumOn(Earned(c, i), Symbol))

LEMMA EarnedType ==
    ASSUME TablesTyped, NEW c \in Call, NEW i \in DOMAIN Common(c)
    PROVE  Values(Earned(c, i), Symbol) /\ Growth(c, i) \in Reduced
<1>1. WeightUnit \in Nat \ {0} /\ IsFiniteSet(Symbol)
  BY BacktestAssumption
<1>2. ASSUME NEW s \in Symbol PROVE Earned(c, i)[s] \in Reduced
  <2> DEFINE w == Held(Weights(c), i)[s]
             r == Return(c, Common(c), i, s)
  <2>1. w \in Int /\ r \in Reduced
    BY HeldType, ReturnType
  <2>2. Earned(c, i)[s] = Mul(Ratio(w, WeightUnit), r)
    BY DEF Earned
  <2> HIDE DEF w, r
  <2>3. Ratio(w, WeightUnit) \in Reduced
    BY <1>1, <2>1, RatioSign
  <2>4. QED  BY <2>1, <2>2, <2>3, MulType
<1>3. Values(Earned(c, i), Symbol)
  BY <1>2 DEF Values
<1>4. SumOn(Earned(c, i), Symbol) \in Reduced
  BY <1>1, <1>3, SumValue
<1>5. Whole(1) \in Reduced
  BY WholeReduced
<1>6. QED  BY <1>3, <1>4, <1>5, AddType DEF Growth

LEMMA GrownIs ==
    ASSUME NEW c \in Call, NEW i, NEW v
    PROVE  Grown(c, Common(c), Weights(c), i, v) = Mul(v, Growth(c, i))
<1> DEFINE e == [s \in Symbol |-> Mul(Ratio(Held(Weights(c), i)[s], WeightUnit), Return(c, Common(c), i, s))]
<1>1. Grown(c, Common(c), Weights(c), i, v) = Mul(v, Add(Whole(1), Sum(e)))
  BY DEF Grown
<1>2. e = Earned(c, i)
  BY DEF Earned
<1>3. DOMAIN Earned(c, i) = Symbol
  BY DEF Earned
<1> HIDE DEF e
<1>4. Sum(e) = SumOn(Earned(c, i), Symbol)
  BY <1>2, <1>3 DEF Sum, FoldFunction, SumOn
<1>5. QED  BY <1>1, <1>4 DEF Growth

----------------------------------------------------------------------------
(* The charges. *)

LEMMA LeqIs ==
    ASSUME NEW a \in Reduced, NEW b \in Reduced
    PROVE  /\ Leq(a, b) \/ Leq(b, a)
           /\ Leq(a, b) /\ a.num >= 0 => b.num >= 0
           /\ Leq(a, b) /\ a.num > 0 => b.num > 0
           /\ a.num <= 0 /\ b.num >= 0 => Leq(a, b)
           /\ Leq(a, Zero) <=> a.num <= 0
           /\ Leq(Zero, a) <=> a.num >= 0
           /\ Leq(a, a)
<1>1. PICK d \in Nat \ {0} : In(a, d) /\ In(b, d)
  BY ShareDenominator
<1>2. PICK x \in Int : a = Ratio(x, d)
  BY <1>1 DEF In
<1>3. PICK y \in Int : b = Ratio(y, d)
  BY <1>1 DEF In
<1>4. Leq(a, b) <=> x <= y
  BY <1>2, <1>3, RatioOrder
<1>5. Leq(b, a) <=> y <= x
  BY <1>2, <1>3, RatioOrder
<1>6. Leq(a, a) <=> x <= x
  BY <1>2, RatioOrder
<1>7. Zero = Ratio(0, d) /\ 0 \in Int
  BY ZeroIn
<1>8. Leq(a, Zero) <=> x <= 0
  BY <1>2, <1>7, RatioOrder
<1>9. Leq(Zero, a) <=> 0 <= x
  BY <1>2, <1>7, RatioOrder
<1>10. /\ a.num > 0 <=> x > 0
       /\ a.num >= 0 <=> x >= 0
       /\ a.num <= 0 <=> x <= 0
  BY <1>2, RatioSign
<1>11. /\ b.num > 0 <=> y > 0
       /\ b.num >= 0 <=> y >= 0
  BY <1>3, RatioSign
<1>12. QED  BY <1>4, <1>5, <1>6, <1>8, <1>9, <1>10, <1>11

LEMMA RateType ==
    ASSUME NEW n \in Nat
    PROVE  Rate(n) \in Reduced /\ Rate(n).num >= 0
<1>1. RateUnit \in Nat \ {0}
  BY BacktestAssumption
<1>2. QED  BY <1>1, RatioSign DEF Rate

LEMMA ConfigTypes ==
    /\ CostConfig.brokerage_rate \in Nat /\ CostConfig.brokerage_min \in Nat
    /\ CostConfig.brokerage_max \in Nat /\ CostConfig.buy_rate \in Nat
    /\ CostConfig.sell_rate \in Nat /\ CostConfig.both_rate \in Nat /\ CostConfig.gst_rate \in Nat
    /\ RateUnit \in Nat \ {0} /\ RateUnit + CostConfig.gst_rate \in Nat
<1>1. /\ CostConfig.brokerage_rate \in Nat /\ CostConfig.brokerage_min \in Nat
      /\ CostConfig.brokerage_max \in Nat /\ CostConfig.buy_rate \in Nat
      /\ CostConfig.sell_rate \in Nat /\ CostConfig.both_rate \in Nat /\ CostConfig.gst_rate \in Nat
  BY BacktestAssumption
<1>2. RateUnit \in Nat \ {0}
  BY BacktestAssumption
<1>3. QED  BY <1>1, <1>2

LEMMA BrokerageType ==
    ASSUME NEW n \in Reduced
    PROVE  /\ Brokerage(n) \in Reduced
           /\ n.num >= 0 => Brokerage(n).num >= 0
<1> DEFINE rate == Rate(CostConfig.brokerage_rate)
           raw == Mul(n, rate)
           least == Whole(CostConfig.brokerage_min)
           most == Whole(CostConfig.brokerage_max)
<1>1. rate \in Reduced /\ rate.num >= 0
  BY ConfigTypes, RateType
<1>2. least \in Reduced /\ most \in Reduced /\ least.num >= 0 /\ most.num >= 0
  BY ConfigTypes, WholeReduced
<1>3. raw \in Reduced /\ (n.num >= 0 => raw.num >= 0)
  <2> HIDE DEF rate
  <2>1. QED  BY <1>1, MulType, MulSign
<1>4. Brokerage(n) = IF Positive(n) THEN Lesser(Greater(raw, least), most) ELSE raw
  BY DEF Brokerage
<1> HIDE DEF raw, least, most
<1>5. Greater(raw, least) \in {raw, least} /\ Lesser(Greater(raw, least), most) \in {raw, least, most}
  BY DEF Greater, Lesser
<1>6. QED  BY <1>2, <1>3, <1>4, <1>5

(* No spread is more than h. *)
SpreadsWithin(h) ==
    /\ default_bps <= h
    /\ \A r \in Range(SpreadRow) \union {LaterSpread} : \A s \in Symbol :
          r # None /\ r[s] # None => r[s] <= h

(* The cost is half the spread of what is traded. *)
HalfSpread(half, cost, buys, sells) ==
    /\ \A s \in Symbol : half[s] \in Reduced /\ half[s].num >= 0
    /\ \A h \in Nat : SpreadsWithin(h) => \A s \in Symbol : Leq(half[s], Ratio(h, 2 * RateUnit))
    /\ cost = SumOn([s \in Symbol |-> Mul(Add(buys[s], sells[s]), half[s])], Symbol)

LEMMA SlippageIs ==
    ASSUME NEW c \in Call, NEW b \in Bar, NEW buys, NEW sells
    PROVE  \E half : HalfSpread(half, slippage_cost(c, b, buys, sells), buys, sells)
<1> DEFINE dated == {d \in AsOf(b) : Spreads(c, d) # None}
           quoted(s) == IF dated = {} THEN None ELSE Spreads(c, Max(dated))[s]
           bps(s) == IF quoted(s) = None THEN default_bps ELSE quoted(s)
           half == [s \in Symbol |-> Ratio(bps(s), 2 * RateUnit)]
<1>1. dated # {} => Max(dated) \in dated
  <2>1. AsOf(b) \in SUBSET Nat /\ IsFiniteSet(AsOf(b))
    BY LookedUp
  <2>2. dated \in SUBSET AsOf(b) /\ dated \in SUBSET Nat
    BY <2>1
  <2>3. IsFiniteSet(dated)
    BY <2>1, <2>2, FS_Subset
  <2> HIDE DEF dated
  <2>4. QED  BY <2>2, <2>3, MaxFound
<1>2. \A d \in dated : /\ Spreads(c, d) \in [Symbol -> Nat \union {None}]
                       /\ Spreads(c, d) # None
                       /\ Spreads(c, d) \in Range(SpreadRow) \union {LaterSpread}
  <2>1. SUFFICES ASSUME NEW d \in dated
                 PROVE  /\ Spreads(c, d) \in [Symbol -> Nat \union {None}]
                        /\ Spreads(c, d) # None
                        /\ Spreads(c, d) \in Range(SpreadRow) \union {LaterSpread}
    OBVIOUS
  <2>2. d \in Bar /\ Spreads(c, d) # None
    BY LookedUp
  <2>3. Spreads(c, d) \in Range(SpreadRow) \union {LaterSpread}
    BY <2>2, BacktestAssumption DEF Spreads, Range
  <2>4. QED  BY <2>2, <2>3, BacktestAssumption
<1> HIDE DEF dated
<1>3. ASSUME NEW s \in Symbol
      PROVE  /\ quoted(s) \in Nat \union {None}
             /\ \A h \in Nat : SpreadsWithin(h) /\ quoted(s) # None => quoted(s) <= h
  <2>1. CASE dated = {}
    BY <2>1
  <2>2. CASE dated # {}
    <3> DEFINE r == Spreads(c, Max(dated))
    <3>1. r \in [Symbol -> Nat \union {None}] /\ r # None /\ r \in Range(SpreadRow) \union {LaterSpread}
      BY <1>1, <1>2, <2>2
    <3>2. quoted(s) = r[s]
      BY <2>2
    <3> HIDE DEF r, quoted
    <3>3. QED  BY <3>1, <3>2 DEF SpreadsWithin
  <2>3. QED  BY <2>1, <2>2
<1> HIDE DEF quoted
<1>4. ASSUME NEW s \in Symbol
      PROVE  bps(s) \in Nat /\ \A h \in Nat : SpreadsWithin(h) => bps(s) <= h
  BY <1>3, BacktestAssumption DEF SpreadsWithin
<1> HIDE DEF bps
<1>5. 2 * RateUnit \in Nat \ {0}
  BY ConfigTypes
<1>6. ASSUME NEW s \in Symbol
      PROVE  /\ half[s] \in Reduced /\ half[s].num >= 0
             /\ \A h \in Nat : SpreadsWithin(h) => Leq(half[s], Ratio(h, 2 * RateUnit))
  <2> DEFINE n == bps(s)
             d == 2 * RateUnit
  <2>1. n \in Int /\ n >= 0 /\ d \in Nat \ {0} /\ half[s] = Ratio(n, d)
    BY <1>4, <1>5
  <2>2. \A h \in Nat : SpreadsWithin(h) => n <= h
    BY <1>4
  <2> HIDE DEF n, d, half
  <2>3. half[s] \in Reduced /\ half[s].num >= 0
    BY <2>1, RatioSign
  <2>4. ASSUME NEW h \in Nat, SpreadsWithin(h) PROVE Leq(half[s], Ratio(h, d))
    <3>1. h \in Int /\ n <= h
      BY <2>2, <2>4
    <3>2. QED  BY <2>1, <3>1, RatioOrder
  <2>5. QED  BY <2>3, <2>4 DEF d
<1>7. slippage_cost(c, b, buys, sells) =
         Sum([s \in Symbol |-> Mul(Add(buys[s], sells[s]), half[s])])
  BY DEF slippage_cost, quoted, bps, dated
<1> HIDE DEF half
<1> DEFINE cost == [s \in Symbol |-> Mul(Add(buys[s], sells[s]), half[s])]
<1>8. DOMAIN cost = Symbol /\ slippage_cost(c, b, buys, sells) = Sum(cost)
  BY <1>7
<1> HIDE DEF cost
<1>9. slippage_cost(c, b, buys, sells) = SumOn(cost, Symbol)
  BY <1>8 DEF Sum, FoldFunction, SumOn
<1>10. HalfSpread(half, slippage_cost(c, b, buys, sells), buys, sells)
  BY <1>6, <1>9 DEF cost, HalfSpread
<1>11. QED  BY <1>10

----------------------------------------------------------------------------
(* Rupees of each symbol: fractions, and of one sign. *)
Positives(f) == \A s \in Symbol : f[s].num >= 0

LEMMA SlippageType ==
    ASSUME NEW c \in Call, NEW b \in Bar, NEW buys, Values(buys, Symbol), NEW sells, Values(sells, Symbol)
    PROVE  /\ slippage_cost(c, b, buys, sells) \in Reduced
           /\ Positives(buys) /\ Positives(sells) => slippage_cost(c, b, buys, sells).num >= 0
<1>0. PICK half : HalfSpread(half, slippage_cost(c, b, buys, sells), buys, sells)
  BY SlippageIs
<1>1. /\ \A s \in Symbol : half[s] \in Reduced /\ half[s].num >= 0
      /\ slippage_cost(c, b, buys, sells) =
            SumOn([s \in Symbol |-> Mul(Add(buys[s], sells[s]), half[s])], Symbol)
  BY <1>0 DEF HalfSpread
<1> DEFINE cost == [s \in Symbol |-> Mul(Add(buys[s], sells[s]), half[s])]
<1>2. ASSUME NEW s \in Symbol
      PROVE  /\ cost[s] \in Reduced
             /\ Positives(buys) /\ Positives(sells) => cost[s].num >= 0
  <2> DEFINE x == buys[s]
             y == sells[s]
             h == half[s]
             t == Add(x, y)
  <2>1. x \in Reduced /\ y \in Reduced /\ h \in Reduced /\ h.num >= 0
    BY <1>1 DEF Values
  <2>2. Positives(buys) /\ Positives(sells) => x.num >= 0 /\ y.num >= 0
    BY DEF Positives
  <2>3. cost[s] = Mul(t, h)
    OBVIOUS
  <2> HIDE DEF x, y, h, cost
  <2>4. t \in Reduced /\ (x.num >= 0 /\ y.num >= 0 => t.num >= 0)
    BY <2>1, AddType, AddSign
  <2> HIDE DEF t
  <2>5. QED  BY <2>1, <2>2, <2>3, <2>4, MulType, MulSign
<1>3. IsFiniteSet(Symbol) /\ Values(cost, Symbol)
  BY <1>2, BacktestAssumption DEF Values
<1>4. SumOn(cost, Symbol) \in Reduced
  BY <1>3, SumValue
<1>5. ASSUME Positives(buys), Positives(sells) PROVE SumOn(cost, Symbol).num >= 0
  BY <1>2, <1>3, <1>5, SumSign
<1>6. QED  BY <1>1, <1>4, <1>5

LEMMA ChargesType ==
    ASSUME NEW buys, Values(buys, Symbol), DOMAIN buys = Symbol,
           NEW sells, Values(sells, Symbol), DOMAIN sells = Symbol
    PROVE  /\ Charges(buys, sells) \in Reduced
           /\ Positives(buys) /\ Positives(sells) => Charges(buys, sells).num >= 0
<1> DEFINE bought == SumOn(buys, Symbol)
           sold == SumOn(sells, Symbol)
           forbuys == [s \in Symbol |-> Brokerage(buys[s])]
           forsells == [s \in Symbol |-> Brokerage(sells[s])]
           onbuys == SumOn(forbuys, Symbol)
           onsells == SumOn(forsells, Symbol)
           brokerage == Add(onbuys, onsells)
           rate == Rate(CostConfig.both_rate)
           gst == Rate(RateUnit + CostConfig.gst_rate)
           rb == Rate(CostConfig.buy_rate)
           rs == Rate(CostConfig.sell_rate)
           total == Add(bought, sold)
           both == Mul(total, rate)
           base == Add(brokerage, both)
           taxed == Mul(base, gst)
           tb == Mul(bought, rb)
           ts == Mul(sold, rs)
           stt == Add(tb, ts)
           good == Positives(buys) /\ Positives(sells)
<1>1. IsFiniteSet(Symbol)
  BY BacktestAssumption
<1>2. /\ Sum(buys) = bought /\ Sum(sells) = sold
      /\ Sum(forbuys) = onbuys /\ Sum(forsells) = onsells
  BY DEF Sum, FoldFunction, SumOn
<1>3. bought \in Reduced /\ sold \in Reduced /\ (good => bought.num >= 0 /\ sold.num >= 0)
  <2>1. bought \in Reduced /\ sold \in Reduced
    BY <1>1, SumValue
  <2>2. ASSUME good PROVE bought.num >= 0 /\ sold.num >= 0
    BY <1>1, <2>2, SumSign DEF Positives
  <2>3. QED  BY <2>1, <2>2
<1>4. ASSUME NEW f, Values(f, Symbol), NEW h, \A s \in Symbol : h[s] = Brokerage(f[s])
      PROVE  SumOn(h, Symbol) \in Reduced /\ (Positives(f) => SumOn(h, Symbol).num >= 0)
  <2>1. Values(h, Symbol) /\ (Positives(f) => \A s \in Symbol : h[s].num >= 0)
    BY <1>4, BrokerageType DEF Values, Positives
  <2>2. SumOn(h, Symbol) \in Reduced
    BY <1>1, <2>1, SumValue
  <2>3. ASSUME Positives(f) PROVE SumOn(h, Symbol).num >= 0
    BY <1>1, <2>1, <2>3, SumSign
  <2>4. QED  BY <2>2, <2>3
<1>5. onbuys \in Reduced /\ onsells \in Reduced /\ (good => onbuys.num >= 0 /\ onsells.num >= 0)
  <2>1. /\ \A s \in Symbol : forbuys[s] = Brokerage(buys[s])
        /\ \A s \in Symbol : forsells[s] = Brokerage(sells[s])
    OBVIOUS
  <2> HIDE DEF forbuys, forsells
  <2>2. QED  BY <1>4, <2>1
<1>6. /\ rate \in Reduced /\ gst \in Reduced /\ rb \in Reduced /\ rs \in Reduced
      /\ rate.num >= 0 /\ gst.num >= 0 /\ rb.num >= 0 /\ rs.num >= 0
  BY ConfigTypes, RateType
<1>7. Charges(buys, sells) = Add(taxed, stt)
  BY <1>2 DEF Charges
<1> HIDE DEF bought, sold, onbuys, onsells, rate, gst, rb, rs, good
<1>8. brokerage \in Reduced /\ (good => brokerage.num >= 0)
  BY <1>5, AddType, AddSign
<1>9. total \in Reduced /\ (good => total.num >= 0)
  BY <1>3, AddType, AddSign
<1> HIDE DEF brokerage, total
<1>10. both \in Reduced /\ (good => both.num >= 0)
  BY <1>6, <1>9, MulType, MulSign
<1> HIDE DEF both
<1>11. base \in Reduced /\ (good => base.num >= 0)
  BY <1>8, <1>10, AddType, AddSign
<1> HIDE DEF base
<1>12. taxed \in Reduced /\ (good => taxed.num >= 0)
  BY <1>6, <1>11, MulType, MulSign
<1>13. tb \in Reduced /\ ts \in Reduced /\ (good => tb.num >= 0 /\ ts.num >= 0)
  BY <1>3, <1>6, MulType, MulSign
<1> HIDE DEF taxed, tb, ts
<1>14. stt \in Reduced /\ (good => stt.num >= 0)
  BY <1>13, AddType, AddSign
<1> HIDE DEF stt
<1>15. Add(taxed, stt) \in Reduced /\ (good => Add(taxed, stt).num >= 0)
  BY <1>12, <1>14, AddType, AddSign
<1>16. QED  BY <1>7, <1>15 DEF good

(* What is bought and sold. *)
LEMMA RupeesType ==
    ASSUME NEW n \in Int, NEW v \in Reduced
    PROVE  /\ Rupees(n, v) \in Reduced
           /\ n >= 0 /\ v.num >= 0 => Rupees(n, v).num >= 0
           /\ n > 0 /\ v.num > 0 => Rupees(n, v).num > 0
           /\ n = 0 => Rupees(n, v) = Zero
<1> DEFINE w == Ratio(n, WeightUnit)
<1>1. WeightUnit \in Nat \ {0}
  BY BacktestAssumption
<1>2. w \in Reduced /\ (n >= 0 => w.num >= 0) /\ (n > 0 => w.num > 0) /\ (n = 0 => w.num = 0)
  BY <1>1, RatioSign
<1>3. Rupees(n, v) = Mul(w, v)
  BY DEF Rupees
<1> HIDE DEF w
<1>4. Mul(w, v) \in Reduced
  BY <1>2, MulType
<1>5. n >= 0 /\ v.num >= 0 => Mul(w, v).num >= 0
  BY <1>2, MulSign
<1>6. n > 0 /\ v.num > 0 => Mul(w, v).num > 0
  BY <1>2, MulSign
<1>7. n = 0 => Mul(w, v) = Zero
  BY <1>2, MulSign
<1>8. QED  BY <1>3, <1>4, <1>5, <1>6, <1>7

LEMMA AboveType == \A n \in Int : Above(n) \in Nat
  BY DEF Above

LEMMA TradesType ==
    ASSUME TablesTyped, NEW c \in Call, NEW i \in DOMAIN Common(c), NEW v \in Reduced
    PROVE  LET buys == Buys(Weights(c), i, v)
               sells == Sells(Weights(c), i, v)
           IN  /\ Values(buys, Symbol) /\ Values(sells, Symbol)
               /\ DOMAIN buys = Symbol /\ DOMAIN sells = Symbol
               /\ v.num >= 0 => Positives(buys) /\ Positives(sells)
<1> DEFINE buys == Buys(Weights(c), i, v)
           sells == Sells(Weights(c), i, v)
<1>1. ASSUME NEW s \in Symbol
      PROVE  /\ buys[s] \in Reduced /\ sells[s] \in Reduced
             /\ v.num >= 0 => buys[s].num >= 0 /\ sells[s].num >= 0
  <2> DEFINE new == Weights(c)[i][s]
             old == Held(Weights(c), i)[s]
  <2>1. new \in Int /\ old \in Int
    BY HeldType
  <2>2. buys[s] = Rupees(Above(new - old), v) /\ sells[s] = Rupees(Above(old - new), v)
    BY DEF Buys, Sells
  <2> HIDE DEF new, old, buys, sells
  <2>3. new - old \in Int /\ old - new \in Int
    BY <2>1
  <2> DEFINE up == Above(new - old)
             down == Above(old - new)
  <2>4. up \in Nat /\ down \in Nat
    BY <2>3, AboveType
  <2> HIDE DEF up, down
  <2>5. up \in Int /\ up >= 0 /\ down \in Int /\ down >= 0
    BY <2>4
  <2>6. /\ Rupees(up, v) \in Reduced /\ Rupees(down, v) \in Reduced
        /\ v.num >= 0 => Rupees(up, v).num >= 0 /\ Rupees(down, v).num >= 0
    BY <2>5, RupeesType
  <2>7. QED  BY <2>2, <2>6 DEF up, down
<1>2. DOMAIN buys = Symbol /\ DOMAIN sells = Symbol
  BY DEF Buys, Sells
<1>3. QED  BY <1>1, <1>2 DEF Values, Positives

(* What the trades of a bar cost. *)
Cost(c, b, buys, sells) == Add(Charges(buys, sells), slippage_cost(c, b, buys, sells))

LEMMA CostType ==
    ASSUME TablesTyped, NEW c \in Call, NEW i \in DOMAIN Common(c), NEW v \in Reduced
    PROVE  LET cost == Cost(c, Common(c)[i], Buys(Weights(c), i, v), Sells(Weights(c), i, v))
           IN  cost \in Reduced /\ (v.num >= 0 => cost.num >= 0)
<1> DEFINE buys == Buys(Weights(c), i, v)
           sells == Sells(Weights(c), i, v)
           b == Common(c)[i]
<1>1. /\ Values(buys, Symbol) /\ Values(sells, Symbol)
      /\ DOMAIN buys = Symbol /\ DOMAIN sells = Symbol
      /\ v.num >= 0 => Positives(buys) /\ Positives(sells)
  BY TradesType
<1>2. b \in Bar
  BY BarsInOrder DEF Both
<1> HIDE DEF buys, sells, b
<1> DEFINE x == Charges(buys, sells)
           y == slippage_cost(c, b, buys, sells)
<1>3. x \in Reduced /\ (v.num >= 0 => x.num >= 0)
  BY <1>1, ChargesType
<1>4. y \in Reduced /\ (v.num >= 0 => y.num >= 0)
  BY <1>1, <1>2, SlippageType
<1>5. Cost(c, b, buys, sells) = Add(x, y)
  BY DEF Cost
<1> HIDE DEF x, y
<1>6. Add(x, y) \in Reduced /\ (v.num >= 0 => Add(x, y).num >= 0)
  BY <1>3, <1>4, AddType, AddSign
<1>7. QED  BY <1>5, <1>6 DEF buys, sells, b

----------------------------------------------------------------------------
(* The values and trades of a call are fractions. *)

LEMMA SubType ==
    ASSUME NEW a \in Reduced, NEW b \in Reduced
    PROVE  Sub(a, b) \in Reduced /\ Neg(a) \in Reduced
<1> DEFINE c == a
<1>1. c \in Reduced
  OBVIOUS
<1> HIDE DEF c
<1>2. QED  BY <1>1, Sums

Computed(r, i) ==
    /\ r.gross[i] \in Reduced /\ r.net[i] \in Reduced
    /\ Values(r.trades[i], Symbol) /\ DOMAIN r.trades[i] = Symbol

(* What is left of the value when the trades of a bar are paid for. *)
NetOf(c, r, i) ==
    LET v == Mul(Before(r.net, i), Growth(c, i))
        buys == Buys(Weights(c), i, v)
        sells == Sells(Weights(c), i, v)
    IN  /\ r.net[i] = Sub(v, Cost(c, Common(c)[i], buys, sells))
        /\ r.trades[i] = Traded(buys, sells)

LEMMA BeforeType ==
    ASSUME NEW r, NEW c \in Call, NEW i \in DOMAIN Common(c), i # 1 => Computed(r, i - 1)
    PROVE  Before(r.gross, i) \in Reduced /\ Before(r.net, i) \in Reduced
<1>1. Whole(initial_capital) \in Reduced
  BY BacktestAssumption, WholeReduced
<1>2. QED  BY <1>1 DEF Before, Computed

LEMMA DoneComputed ==
    ASSUME TablesTyped, NEW r, NEW c \in Call, NEW i \in DOMAIN Common(c), Done(c, r, i),
           i # 1 => Computed(r, i - 1)
    PROVE  /\ Computed(r, i)
           /\ r.gross[i] = Mul(Before(r.gross, i), Growth(c, i))
           /\ NetOf(c, r, i)
<1> DEFINE g == Before(r.gross, i)
           m == Before(r.net, i)
           f == Growth(c, i)
           v == Mul(m, f)
           buys == Buys(Weights(c), i, v)
           sells == Sells(Weights(c), i, v)
           cost == Cost(c, Common(c)[i], buys, sells)
<1>1. g \in Reduced /\ m \in Reduced
  BY BeforeType
<1>2. f \in Reduced
  BY EarnedType
<1>3. /\ r.gross[i] = Mul(g, f)
      /\ r.net[i] = Sub(v, cost)
      /\ r.trades[i] = Traded(buys, sells)
  BY GrownIs DEF Done, Paid, Cost
<1>11. NetOf(c, r, i)
  BY <1>3 DEF NetOf
<1>4. Mul(g, f) \in Reduced /\ v \in Reduced
  <2> HIDE DEF g, m, f
  <2>1. QED  BY <1>1, <1>2, MulType
<1> HIDE DEF v
<1>5. cost \in Reduced
  BY <1>4, CostType
<1>6. Values(buys, Symbol) /\ Values(sells, Symbol)
  BY <1>4, TradesType
<1> HIDE DEF buys, sells, cost, g, f
<1>7. \A s \in Symbol : Sub(buys[s], sells[s]) \in Reduced
  BY <1>6, SubType DEF Values
<1>8. Values(r.trades[i], Symbol) /\ DOMAIN r.trades[i] = Symbol
  BY <1>3, <1>7 DEF Traded, Values
<1>9. Sub(v, cost) \in Reduced
  BY <1>4, <1>5, SubType
<1>10. QED  BY <1>3, <1>4, <1>8, <1>9, <1>11 DEF Computed, g, f

LEMMA AllComputed ==
    ASSUME TablesTyped, NEW c \in Call, NEW r, Follows(c, r)
    PROVE  /\ \A i \in 1..Len(r.net) : Computed(r, i) /\ i \in DOMAIN Common(c)
           /\ \A i \in 1..Len(r.net) : /\ r.gross[i] = Mul(Before(r.gross, i), Growth(c, i))
                                      /\ NetOf(c, r, i)
<1> DEFINE n == Len(r.net)
           G == {i \in Nat : i = 0 \/ Computed(r, i)}
<1>1. n \in Nat
  BY DEF Follows, IsSeq
<1>2. \A i \in 1..n : i \in DOMAIN Common(c) /\ Done(c, r, i) /\ i \in Nat
  <2>1. DOMAIN Common(c) = 1..Len(Common(c)) /\ Len(Common(c)) \in Nat
    BY BarsInOrder
  <2>2. n = 0 \/ n <= Len(Common(c))
    BY DEF Follows
  <2>3. \A i \in 1..n : i \in DOMAIN Common(c) /\ i \in Nat
    BY <1>1, <2>1, <2>2
  <2>4. QED  BY <2>3 DEF Follows
<1>3. ASSUME NEW j \in 0..(n - 1), j \in G PROVE j + 1 \in G
  <2> DEFINE i == j + 1
  <2>1. i \in 1..n /\ i \in Nat /\ i - 1 = j /\ (i # 1 => j # 0)
    BY <1>1
  <2> HIDE DEF i
  <2>2. i # 1 => Computed(r, i - 1)
    BY <1>3, <2>1
  <2>3. Computed(r, i)
    BY <1>2, <2>1, <2>2, DoneComputed
  <2>4. i \in G
    BY <2>1, <2>3
  <2>5. QED  BY <2>4 DEF i
<1>4. \A i \in 0..n : i \in G
  <2> DEFINE zero == 0
  <2>1. zero \in Nat /\ zero \in G /\ \A j \in zero..(n - 1) : j \in G => j + 1 \in G
    BY <1>3
  <2> HIDE DEF G, n, zero
  <2>2. \A j \in zero..n : j \in G
    BY <1>1, <2>1, Upwards
  <2>3. QED  BY <2>2 DEF zero
<1>5. \A i \in 1..n : Computed(r, i)
  BY <1>1, <1>4
<1>6. ASSUME NEW i \in 1..n
      PROVE  r.gross[i] = Mul(Before(r.gross, i), Growth(c, i)) /\ NetOf(c, r, i)
  <2>1. i # 1 => i - 1 \in 1..n
    BY <1>1
  <2>2. i # 1 => Computed(r, i - 1)
    BY <1>5, <2>1
  <2>3. QED  BY <1>2, <2>2, DoneComputed
<1>7. QED  BY <1>2, <1>5, <1>6

----------------------------------------------------------------------------
LEMMA RatioOne ==
    ASSUME NEW d \in Nat \ {0}
    PROVE  Ratio(d, d) = Whole(1)
<1>1. 1 \in Int /\ 1 \in Nat \ {0} /\ d \in Int /\ d * 1 = 1 * d
  OBVIOUS
<1>2. Ratio(d, d) = Ratio(1, 1)
  <2> DEFINE u == 1
  <2>1. u \in Int /\ u \in Nat \ {0} /\ d * u = u * d
    OBVIOUS
  <2> HIDE DEF u
  <2>2. Ratio(d, d) = Ratio(u, u)
    BY <1>1, <2>1, RatioSame
  <2>3. QED  BY <2>2 DEF u
<1>3. QED  BY <1>1, <1>2, WholeReduced

LEMMA RatioChain ==
    ASSUME NEW x \in Nat \ {0}, NEW y \in Nat \ {0}, NEW z \in Nat \ {0}
    PROVE  Mul(Ratio(y, x), Ratio(z, y)) = Ratio(z, x)
<1>1. Mul(Ratio(y, x), Ratio(z, y)) = Ratio(y * z, x * y)
  BY RatioMul
<1>2. (y * z) * x = z * (x * y) /\ y * z \in Int /\ x * y \in Int /\ x * y > 0
  OBVIOUS
<1> DEFINE p == y * z
           q == x * y
<1>3. p \in Int /\ q \in Nat \ {0} /\ p * x = z * q
  BY <1>2
<1> HIDE DEF p, q
<1>4. Ratio(p, q) = Ratio(z, x)
  BY <1>3, RatioSame
<1>5. QED  BY <1>1, <1>4 DEF p, q

----------------------------------------------------------------------------
(* A symbol that is all of the portfolio. *)

LEMMA MaxIs ==
    ASSUME NEW S \in SUBSET Nat, NEW x \in S, \A y \in S : y <= x
    PROVE  Max(S) = x
<1>1. \A y \in S : x >= y
  OBVIOUS
<1>2. \A y \in S : (\A z \in S : y >= z) => y = x
  <2>1. SUFFICES ASSUME NEW y \in S, \A z \in S : y >= z PROVE y = x
    OBVIOUS
  <2>2. y >= x /\ x >= y /\ x \in Nat /\ y \in Nat
    BY <1>1, <2>1
  <2>3. QED  BY <2>2
<1>3. QED  BY <1>1, <1>2 DEF Max

LEMMA KnownAt ==
    ASSUME NEW c \in Call, NEW i \in DOMAIN Common(c), NEW s \in Symbol,
           Prices(c, Common(c)[i])[s] # None
    PROVE  /\ Known(c, i, s) = Prices(c, Common(c)[i])[s]
           /\ \A j \in DOMAIN Common(c) : pads /\ i <= j /\ TablesTyped => Known(c, j, s) # None
<1> DEFINE bars == Common(c)
           quoted(j) == {k \in 1..j : Prices(c, bars[k])[s] # None}
<1>1. DOMAIN bars = 1..Len(bars) /\ Len(bars) \in Nat /\ \A j \in DOMAIN bars : bars[j] \in Both(c)
  BY BarsInOrder
<1>2. \A j \in DOMAIN bars : LastPrice(c, bars, j, s) =
         IF quoted(j) = {} THEN None ELSE Prices(c, bars[Max(quoted(j))])[s]
  BY DEF LastPrice
<1> HIDE DEF bars
<1>3. i \in Nat /\ i \in 1..i /\ i \in DOMAIN bars /\ Prices(c, bars[i])[s] # None
  BY <1>1 DEF bars
<1>4. i \in quoted(i) /\ quoted(i) \in SUBSET Nat /\ \A k \in quoted(i) : k <= i
  BY <1>3
<1>5. Max(quoted(i)) = i
  <2> HIDE DEF quoted
  <2>1. QED  BY <1>4, MaxIs
<1>6. LastPrice(c, bars, i, s) = Prices(c, bars[i])[s]
  BY <1>2, <1>3, <1>4, <1>5
<1>7. ASSUME NEW j \in DOMAIN bars, i <= j, TablesTyped PROVE LastPrice(c, bars, j, s) # None
  <2>1. j \in Nat /\ \A k \in 1..j : k \in DOMAIN bars
    BY <1>1
  <2>2. i \in quoted(j) /\ quoted(j) \in SUBSET Nat /\ quoted(j) \in SUBSET (1..j) /\ IsFiniteSet(1..j)
    BY <1>3, <1>7, <2>1, FS_Interval
  <2>3. IsFiniteSet(quoted(j)) /\ quoted(j) # {}
    BY <2>2, FS_Subset
  <2>4. Max(quoted(j)) \in quoted(j)
    <3> HIDE DEF quoted
    <3>1. QED  BY <2>2, <2>3, MaxFound
  <2>5. Prices(c, bars[Max(quoted(j))])[s] # None
    BY <2>4
  <2>6. QED  BY <1>2, <2>3, <2>5
<1>8. QED  BY <1>3, <1>6, <1>7 DEF Known, bars

LEMMA GrowthOfOne ==
    ASSUME TablesTyped, NEW c \in Call, NEW j \in DOMAIN Common(c), j # 1, NEW s \in Symbol,
           Weights(c)[j - 1] = [Nothing EXCEPT ![s] = WeightUnit],
           Known(c, j, s) # None, Known(c, j - 1, s) # None
    PROVE  Growth(c, j) = Ratio(Known(c, j, s), Known(c, j - 1, s))
<1> DEFINE x == Known(c, j, s)
           y == Known(c, j - 1, s)
           f == Earned(c, j)
           R(z) == Return(c, Common(c), j, z)
<1>1. WeightUnit \in Nat \ {0} /\ IsFiniteSet(Symbol)
  BY BacktestAssumption
<1>2. Held(Weights(c), j)[s] = WeightUnit /\ \A z \in Symbol \ {s} : Held(Weights(c), j)[z] = 0
  BY DEF Held, Nothing
<1>3. x \in Nat \ {0} /\ y \in Nat \ {0}
  BY BarBefore, KnownType DEF Quote
<1>4. \A z \in Symbol : R(z) \in Reduced
  BY ReturnType
<1>5. f[s] = R(s)
  <2>1. f[s] = Mul(Ratio(WeightUnit, WeightUnit), R(s))
    BY <1>2 DEF Earned
  <2>2. Ratio(WeightUnit, WeightUnit) = Whole(1)
    BY <1>1, RatioOne
  <2> HIDE DEF R, f
  <2>3. QED  BY <1>4, <2>1, <2>2, MulOne DEF One
<1>6. \A z \in Symbol \ {s} : f[z] = Zero
  <2>1. SUFFICES ASSUME NEW z \in Symbol \ {s} PROVE f[z] = Zero
    OBVIOUS
  <2>2. f[z] = Mul(Ratio(0, WeightUnit), R(z))
    BY <1>2 DEF Earned
  <2>3. Ratio(0, WeightUnit) = Zero
    BY <1>1, ZeroIn
  <2>4. R(z) \in Reduced
    BY <1>4
  <2> HIDE DEF R, f
  <2>5. QED  BY <2>2, <2>3, <2>4, ZeroReduced, MulSign
<1>7. SumOn(f, Symbol) = R(s)
  <2>1. f[s] \in Reduced
    BY <1>4, <1>5
  <2> HIDE DEF f, R
  <2>2. SumOn(f, Symbol) = f[s]
    BY <1>1, <1>6, <2>1, SumOfOne
  <2>3. QED  BY <1>5, <2>2
<1>8. Add(Whole(1), R(s)) = Ratio(x, y)
  <2>1. R(s) = Ratio(x - y, y)
    BY ReturnIs
  <2> HIDE DEF x, y, R
  <2>2. Whole(1) = Ratio(y, y) /\ x - y \in Int /\ y \in Int /\ y + (x - y) = x
    BY <1>3, RatioOne
  <2> DEFINE t == x - y
  <2>3. t \in Int /\ Add(Ratio(y, y), Ratio(t, y)) = Ratio(y + t, y)
    BY <1>3, <2>2, RatioAdd
  <2>4. QED  BY <2>1, <2>2, <2>3
<1>10. QED  BY <1>7, <1>8 DEF Growth

(* A holding that is kept from the i-th bar up to the k-th. *)
Kept(c, s, i, k) ==
    /\ \A j \in i..k : Known(c, j, s) # None
    /\ \A j \in i..(k - 1) : Weights(c)[j] = [Nothing EXCEPT ![s] = WeightUnit]

LEMMA HoldingGrows ==
    ASSUME TablesTyped, NEW c \in Call, NEW r, Follows(c, r), NEW s \in Symbol,
           NEW i \in 1..Len(r.net), NEW k \in 1..Len(r.net), i < k,
           Kept(c, s, i, k)
    PROVE  r.gross[k] = Mul(r.gross[i], Ratio(Known(c, k, s), Known(c, i, s)))
<1> DEFINE n == Len(r.net)
           g == r.gross[i]
           q(j) == Known(c, j, s)
           G == {j \in Nat : r.gross[j] = Mul(g, Ratio(q(j), q(i)))}
<1>1. n \in Nat
  BY DEF Follows, IsSeq
<1>2. /\ \A j \in 1..n : Computed(r, j) /\ j \in DOMAIN Common(c)
      /\ \A j \in 1..n : r.gross[j] = Mul(Before(r.gross, j), Growth(c, j))
  BY AllComputed
<1>3. i \in Nat /\ k \in Nat /\ i >= 1 /\ i \in i..k /\ k \in i..k /\ \A j \in i..k : j \in 1..n /\ j \in Nat
  BY <1>1
<1>4. \A j \in i..k : q(j) \in Nat \ {0} /\ q(j) # None
  BY <1>2, <1>3, KnownType DEF Quote, Kept
<1>5. g \in Reduced
  BY <1>2 DEF Computed
<1>6. i \in G
  <2>1. Ratio(q(i), q(i)) = Whole(1)
    BY <1>3, <1>4, RatioOne
  <2> HIDE DEF g, q
  <2>2. Mul(g, Whole(1)) = g
    BY <1>5, MulOne DEF One
  <2>3. QED  BY <1>3, <2>1, <2>2 DEF g
<1>7. ASSUME NEW j \in i..(k - 1), j \in G PROVE j + 1 \in G
  <2> DEFINE m == j + 1
             x == q(i)
             y == q(j)
             z == q(m)
  <2>1. /\ j \in i..k /\ m \in i..k /\ j \in Nat /\ m \in Nat /\ m - 1 = j /\ m # 1
        /\ m \in 1..n /\ m \in DOMAIN Common(c)
    BY <1>2, <1>3
  <2>2. Growth(c, m) = Ratio(Known(c, m, s), Known(c, j, s))
    <3> HIDE DEF m, G
    <3>1. Weights(c)[m - 1] = [Nothing EXCEPT ![s] = WeightUnit]
      BY <2>1, <1>7 DEF Kept
    <3>2. Known(c, m, s) # None /\ Known(c, m - 1, s) # None
      BY <1>4, <2>1
    <3>3. Growth(c, m) = Ratio(Known(c, m, s), Known(c, m - 1, s))
      BY <2>1, <3>1, <3>2, GrowthOfOne
    <3>4. QED  BY <2>1, <3>3
  <2>3. r.gross[m] = Mul(r.gross[j], Growth(c, m))
    <3> HIDE DEF m
    <3>1. Before(r.gross, m) = r.gross[j]
      BY <2>1 DEF Before
    <3>2. QED  BY <1>2, <2>1, <3>1
  <2>4. r.gross[j] = Mul(g, Ratio(y, x))
    BY <1>7
  <2>5. x \in Nat \ {0} /\ y \in Nat \ {0} /\ z \in Nat \ {0}
    <3> HIDE DEF m
    <3>1. QED  BY <1>3, <1>4, <2>1
  <2>6. Growth(c, m) = Ratio(z, y)
    BY <2>2
  <2> HIDE DEF g, m, x, y, z, q
  <2>7. x \in Int /\ y \in Int /\ z \in Int
    BY <2>5
  <2>8. Ratio(y, x) \in Reduced /\ Ratio(z, y) \in Reduced
    BY <2>5, <2>7, RatioSign
  <2>9. Mul(Mul(g, Ratio(y, x)), Ratio(z, y)) = Mul(g, Mul(Ratio(y, x), Ratio(z, y)))
    BY <1>5, <2>8, MulGroups
  <2>10. Mul(Ratio(y, x), Ratio(z, y)) = Ratio(z, x)
    BY <2>5, RatioChain
  <2>11. r.gross[m] = Mul(g, Ratio(z, x))
    BY <2>3, <2>4, <2>6, <2>9, <2>10
  <2>12. QED  BY <2>1, <2>11 DEF m, x, z
<1>8. \A j \in i..k : j \in G
  <2> HIDE DEF G
  <2>1. QED  BY <1>3, <1>6, <1>7, Upwards
<1>9. QED  BY <1>3, <1>8

(* The inputs stay, and are of their types. *)
LEMMA TypedAlways == Spec => []TablesTyped
<1>1. Init => TablesTyped
  BY DEF Init, TablesTyped
<1>2. TablesTyped /\ [Next]_vars => TablesTyped'
  <2>1. SUFFICES ASSUME TablesTyped, [Next]_vars PROVE TablesTyped'
    OBVIOUS
  <2>2. UNCHANGED <<signals, prices>>
    BY <2>1 DEF Next, Start, Iterate, Finish, TaxRow, vars, inputs
  <2>3. QED  BY <2>1, <2>2 DEF TablesTyped, Bar
<1>3. QED  BY <1>1, <1>2, PTL DEF Spec

(* A symbol that is all of a portfolio from one bar to another earns the    *)
(* ratio of its prices, exactly, however many bars lie between and whatever *)
(* the other symbols do (the loop of backtest, engine.py, and pct_change).  *)
THEOREM HoldingsEarn == Spec => []HoldingEarns
<1>1. EngineInv /\ TablesTyped => HoldingEarns
  <2>1. SUFFICES ASSUME EngineInv, TablesTyped, NEW c \in Call, NEW s \in Symbol,
                        NEW i \in DOMAIN result[c].gross, NEW k \in DOMAIN result[c].gross, i < k,
                        Prices(c, result[c].bars[i])[s] # None,
                        Prices(c, result[c].bars[k])[s] # None,
                        \A j \in i..(k - 1) :
                           /\ result[c].weights[j] = [Nothing EXCEPT ![s] = WeightUnit]
                           /\ pads \/ Prices(c, result[c].bars[j])[s] # None
                 PROVE  result[c].gross[k] =
                           Mul(result[c].gross[i], Ratio(Prices(c, result[c].bars[k])[s],
                                                         Prices(c, result[c].bars[i])[s]))
    BY DEF HoldingEarns
  <2> DEFINE r == result[c]
             n == Len(r.net)
  <2>2. Follows(c, r)
    BY <2>1 DEF EngineInv
  <2>3. n \in Nat /\ DOMAIN r.gross = 1..n
    BY <2>2 DEF Follows, IsSeq
  <2>4. r.bars = Common(c) /\ r.weights = Weights(c)
    <3>1. n # 0
      BY <2>3
    <3>2. QED  BY <2>2, <3>1 DEF Follows
  <2>5. i \in 1..n /\ k \in 1..n /\ i \in Nat /\ k \in Nat /\ \A j \in i..k : j \in 1..n /\ i <= j
    BY <2>3
  <2>6. \A j \in 1..n : j \in DOMAIN Common(c)
    BY <2>1, <2>2, AllComputed
  <2>7. /\ Prices(c, Common(c)[i])[s] # None
        /\ Prices(c, Common(c)[k])[s] # None
        /\ \A j \in i..(k - 1) : /\ Weights(c)[j] = [Nothing EXCEPT ![s] = WeightUnit]
                                 /\ pads \/ Prices(c, Common(c)[j])[s] # None
    BY <2>1, <2>4
  <2> HIDE DEF r, n
  <2>8. /\ Known(c, i, s) = Prices(c, Common(c)[i])[s]
        /\ Known(c, k, s) = Prices(c, Common(c)[k])[s]
    BY <2>5, <2>6, <2>7, KnownAt
  <2>9. \A j \in i..k : Known(c, j, s) # None
    <3>1. SUFFICES ASSUME NEW j \in i..k PROVE Known(c, j, s) # None
      OBVIOUS
    <3>2. j \in DOMAIN Common(c) /\ i <= j /\ (j = k \/ j \in i..(k - 1))
      BY <2>5, <2>6
    <3>3. CASE pads
      BY <2>1, <2>5, <2>6, <2>7, <3>2, <3>3, KnownAt
    <3>4. CASE ~pads
      <4>1. Prices(c, Common(c)[j])[s] # None
        BY <2>7, <3>2, <3>4
      <4>2. QED  BY <3>2, <4>1, KnownAt
    <3>5. QED  BY <3>3, <3>4
  <2>10. i \in 1..Len(r.net) /\ k \in 1..Len(r.net)
    BY <2>5 DEF n
  <2>11. r.gross[k] = Mul(r.gross[i], Ratio(Known(c, k, s), Known(c, i, s)))
    <3>1. Kept(c, s, i, k)
      BY <2>7, <2>9 DEF Kept
    <3>2. TablesTyped /\ i < k
      BY <2>1
    <3>3. QED  BY <2>2, <2>10, <3>1, <3>2, HoldingGrows
  <2>12. QED  BY <2>4, <2>8, <2>11 DEF r
<1>2. QED  BY <1>1, EngineSafe, TypedAlways, PTL

----------------------------------------------------------------------------
(* Order. *)
LEMMA OrderLaws ==
    ASSUME NEW a \in Reduced, NEW b \in Reduced, NEW e \in Reduced
    PROVE  /\ Leq(a, b) /\ Leq(b, e) => Leq(a, e)
           /\ e.num >= 0 => Leq(Sub(a, e), a)
           /\ Leq(a, b) => Leq(Add(a, e), Add(b, e))
           /\ Sub(a, e).num > 0 <=> ~Leq(a, e)
           /\ Sub(a, e).num <= 0 <=> Leq(a, e)
           /\ Leq(Neg(a), Neg(b)) <=> Leq(b, a)
<1>1. PICK d \in Nat \ {0} : In(a, d) /\ In(b, d) /\ In(e, d)
  BY ShareDenominator
<1>2. PICK x \in Int : a = Ratio(x, d)
  BY <1>1 DEF In
<1>3. PICK y \in Int : b = Ratio(y, d)
  BY <1>1 DEF In
<1>4. PICK z \in Int : e = Ratio(z, d)
  BY <1>1 DEF In
<1>5. Leq(a, b) <=> x <= y
  BY <1>2, <1>3, RatioOrder
<1>6. Leq(b, e) <=> y <= z
  BY <1>3, <1>4, RatioOrder
<1>7. Leq(a, e) <=> x <= z
  BY <1>2, <1>4, RatioOrder
<1>8. Sub(a, e) = Ratio(x - z, d) /\ x - z \in Int
  BY <1>2, <1>4, RatioSub
<1>9. Leq(Sub(a, e), a) <=> x - z <= x
  BY <1>2, <1>8, RatioOrder
<1>10. e.num >= 0 <=> z >= 0
  BY <1>4, RatioSign
<1>11. Add(a, e) = Ratio(x + z, d) /\ Add(b, e) = Ratio(y + z, d) /\ x + z \in Int /\ y + z \in Int
  BY <1>2, <1>3, <1>4, RatioAdd
<1>12. Leq(Add(a, e), Add(b, e)) <=> x + z <= y + z
  BY <1>11, RatioOrder
<1>13. (Sub(a, e).num > 0 <=> x - z > 0) /\ (Sub(a, e).num <= 0 <=> x - z <= 0)
  BY <1>8, RatioSign
<1>14. Neg(a) = Ratio(-x, d) /\ Neg(b) = Ratio(-y, d) /\ -x \in Int /\ -y \in Int
  BY <1>2, <1>3, RatioNeg
<1>15. Leq(Neg(a), Neg(b)) <=> -x <= -y
  BY <1>14, RatioOrder
<1>16. Leq(b, a) <=> y <= x
  BY <1>2, <1>3, RatioOrder
<1>17. QED  BY <1>5, <1>6, <1>7, <1>9, <1>10, <1>12, <1>13, <1>15, <1>16

LEMMA OrderTimes ==
    ASSUME NEW a \in Reduced, NEW b \in Reduced, NEW f \in Reduced, Leq(a, b)
    PROVE  /\ f.num >= 0 => Leq(Mul(a, f), Mul(b, f))
           /\ f.num <= 0 => Leq(Mul(b, f), Mul(a, f))
<1>1. PICK d \in Nat \ {0} : In(a, d) /\ In(b, d)
  BY ShareDenominator
<1>2. PICK x \in Int : a = Ratio(x, d)
  BY <1>1 DEF In
<1>3. PICK y \in Int : b = Ratio(y, d)
  BY <1>1 DEF In
<1>4. In(f, f.den) /\ f.den \in Nat \ {0}
  BY InOwn
<1>5. PICK e \in Nat \ {0} : In(f, e)
  BY <1>4
<1>6. PICK z \in Int : f = Ratio(z, e)
  BY <1>5 DEF In
<1>7. Mul(a, f) = Ratio(x * z, d * e) /\ Mul(b, f) = Ratio(y * z, d * e)
  BY <1>2, <1>3, <1>6, RatioMul
<1> DEFINE xz == x * z
           yz == y * z
           de == d * e
<1>8. xz \in Int /\ yz \in Int /\ de \in Nat \ {0}
  BY Products
<1>9. x <= y
  BY <1>2, <1>3, RatioOrder
<1>10. (f.num >= 0 <=> z >= 0) /\ (f.num <= 0 <=> z <= 0)
  BY <1>6, RatioSign
<1>11. /\ z >= 0 => xz <= yz
       /\ z <= 0 => yz <= xz
  <2>1. y - x \in Int /\ y - x >= 0
    BY <1>9
  <2>2. (y - x) * z = yz - xz
    OBVIOUS
  <2>3. z >= 0 => (y - x) * z >= 0
    BY <2>1, Products
  <2>4. z <= 0 => (y - x) * (-z) >= 0
    <3>1. z <= 0 => -z >= 0 /\ -z \in Int
      OBVIOUS
    <3>2. QED  BY <2>1, <3>1, Products
  <2>5. (y - x) * (-z) = xz - yz
    OBVIOUS
  <2> HIDE DEF xz, yz
  <2>6. QED  BY <1>8, <2>2, <2>3, <2>4, <2>5
<1> HIDE DEF xz, yz, de
<1>12. Leq(Ratio(xz, de), Ratio(yz, de)) <=> xz <= yz
  BY <1>8, RatioOrder
<1>13. Leq(Ratio(yz, de), Ratio(xz, de)) <=> yz <= xz
  BY <1>8, RatioOrder
<1>14. QED  BY <1>7, <1>10, <1>11, <1>12, <1>13 DEF xz, yz, de

(* The net and the gross value before a bar. *)
LEMMA ValuesBefore ==
    ASSUME TablesTyped, NEW c \in Call, NEW r, Follows(c, r), NEW i \in 1..Len(r.net)
    PROVE  /\ Before(r.net, i) \in Reduced /\ Before(r.gross, i) \in Reduced
           /\ i \in DOMAIN Common(c) /\ i \in Nat /\ Computed(r, i)
           /\ i # 1 => i - 1 \in 1..Len(r.net)
<1>1. Len(r.net) \in Nat
  BY DEF Follows, IsSeq
<1>2. i \in Nat /\ (i # 1 => i - 1 \in 1..Len(r.net))
  BY <1>1
<1>3. i \in DOMAIN Common(c) /\ Computed(r, i) /\ (i # 1 => Computed(r, i - 1))
  BY <1>2, AllComputed
<1>4. QED  BY <1>2, <1>3, BeforeType

(* As long as both values are positive, the net one is at most the gross.  *)
Alive(r, i) == \A k \in 1..i : Positive(r.net[k]) /\ Positive(r.gross[k])

LEMMA CostLowers ==
    ASSUME TablesTyped, NEW c \in Call, NEW r, Follows(c, r), NEW i \in 1..Len(r.net),
           Growth(c, i).num >= 0, Positive(Before(r.net, i)), Leq(Before(r.net, i), Before(r.gross, i))
    PROVE  Leq(r.net[i], r.gross[i])
<1> DEFINE m == Before(r.net, i)
           g == Before(r.gross, i)
           f == Growth(c, i)
           v == Mul(m, f)
           w == Mul(g, f)
           cost == Cost(c, Common(c)[i], Buys(Weights(c), i, v), Sells(Weights(c), i, v))
<1>1. m \in Reduced /\ g \in Reduced /\ i \in DOMAIN Common(c) /\ Computed(r, i)
  BY ValuesBefore
<1>2. f \in Reduced /\ f.num >= 0 /\ m.num > 0 /\ Leq(m, g)
  BY <1>1, EarnedType DEF Positive
<1>3. r.net[i] = Sub(v, cost) /\ r.gross[i] = w
  BY AllComputed DEF NetOf
<1> HIDE DEF m, g, f
<1>14. m.num >= 0
  BY <1>1, <1>2, ReducedParts, Parts
<1>4. v \in Reduced /\ w \in Reduced /\ v.num >= 0
  BY <1>1, <1>2, <1>14, MulType, MulSign
<1>6. Leq(v, w)
  BY <1>1, <1>2, OrderTimes
<1> HIDE DEF v, w
<1>7. cost \in Reduced /\ cost.num >= 0
  BY <1>1, <1>4, CostType
<1> HIDE DEF cost
<1>8. Sub(v, cost) \in Reduced /\ Leq(Sub(v, cost), v)
  BY <1>4, <1>7, SubType, OrderLaws
<1> DEFINE n == Sub(v, cost)
<1>9. n \in Reduced /\ Leq(n, v)
  BY <1>8
<1> HIDE DEF n
<1>10. Leq(n, w)
  BY <1>4, <1>6, <1>9, OrderLaws
<1>11. QED  BY <1>3, <1>10 DEF n

LEMMA AliveBelow ==
    ASSUME TablesTyped, NEW c \in Call, NEW r, Follows(c, r), NEW n \in 1..Len(r.net), Alive(r, n)
    PROVE  Leq(r.net[n], r.gross[n])
<1> DEFINE G == {j \in Nat : j = 0 \/ Leq(r.net[j], r.gross[j])}
<1>1. n \in Nat /\ n >= 1 /\ Len(r.net) \in Nat /\ \A i \in 1..n : i \in 1..Len(r.net) /\ i \in Nat
  BY DEF Follows, IsSeq
<1>2. ASSUME NEW j \in 0..(n - 1), j \in G PROVE j + 1 \in G
  <2> DEFINE i == j + 1
             m == Before(r.net, i)
             g == Before(r.gross, i)
             f == Growth(c, i)
  <2>1. i \in 1..n /\ i \in 1..Len(r.net) /\ i \in Nat /\ i - 1 = j /\ (i # 1 => j \in 1..n /\ j # 0)
    BY <1>1
  <2> HIDE DEF i
  <2>2. m \in Reduced /\ g \in Reduced /\ i \in DOMAIN Common(c) /\ f \in Reduced /\ r.gross[i] = Mul(g, f)
    BY <2>1, ValuesBefore, EarnedType, AllComputed
  <2>3. Positive(m) /\ Leq(m, g) /\ Positive(g)
    <3>1. CASE i = 1
      <4>1. m = Whole(initial_capital) /\ g = m /\ initial_capital \in Int /\ initial_capital > 0
        BY <3>1, BacktestAssumption DEF Before
      <4>2. m.num > 0
        BY <4>1, WholeReduced
      <4> HIDE DEF m, g
      <4>3. QED  BY <2>2, <4>1, <4>2, LeqIs DEF Positive
    <3>2. CASE i # 1
      <4>1. m = r.net[j] /\ g = r.gross[j]
        BY <2>1, <3>2 DEF Before
      <4>2. Positive(r.net[j]) /\ Positive(r.gross[j])
        BY <2>1, <3>2 DEF Alive
      <4>3. Leq(r.net[j], r.gross[j])
        BY <1>2, <2>1, <3>2
      <4>4. QED  BY <4>1, <4>2, <4>3
    <3>3. QED  BY <3>1, <3>2
  <2>4. Positive(r.gross[i])
    BY <2>1 DEF Alive
  <2> DEFINE h == Mul(g, f)
  <2>5. f.num > 0
    <3> HIDE DEF g, f
    <3>1. h.num > 0 /\ g.num > 0 /\ f.num \in Int
      BY <2>2, <2>3, <2>4, ReducedParts, Parts DEF Positive
    <3>2. h.num \in Int
      BY <2>2, MulType, ReducedParts, Parts
    <3>3. CASE f.num < 0
      <4>1. Mul(f, g).num < 0
        BY <2>2, <3>1, <3>3, MulSign
      <4>2. Mul(f, g) = h
        BY <2>2, MulType
      <4>3. QED  BY <3>1, <3>2, <4>1, <4>2
    <3>4. CASE f.num = 0
      <4>1. h = Zero
        BY <2>2, <3>4, MulSign
      <4>2. QED  BY <3>1, <4>1, ZeroReduced
    <3>5. QED  BY <3>1, <3>3, <3>4
  <2>6. Growth(c, i).num >= 0
    <3> HIDE DEF f
    <3>1. f.num \in Int
      BY <2>2, ReducedParts, Parts
    <3>2. QED  BY <2>5, <3>1 DEF f
  <2>7. Leq(r.net[i], r.gross[i])
    BY <2>1, <2>3, <2>6, CostLowers
  <2>8. QED  BY <2>1, <2>7 DEF i
<1>3. \A j \in 0..n : j \in G
  <2> DEFINE zero == 0
  <2>1. zero \in Nat /\ zero \in G /\ \A j \in zero..(n - 1) : j \in G => j + 1 \in G
    BY <1>2
  <2> HIDE DEF G, zero
  <2>2. \A j \in zero..n : j \in G
    BY <1>1, <2>1, Upwards
  <2>3. QED  BY <2>2 DEF zero
<1>4. QED  BY <1>1, <1>3

----------------------------------------------------------------------------
(* Order and sums. *)
LEMMA LeqAdd ==
    ASSUME NEW a \in Reduced, NEW b \in Reduced, NEW p \in Reduced, NEW q \in Reduced,
           Leq(a, b), Leq(p, q)
    PROVE  Leq(Add(a, p), Add(b, q))
<1>1. Add(a, p) \in Reduced /\ Add(b, p) \in Reduced /\ Add(b, q) \in Reduced
  BY AddType
<1>2. Leq(Add(a, p), Add(b, p))
  BY OrderLaws
<1>3. Leq(Add(p, b), Add(q, b))
  BY OrderLaws
<1>4. Add(p, b) = Add(b, p) /\ Add(q, b) = Add(b, q)
  BY Sums
<1>5. QED  BY <1>1, <1>2, <1>3, <1>4, OrderLaws

LEMMA SumOrder ==
    ASSUME NEW S, IsFiniteSet(S), NEW f, NEW h, Values(f, S), Values(h, S),
           \A x \in S : Leq(f[x], h[x])
    PROVE  Leq(SumOn(f, S), SumOn(h, S))
<1> DEFINE G == {T \in SUBSET S : Leq(SumOn(f, T), SumOn(h, T))}
<1>1. {} \in G
  BY SumNone, ZeroReduced, LeqIs
<1>2. ASSUME NEW T \in SUBSET S, NEW x \in S \ T, T \in G
      PROVE  T \union {x} \in G
  <2>1. IsFiniteSet(T) /\ Values(f, T) /\ Values(h, T) /\ f[x] \in Reduced /\ h[x] \in Reduced
    BY FS_Subset DEF Values
  <2> DEFINE a == f[x]
             b == h[x]
             p == SumOn(f, T)
             q == SumOn(h, T)
             more == T \union {x}
  <2>2. SumOn(f, more) = Add(a, p) /\ a \in Reduced /\ p \in Reduced
    BY <2>1, SumMore
  <2>3. SumOn(h, more) = Add(b, q) /\ b \in Reduced /\ q \in Reduced
    BY <2>1, SumMore
  <2>4. Leq(a, b) /\ Leq(p, q)
    BY <1>2
  <2> HIDE DEF a, b, p, q
  <2>5. Leq(Add(a, p), Add(b, q))
    BY <2>2, <2>3, <2>4, LeqAdd
  <2>6. QED  BY <2>2, <2>3, <2>5
<1> HIDE DEF G
<1>3. S \in G
  BY <1>1, <1>2, FromEmpty
<1>4. QED  BY <1>3 DEF G

(* A part of a loss, times something. *)
LEMMA LossOrder ==
    ASSUME NEW a \in Reduced, NEW b \in Reduced, a.num <= 0, b.num <= 0
    PROVE  Leq(Add(a, b), a) /\ Leq(Add(a, b), b)
<1>1. Leq(a, Zero) /\ Leq(b, Zero) /\ Leq(a, a) /\ Leq(b, b) /\ Zero \in Reduced
  BY LeqIs, ZeroReduced
<1>2. Leq(Add(a, b), Add(a, Zero)) /\ Leq(Add(a, b), Add(Zero, b))
  <2> DEFINE zero == Zero
  <2>1. zero \in Reduced /\ Leq(a, zero) /\ Leq(b, zero)
    BY <1>1
  <2> HIDE DEF zero
  <2>2. Leq(Add(a, b), Add(a, zero)) /\ Leq(Add(a, b), Add(zero, b))
    BY <1>1, <2>1, LeqAdd
  <2>3. QED  BY <2>2 DEF zero
<1>3. QED  BY <1>2, AddZero

LEMMA MulSpreadsLeft ==
    ASSUME NEW a \in Reduced, NEW b \in Reduced, NEW c \in Reduced
    PROVE  Mul(Add(b, c), a) = Add(Mul(b, a), Mul(c, a))
<1> DEFINE t == Add(b, c)
<1>1. t \in Reduced
  BY AddType
<1>2. Mul(a, t) = Add(Mul(a, b), Mul(a, c))
  BY MulSpreads
<1> HIDE DEF t
<1>3. Mul(a, t) = Mul(t, a) /\ Mul(a, b) = Mul(b, a) /\ Mul(a, c) = Mul(c, a)
  BY <1>1, MulType
<1>4. QED  BY <1>2, <1>3 DEF t

----------------------------------------------------------------------------
(* What trading a rupee costs at most, when no order is too small. *)
TaxedRate == Mul(Add(Rate(CostConfig.brokerage_rate), Rate(CostConfig.both_rate)),
                 Rate(RateUnit + CostConfig.gst_rate))

Charge(h) ==
    Add(Add(TaxedRate, Add(Rate(CostConfig.buy_rate), Rate(CostConfig.sell_rate))),
        Ratio(h, 2 * RateUnit))

Losses(f) == \A s \in Symbol : f[s].num <= 0

LEMMA SumLoss ==
    ASSUME NEW f, Values(f, Symbol), Losses(f)
    PROVE  SumOn(f, Symbol) \in Reduced /\ SumOn(f, Symbol).num <= 0
<1> DEFINE z == [s \in Symbol |-> Zero]
<1>1. IsFiniteSet(Symbol) /\ Zero \in Reduced
  BY BacktestAssumption, ZeroReduced
<1>2. Values(z, Symbol) /\ \A s \in Symbol : z[s] = Zero
  BY <1>1 DEF Values
<1> HIDE DEF z
<1>3. \A s \in Symbol : Leq(f[s], z[s])
  <2>1. SUFFICES ASSUME NEW s \in Symbol PROVE Leq(f[s], Zero)
    BY <1>2
  <2>2. f[s] \in Reduced /\ f[s].num <= 0
    BY DEF Values, Losses
  <2>3. QED  BY <2>2, LeqIs
<1>4. SumOn(z, Symbol) = Zero
  BY <1>1, <1>2, SumOfZeros
<1>5. SumOn(f, Symbol) \in Reduced
  BY <1>1, SumValue
<1>6. Leq(SumOn(f, Symbol), SumOn(z, Symbol))
  BY <1>1, <1>2, <1>3, SumOrder
<1>7. QED  BY <1>4, <1>5, <1>6, LeqIs

(* On trades that are negative, the charges are at least the rate. *)
LEMMA BrokerageOfLosses ==
    ASSUME NEW f, Values(f, Symbol), Losses(f), NEW h, \A s \in Symbol : h[s] = Brokerage(f[s])
    PROVE  SumOn(h, Symbol) = Mul(SumOn(f, Symbol), Rate(CostConfig.brokerage_rate))
<1> DEFINE r == Rate(CostConfig.brokerage_rate)
<1>1. r \in Reduced /\ IsFiniteSet(Symbol)
  BY ConfigTypes, RateType, BacktestAssumption
<1>2. \A s \in Symbol : h[s] = Mul(r, f[s])
  <2>1. SUFFICES ASSUME NEW s \in Symbol PROVE h[s] = Mul(r, f[s])
    OBVIOUS
  <2>2. f[s] \in Reduced /\ ~Positive(f[s])
    <3>1. f[s] \in Reduced /\ f[s].num <= 0
      BY DEF Values, Losses
    <3>2. f[s].num \in Int
      BY <3>1, ReducedParts, Parts
    <3>3. QED  BY <3>1, <3>2 DEF Positive
  <2>3. h[s] = Mul(f[s], r)
    BY <2>2 DEF Brokerage
  <2> HIDE DEF r
  <2>4. QED  BY <1>1, <2>2, <2>3, MulType
<1> HIDE DEF r
<1>3. SumOn(h, Symbol) = Mul(r, SumOn(f, Symbol))
  BY <1>1, <1>2, SumOfMultiples
<1>4. SumOn(f, Symbol) \in Reduced
  BY <1>1, SumValue
<1>5. QED  BY <1>1, <1>3, <1>4, MulType DEF r

LEMMA ChargesOfLosses ==
    ASSUME NEW buys, Values(buys, Symbol), DOMAIN buys = Symbol, Losses(buys),
           NEW sells, Values(sells, Symbol), DOMAIN sells = Symbol, Losses(sells)
    PROVE  LET total == Add(SumOn(buys, Symbol), SumOn(sells, Symbol))
           IN  Leq(Mul(total, Add(TaxedRate, Add(Rate(CostConfig.buy_rate), Rate(CostConfig.sell_rate)))),
                   Charges(buys, sells))
<1> DEFINE bought == SumOn(buys, Symbol)
           sold == SumOn(sells, Symbol)
           forbuys == [s \in Symbol |-> Brokerage(buys[s])]
           forsells == [s \in Symbol |-> Brokerage(sells[s])]
           onbuys == SumOn(forbuys, Symbol)
           onsells == SumOn(forsells, Symbol)
           br == Rate(CostConfig.brokerage_rate)
           bo == Rate(CostConfig.both_rate)
           gst == Rate(RateUnit + CostConfig.gst_rate)
           rb == Rate(CostConfig.buy_rate)
           rs == Rate(CostConfig.sell_rate)
           total == Add(bought, sold)
           base == Add(Add(onbuys, onsells), Mul(total, bo))
           stt == Add(Mul(bought, rb), Mul(sold, rs))
<1>1. /\ Sum(buys) = bought /\ Sum(sells) = sold
      /\ Sum(forbuys) = onbuys /\ Sum(forsells) = onsells
  BY DEF Sum, FoldFunction, SumOn
<1>2. bought \in Reduced /\ sold \in Reduced /\ bought.num <= 0 /\ sold.num <= 0
  BY SumLoss
<1>3. onbuys = Mul(bought, br) /\ onsells = Mul(sold, br)
  <2>1. /\ \A s \in Symbol : forbuys[s] = Brokerage(buys[s])
        /\ \A s \in Symbol : forsells[s] = Brokerage(sells[s])
    OBVIOUS
  <2> HIDE DEF forbuys, forsells
  <2>2. QED  BY <2>1, BrokerageOfLosses
<1>4. /\ br \in Reduced /\ bo \in Reduced /\ gst \in Reduced /\ rb \in Reduced /\ rs \in Reduced
      /\ rb.num >= 0 /\ rs.num >= 0
  BY ConfigTypes, RateType
<1>5. Charges(buys, sells) = Add(Mul(base, gst), stt)
  BY <1>1 DEF Charges
<1>6. TaxedRate = Mul(Add(br, bo), gst)
  BY DEF TaxedRate
<1> HIDE DEF bought, sold, onbuys, onsells, br, bo, gst, rb, rs
<1>7. total \in Reduced /\ Leq(total, bought) /\ Leq(total, sold)
  BY <1>2, AddType, LossOrder
<1>8. Add(onbuys, onsells) = Mul(total, br)
  BY <1>2, <1>3, <1>4, MulSpreadsLeft
<1> HIDE DEF total
<1>9. base = Mul(total, Add(br, bo)) /\ Add(br, bo) \in Reduced
  BY <1>4, <1>7, <1>8, MulSpreads, AddType
<1> DEFINE rate == Add(br, bo)
           taxed == Mul(rate, gst)
<1>10. rate \in Reduced /\ base = Mul(total, rate)
  BY <1>9
<1> HIDE DEF rate, base
<1>11. taxed \in Reduced /\ Mul(base, gst) = Mul(total, taxed)
  BY <1>4, <1>7, <1>10, MulType, MulGroups
<1> HIDE DEF taxed
<1> DEFINE tb == Mul(total, rb)
           ts == Mul(total, rs)
           xb == Mul(bought, rb)
           xs == Mul(sold, rs)
           tt == Mul(total, taxed)
           tr == Add(rb, rs)
<1>12. tb \in Reduced /\ ts \in Reduced /\ xb \in Reduced /\ xs \in Reduced /\ tt \in Reduced /\ tr \in Reduced
  BY <1>2, <1>4, <1>7, <1>11, MulType, AddType
<1>13. Leq(tb, xb) /\ Leq(ts, xs)
  BY <1>2, <1>4, <1>7, OrderTimes
<1>14. Mul(total, tr) = Add(tb, ts)
  BY <1>4, <1>7, MulSpreads
<1>15. Mul(total, Add(taxed, tr)) = Add(tt, Mul(total, tr))
  <2> HIDE DEF tr
  <2>1. QED  BY <1>7, <1>11, <1>12, MulSpreads
<1> HIDE DEF tb, ts, xb, xs, tt
<1>16. Leq(Add(tb, ts), Add(xb, xs)) /\ Add(tb, ts) \in Reduced /\ Add(xb, xs) \in Reduced
  BY <1>12, <1>13, LeqAdd, AddType
<1> DEFINE p == Add(tb, ts)
           q == Add(xb, xs)
<1>17. p \in Reduced /\ q \in Reduced /\ Leq(p, q) /\ Leq(tt, tt)
  BY <1>12, <1>16, LeqIs
<1> HIDE DEF p, q
<1>18. Leq(Add(tt, p), Add(tt, q))
  BY <1>12, <1>17, LeqAdd
<1>19. Charges(buys, sells) = Add(tt, q)
  BY <1>5, <1>11 DEF tt, q, xb, xs
<1>20. Mul(total, Add(taxed, tr)) = Add(tt, p)
  BY <1>14, <1>15 DEF p
<1>21. Leq(Mul(total, Add(taxed, tr)), Charges(buys, sells))
  BY <1>18, <1>19, <1>20
<1>22. QED  BY <1>6, <1>21 DEF total, taxed, rate, bought, sold, rb, rs
----------------------------------------------------------------------------
LEMMA SlippageOfLosses ==
    ASSUME NEW c \in Call, NEW b \in Bar, NEW h \in Nat, SpreadsWithin(h),
           NEW buys, Values(buys, Symbol), Losses(buys),
           NEW sells, Values(sells, Symbol), Losses(sells)
    PROVE  Leq(Mul(Add(SumOn(buys, Symbol), SumOn(sells, Symbol)), Ratio(h, 2 * RateUnit)),
               slippage_cost(c, b, buys, sells))
<1>0. PICK half : HalfSpread(half, slippage_cost(c, b, buys, sells), buys, sells)
  BY SlippageIs
<1> DEFINE most == Ratio(h, 2 * RateUnit)
           traded == [s \in Symbol |-> Add(buys[s], sells[s])]
           cost == [s \in Symbol |-> Mul(Add(buys[s], sells[s]), half[s])]
           least == [s \in Symbol |-> Mul(most, traded[s])]
           total == Add(SumOn(buys, Symbol), SumOn(sells, Symbol))
<1>1. /\ \A s \in Symbol : half[s] \in Reduced /\ Leq(half[s], most)
      /\ slippage_cost(c, b, buys, sells) = SumOn(cost, Symbol)
  BY <1>0 DEF HalfSpread
<1>2. most \in Reduced /\ IsFiniteSet(Symbol)
  <2>1. 2 * RateUnit \in Nat \ {0} /\ h \in Int
    BY ConfigTypes
  <2>2. QED  BY <2>1, RatioSign, BacktestAssumption
<1> HIDE DEF most
<1>3. ASSUME NEW s \in Symbol
      PROVE  /\ traded[s] \in Reduced /\ cost[s] \in Reduced /\ least[s] \in Reduced
             /\ Leq(least[s], cost[s])
  <2> DEFINE x == buys[s]
             y == sells[s]
             k == half[s]
             t == Add(x, y)
  <2>1. x \in Reduced /\ y \in Reduced /\ x.num <= 0 /\ y.num <= 0 /\ k \in Reduced /\ Leq(k, most)
    BY <1>1 DEF Values, Losses
  <2>2. traded[s] = t /\ cost[s] = Mul(t, k) /\ least[s] = Mul(most, t)
    OBVIOUS
  <2> HIDE DEF x, y, k, cost, traded, least
  <2>3. t \in Reduced /\ t.num <= 0
    BY <2>1, AddType, AddSign
  <2> HIDE DEF t
  <2>4. Leq(Mul(most, t), Mul(k, t))
    BY <1>2, <2>1, <2>3, OrderTimes
  <2>5. Mul(k, t) = Mul(t, k) /\ Mul(t, k) \in Reduced /\ Mul(most, t) \in Reduced
    BY <1>2, <2>1, <2>3, MulType
  <2>6. QED  BY <2>2, <2>3, <2>4, <2>5
<1>4. Values(traded, Symbol) /\ Values(cost, Symbol) /\ Values(least, Symbol)
  BY <1>3 DEF Values
<1>5. \A s \in Symbol : traded[s] = Add(buys[s], sells[s]) /\ least[s] = Mul(most, traded[s])
  OBVIOUS
<1> HIDE DEF cost, traded, least
<1>6. Leq(SumOn(least, Symbol), SumOn(cost, Symbol))
  BY <1>2, <1>3, <1>4, SumOrder
<1>7. SumOn(traded, Symbol) = total
  BY <1>2, <1>5, SumOfSums
<1>8. SumOn(least, Symbol) = Mul(most, SumOn(traded, Symbol))
  BY <1>2, <1>4, <1>5, SumOfMultiples
<1>9. total \in Reduced
  BY <1>2, <1>4, <1>7, SumValue
<1> HIDE DEF total
<1>10. Mul(most, total) = Mul(total, most)
  BY <1>2, <1>9, MulType
<1>11. QED  BY <1>1, <1>6, <1>7, <1>8, <1>10 DEF most, total

LEMMA ChargeType ==
    ASSUME NEW h \in Nat
    PROVE  /\ Ratio(h, 2 * RateUnit) \in Reduced /\ Charge(h) \in Reduced /\ Charge(h).num >= 0
           /\ Add(TaxedRate, Add(Rate(CostConfig.buy_rate), Rate(CostConfig.sell_rate))) \in Reduced
<1> DEFINE br == Rate(CostConfig.brokerage_rate)
           bo == Rate(CostConfig.both_rate)
           gst == Rate(RateUnit + CostConfig.gst_rate)
           rb == Rate(CostConfig.buy_rate)
           rs == Rate(CostConfig.sell_rate)
           most == Ratio(h, 2 * RateUnit)
           x == Add(br, bo)
           y == Mul(x, gst)
           z == Add(rb, rs)
           u == Add(y, z)
<1>1. /\ br \in Reduced /\ bo \in Reduced /\ gst \in Reduced /\ rb \in Reduced /\ rs \in Reduced
      /\ br.num >= 0 /\ bo.num >= 0 /\ gst.num >= 0 /\ rb.num >= 0 /\ rs.num >= 0
  BY ConfigTypes, RateType
<1>2. most \in Reduced /\ most.num >= 0
  <2>1. 2 * RateUnit \in Nat \ {0} /\ h \in Int
    BY ConfigTypes
  <2>2. QED  BY <2>1, RatioSign
<1>3. TaxedRate = y /\ Charge(h) = Add(u, most)
  BY DEF TaxedRate, Charge
<1> HIDE DEF br, bo, gst, rb, rs, most
<1>4. x \in Reduced /\ x.num >= 0 /\ z \in Reduced /\ z.num >= 0
  BY <1>1, AddType, AddSign
<1> HIDE DEF x, z
<1>5. y \in Reduced /\ y.num >= 0
  BY <1>1, <1>4, MulType, MulSign
<1> HIDE DEF y
<1>6. u \in Reduced /\ u.num >= 0
  BY <1>4, <1>5, AddType, AddSign
<1>7. Add(TaxedRate, Add(Rate(CostConfig.buy_rate), Rate(CostConfig.sell_rate))) = u
  BY <1>3 DEF z, rb, rs
<1> HIDE DEF u
<1>8. Add(u, most) \in Reduced /\ Add(u, most).num >= 0
  BY <1>2, <1>6, AddType, AddSign
<1>9. QED  BY <1>2, <1>3, <1>6, <1>7, <1>8 DEF most

LEMMA CostOfLosses ==
    ASSUME NEW c \in Call, NEW b \in Bar, NEW h \in Nat, SpreadsWithin(h),
           NEW buys, Values(buys, Symbol), DOMAIN buys = Symbol, Losses(buys),
           NEW sells, Values(sells, Symbol), DOMAIN sells = Symbol, Losses(sells),
           Charges(buys, sells) \in Reduced, slippage_cost(c, b, buys, sells) \in Reduced
    PROVE  Leq(Mul(Add(SumOn(buys, Symbol), SumOn(sells, Symbol)), Charge(h)), Cost(c, b, buys, sells))
<1> DEFINE total == Add(SumOn(buys, Symbol), SumOn(sells, Symbol))
           most == Ratio(h, 2 * RateUnit)
           u == Add(TaxedRate, Add(Rate(CostConfig.buy_rate), Rate(CostConfig.sell_rate)))
           p == Charges(buys, sells)
           q == slippage_cost(c, b, buys, sells)
<1>1. most \in Reduced /\ u \in Reduced /\ Charge(h) = Add(u, most)
  BY ChargeType DEF Charge
<1>2. total \in Reduced
  BY SumLoss, AddType
<1>3. Leq(Mul(total, u), p) /\ p \in Reduced
  BY ChargesOfLosses
<1>4. Leq(Mul(total, most), q) /\ q \in Reduced
  BY SlippageOfLosses
<1>5. Cost(c, b, buys, sells) = Add(p, q)
  BY DEF Cost
<1> HIDE DEF total, most, u, p, q
<1>6. Mul(total, Add(u, most)) = Add(Mul(total, u), Mul(total, most))
  BY <1>1, <1>2, MulSpreads
<1>7. Mul(total, u) \in Reduced /\ Mul(total, most) \in Reduced
  BY <1>1, <1>2, MulType
<1> DEFINE x == Mul(total, u)
           y == Mul(total, most)
<1>8. x \in Reduced /\ y \in Reduced /\ Leq(x, p) /\ Leq(y, q)
  BY <1>3, <1>4, <1>7
<1> HIDE DEF x, y
<1>9. Leq(Add(x, y), Add(p, q))
  BY <1>3, <1>4, <1>8, LeqAdd
<1>10. QED  BY <1>1, <1>5, <1>6, <1>9 DEF total, x, y

----------------------------------------------------------------------------
(* What a portfolio turns over. *)
Gross(w) == MapThenSumSet(LAMBDA s : IF w[s] < 0 THEN -w[s] ELSE w[s], Symbol)

Sizes(w) == [s \in Symbol |-> Ratio(Size(w[s]), WeightUnit)]

LEMMA GrossIs ==
    ASSUME NEW w, \A s \in Symbol : w[s] \in Int
    PROVE  /\ Gross(w) \in Int /\ Values(Sizes(w), Symbol)
           /\ SumOn(Sizes(w), Symbol) = Ratio(Gross(w), WeightUnit)
<1> DEFINE Is(c) == c = [s \in SUBSET Symbol |->
                            IF s = {} THEN 0
                            ELSE (IF w[Pick(s)] < 0 THEN -w[Pick(s)] ELSE w[Pick(s)]) + c[s \ {Pick(s)}]]
           c == CHOOSE c : Is(c)
           zero == 0
           add == [s \in Symbol |-> [n \in Int |-> Size(w[s]) + n]]
           W == WeightUnit
<1>1. Gross(w) = c[Symbol]
  BY Zenon DEF Gross, MapThenSumSet, MapThenFoldSet, Pick
<1>2. IsFiniteSet(Symbol) /\ W \in Nat \ {0}
  BY BacktestAssumption
<1>3. \A s \in Symbol : Size(w[s]) \in Int
  BY DEF Size
<1>4. add \in [Symbol -> [Int -> Int]] /\ zero \in Int
  BY <1>3
<1>5. PICK g : FoldsTo(g, Symbol, Int, zero, add)
  <2> HIDE DEF add, zero
  <2>1. QED  BY <1>2, <1>4, FoldExists
<1>6. ASSUME NEW s \in SUBSET Symbol, s # {}
      PROVE  /\ Pick(s) \in Symbol /\ g[s \ {Pick(s)}] \in Int
             /\ g[s] = Size(w[Pick(s)]) + g[s \ {Pick(s)}]
  <2>1. Pick(s) \in Symbol
    BY <1>6, PickIn
  <2>2. g[s \ {Pick(s)}] \in Int
    BY <1>5, <1>6 DEF FoldsTo
  <2>3. g[s] = add[Pick(s)][g[s \ {Pick(s)}]]
    BY <1>5, <1>6 DEF FoldsTo
  <2>4. QED  BY <2>1, <2>2, <2>3
<1>7. Is(g)
  <2>1. g = [s \in SUBSET Symbol |-> g[s]] /\ g[{}] = 0
    BY <1>5 DEF FoldsTo
  <2>2. \A s \in SUBSET Symbol : s # {} =>
           g[s] = (IF w[Pick(s)] < 0 THEN -w[Pick(s)] ELSE w[Pick(s)]) + g[s \ {Pick(s)}]
    BY <1>6 DEF Size
  <2>3. QED  BY <2>1, <2>2
<1>8. Is(c)
  BY <1>7
<1>9. c[Symbol] = g[Symbol]
  <2>1. c[{}] = g[{}]
    BY <1>7, <1>8
  <2>2. ASSUME NEW s \in SUBSET Symbol, s # {}, c[s \ {Pick(s)}] = g[s \ {Pick(s)}]
        PROVE  c[s] = g[s]
    <3> DEFINE v == IF w[Pick(s)] < 0 THEN -w[Pick(s)] ELSE w[Pick(s)]
    <3>1. c[s] = v + c[s \ {Pick(s)}]
      BY <1>8, <2>2
    <3>2. g[s] = v + g[s \ {Pick(s)}]
      BY <1>7, <2>2
    <3>3. QED  BY <2>2, <3>1, <3>2
  <2> HIDE DEF c, Is
  <2>3. \A s \in SUBSET Symbol : c[s] = g[s]
    BY <1>2, <2>1, <2>2, AgreeOnSubsets
  <2>4. QED  BY <2>3
<1>10. Gross(w) = g[Symbol] /\ g[Symbol] \in Int
  BY <1>1, <1>5, <1>9 DEF FoldsTo
<1>11. Values(Sizes(w), Symbol)
  BY <1>2, <1>3, RatioSign DEF Values, Sizes
<1>12. PICK k : FoldsTo(k, Symbol, Reduced, Zero, Adding(Sizes(w), Symbol)) /\ SumOn(Sizes(w), Symbol) = k[Symbol]
  BY <1>2, <1>11, SumFolds
<1> DEFINE h == [s \in SUBSET Symbol |-> Ratio(g[s], W)]
<1>13. k[{}] = h[{}]
  <2>1. k[{}] = Zero /\ g[{}] = zero
    BY <1>5, <1>12 DEF FoldsTo
  <2>2. h[{}] = Ratio(0, W)
    BY <2>1
  <2>3. Zero = Ratio(0, W)
    <3> HIDE DEF W
    <3>1. QED  BY <1>2, ZeroIn
  <2>4. QED  BY <2>1, <2>2, <2>3
<1>14. ASSUME NEW s \in SUBSET Symbol, s # {}, k[s \ {Pick(s)}] = h[s \ {Pick(s)}]
       PROVE  k[s] = h[s]
  <2> DEFINE x == Pick(s)
             rest == s \ {x}
             m == Size(w[x])
             n == g[rest]
  <2>1. x \in Symbol /\ n \in Int /\ g[s] = m + n /\ m \in Int
    BY <1>3, <1>6, <1>14
  <2>2. k[s] = Adding(Sizes(w), Symbol)[x][k[rest]] /\ k[rest] \in Reduced
    BY <1>12, <1>14 DEF FoldsTo
  <2>3. k[s] = Add(Sizes(w)[x], k[rest])
    <3> HIDE DEF x, rest
    <3>1. QED  BY <2>1, <2>2 DEF Adding
  <2>4. Sizes(w)[x] = Ratio(m, W)
    <3> HIDE DEF x
    <3>1. QED  BY <2>1 DEF Sizes
  <2>5. k[rest] = Ratio(n, W) /\ h[s] = Ratio(m + n, W)
    BY <1>14, <2>1
  <2> HIDE DEF m, n, W, x, rest, h
  <2>6. Add(Ratio(m, W), Ratio(n, W)) = Ratio(m + n, W)
    BY <1>2, <2>1, RatioAdd
  <2>7. QED  BY <2>3, <2>4, <2>5, <2>6
<1>15. \A s \in SUBSET Symbol : k[s] = h[s]
  <2> HIDE DEF h
  <2>1. QED  BY <1>2, <1>13, <1>14, AgreeOnSubsets
<1>16. SumOn(Sizes(w), Symbol) = Ratio(g[Symbol], W)
  BY <1>12, <1>15
<1>17. QED  BY <1>10, <1>11, <1>16
----------------------------------------------------------------------------
Leverages(l) == max_leverage <= l /\ max_leverage_intraday <= l

LEMMA GrossWithin ==
    ASSUME TablesTyped, NEW c \in Call, Valid(Weights(c)), NEW i \in DOMAIN Common(c),
           NEW l \in Nat, Leverages(l)
    PROVE  /\ Gross(Weights(c)[i]) \in Int /\ Gross(Weights(c)[i]) <= l * WeightUnit
           /\ Gross(Held(Weights(c), i)) \in Int /\ Gross(Held(Weights(c), i)) <= l * WeightUnit
<1>1. WeightUnit \in Nat \ {0} /\ IsFiniteSet(Symbol) /\ l * WeightUnit \in Nat
  BY BacktestAssumption
<1>2. ASSUME NEW k \in DOMAIN Common(c)
      PROVE  Gross(Weights(c)[k]) \in Int /\ Gross(Weights(c)[k]) <= l * WeightUnit
  <2> DEFINE w == Weights(c)[k]
             m == IF intraday THEN max_leverage_intraday ELSE max_leverage
  <2>1. \A s \in Symbol : w[s] \in Int
    BY HeldType
  <2>2. k \in DOMAIN Weights(c)
    BY DEF Weights
  <2>3. Gross(w) <= m * WeightUnit
    BY <2>2 DEF Valid, Gross
  <2>4. m \in Nat /\ m <= l
    BY BacktestAssumption DEF Leverages
  <2> HIDE DEF w, m
  <2>5. Gross(w) \in Int
    BY <2>1, GrossIs
  <2> DEFINE x == m * WeightUnit
             y == l * WeightUnit
  <2>6. x <= y /\ x \in Int /\ y \in Int
    <3>1. l - m \in Nat /\ (l - m) * WeightUnit >= 0 /\ (l - m) * WeightUnit = y - x
      BY <1>1, <2>4
    <3>2. x \in Int /\ y \in Int
      BY <1>1, <2>4
    <3> HIDE DEF x, y
    <3>3. QED  BY <3>1, <3>2
  <2>7. Gross(w) <= x
    BY <2>3
  <2> HIDE DEF x
  <2>8. Gross(w) <= y
    <3> HIDE DEF y
    <3>1. QED  BY <2>5, <2>6, <2>7
  <2>9. QED  BY <2>5, <2>8 DEF w
<1>3. CASE i # 1
  <2>1. Held(Weights(c), i) = Weights(c)[i - 1] /\ i - 1 \in DOMAIN Common(c)
    BY <1>3, BarBefore DEF Held
  <2>2. QED  BY <1>2, <2>1
<1>4. CASE i = 1
  <2> DEFINE g == Gross(Nothing)
             sizes == Sizes(Nothing)
             zero == 0
  <2>1. Held(Weights(c), i) = Nothing /\ (\A s \in Symbol : Nothing[s] = zero) /\ zero \in Int
    BY <1>4 DEF Held, Nothing
  <2>2. g \in Int /\ SumOn(sizes, Symbol) = Ratio(g, WeightUnit)
    BY <2>1, GrossIs
  <2>3. \A s \in Symbol : sizes[s] = Ratio(zero, WeightUnit)
    BY <2>1 DEF Sizes, Size
  <2>4. Ratio(zero, WeightUnit) = Zero
    BY <1>1, ZeroIn
  <2> HIDE DEF g, sizes
  <2>5. SumOn(sizes, Symbol) = Zero
    BY <1>1, <2>3, <2>4, SumOfZeros
  <2>6. g = zero
    <3>1. Ratio(g, WeightUnit) = Ratio(zero, WeightUnit) /\ zero \in Int
      BY <2>1, <2>2, <2>4, <2>5
    <3> HIDE DEF zero
    <3>2. QED  BY <1>1, <2>2, <3>1, RatioOrder
  <2>7. g <= l * WeightUnit
    BY <1>1, <2>6
  <2>8. QED  BY <1>2, <2>1, <2>2, <2>7 DEF g
<1>5. QED  BY <1>2, <1>3, <1>4

(* The parts of a change of weights. *)
LEMMA AboveParts ==
    ASSUME NEW n \in Int, NEW o \in Int
    PROVE  /\ Above(n - o) \in Int /\ Above(o - n) \in Int
           /\ Above(n - o) + Above(o - n) = Size(n - o)
           /\ Size(n - o) \in Int /\ Size(n) \in Int /\ Size(o) \in Int
           /\ Size(n - o) <= Size(n) + Size(o)
           /\ Above(n - o) >= 0 /\ Above(o - n) >= 0
  BY DEF Above, Size

LEMMA TradedLosses ==
    ASSUME TablesTyped, NEW c \in Call, NEW i \in DOMAIN Common(c), NEW v \in Reduced, v.num <= 0
    PROVE  Losses(Buys(Weights(c), i, v)) /\ Losses(Sells(Weights(c), i, v))
<1>1. ASSUME NEW n \in Int, n >= 0 PROVE Rupees(n, v).num <= 0
  <2> DEFINE w == Ratio(n, WeightUnit)
             zero == Zero
             x == Mul(w, v)
  <2>1. WeightUnit \in Nat \ {0}
    BY BacktestAssumption
  <2>2. w \in Reduced /\ w.num >= 0 /\ Rupees(n, v) = x
    BY <1>1, <2>1, RatioSign DEF Rupees
  <2>3. Leq(v, zero) /\ zero \in Reduced
    BY LeqIs, ZeroReduced
  <2>8. Mul(zero, w) = Zero
    <3> HIDE DEF w
    <3>1. QED  BY <2>2, ZeroReduced, MulSign
  <2> HIDE DEF w, zero
  <2>4. Leq(Mul(v, w), Mul(zero, w))
    BY <2>2, <2>3, OrderTimes
  <2>5. Mul(v, w) = x /\ x \in Reduced
    BY <2>2, MulType
  <2>6. Leq(x, Zero)
    BY <2>4, <2>5, <2>8
  <2> HIDE DEF x
  <2>7. QED  BY <2>2, <2>5, <2>6, LeqIs
<1>2. ASSUME NEW s \in Symbol
      PROVE  Buys(Weights(c), i, v)[s].num <= 0 /\ Sells(Weights(c), i, v)[s].num <= 0
  <2> DEFINE new == Weights(c)[i][s]
             old == Held(Weights(c), i)[s]
  <2>1. new \in Int /\ old \in Int
    BY HeldType
  <2>2. /\ Buys(Weights(c), i, v)[s] = Rupees(Above(new - old), v)
        /\ Sells(Weights(c), i, v)[s] = Rupees(Above(old - new), v)
    BY DEF Buys, Sells
  <2> HIDE DEF new, old
  <2>3. Above(new - old) \in Int /\ Above(old - new) \in Int /\ Above(new - old) >= 0 /\ Above(old - new) >= 0
    BY <2>1, AboveParts
  <2>4. QED  BY <1>1, <2>2, <2>3
<1>3. QED  BY <1>2 DEF Losses

LEMMA Turnover ==
    ASSUME TablesTyped, NEW c \in Call, Valid(Weights(c)), NEW i \in DOMAIN Common(c),
           NEW v \in Reduced, v.num <= 0, NEW l \in Nat, Leverages(l)
    PROVE  Leq(Mul(v, Whole(2 * l)),
               Add(SumOn(Buys(Weights(c), i, v), Symbol), SumOn(Sells(Weights(c), i, v), Symbol)))
<1> DEFINE W == WeightUnit
           buys == Buys(Weights(c), i, v)
           sells == Sells(Weights(c), i, v)
           new == Weights(c)[i]
           old == Held(Weights(c), i)
           change == [s \in Symbol |-> new[s] - old[s]]
           moved == Sizes(change)
           xs == Sizes(new)
           ys == Sizes(old)
           both == [s \in Symbol |-> Add(xs[s], ys[s])]
           traded == [s \in Symbol |-> Add(buys[s], sells[s])]
           total == Add(SumOn(buys, Symbol), SumOn(sells, Symbol))
           twice == Whole(2 * l)
<1>1. W \in Nat \ {0} /\ IsFiniteSet(Symbol)
  BY BacktestAssumption
<1>2. \A s \in Symbol : new[s] \in Int /\ old[s] \in Int
  BY HeldType
<1>3. \A s \in Symbol : change[s] \in Int
  BY <1>2
<1>4. Values(buys, Symbol) /\ Values(sells, Symbol)
  BY TradesType
<1>5. ASSUME NEW s \in Symbol
      PROVE  /\ traded[s] = Mul(v, moved[s])
             /\ Leq(moved[s], both[s])
             /\ moved[s] \in Reduced /\ both[s] \in Reduced
  <2> DEFINE n == new[s]
             o == old[s]
             up == Above(n - o)
             down == Above(o - n)
             size == Size(n - o)
  <2>1. n \in Int /\ o \in Int
    BY <1>2
  <2>2. buys[s] = Mul(Ratio(up, W), v) /\ sells[s] = Mul(Ratio(down, W), v)
    BY DEF Buys, Sells, Rupees
  <2>3. moved[s] = Ratio(size, W) /\ xs[s] = Ratio(Size(n), W) /\ ys[s] = Ratio(Size(o), W)
    BY DEF Sizes
  <2> HIDE DEF n, o, xs, ys, moved, buys, sells, W
  <2>4. /\ up \in Int /\ down \in Int /\ size \in Int /\ up + down = size
        /\ Size(n) \in Int /\ Size(o) \in Int /\ size <= Size(n) + Size(o)
    BY <2>1, AboveParts
  <2> DEFINE a == Size(n)
             b == Size(o)
             t == a + b
  <2>5. a \in Int /\ b \in Int /\ t \in Int /\ size <= t
    BY <2>4
  <2>6. traded[s] = Add(Mul(Ratio(up, W), v), Mul(Ratio(down, W), v))
    BY <2>2
  <2>7. both[s] = Add(Ratio(a, W), Ratio(b, W))
    BY <2>3
  <2> HIDE DEF up, down, size, a, b, traded, both
  <2>8. Ratio(up, W) \in Reduced /\ Ratio(down, W) \in Reduced /\ Ratio(size, W) \in Reduced
    BY <1>1, <2>4, RatioSign
  <2>9. Add(Ratio(up, W), Ratio(down, W)) = Ratio(size, W)
    BY <1>1, <2>4, RatioAdd
  <2> DEFINE ru == Ratio(up, W)
             rd == Ratio(down, W)
             rz == Ratio(size, W)
  <2>10. ru \in Reduced /\ rd \in Reduced /\ rz \in Reduced /\ Add(ru, rd) = rz
    BY <2>8, <2>9
  <2>11. traded[s] = Add(Mul(ru, v), Mul(rd, v)) /\ moved[s] = rz
    BY <2>3, <2>6
  <2> HIDE DEF ru, rd, rz
  <2>12. Mul(Add(ru, rd), v) = Add(Mul(ru, v), Mul(rd, v))
    BY <2>10, MulSpreadsLeft
  <2>13. Mul(rz, v) = Mul(v, rz)
    BY <2>10, MulType
  <2>14. traded[s] = Mul(v, moved[s]) /\ moved[s] \in Reduced
    BY <2>10, <2>11, <2>12, <2>13
  <2>15. both[s] = Ratio(t, W)
    BY <1>1, <2>5, <2>7, RatioAdd
  <2> HIDE DEF t
  <2>16. both[s] \in Reduced /\ Leq(Ratio(size, W), Ratio(t, W))
    BY <1>1, <2>4, <2>5, <2>15, RatioSign, RatioOrder
  <2>17. QED  BY <2>3, <2>14, <2>15, <2>16
<1>6. /\ Gross(new) \in Int /\ Values(xs, Symbol) /\ SumOn(xs, Symbol) = Ratio(Gross(new), W)
      /\ Gross(old) \in Int /\ Values(ys, Symbol) /\ SumOn(ys, Symbol) = Ratio(Gross(old), W)
  <2> HIDE DEF new, old
  <2>1. QED  BY <1>2, GrossIs
<1>7. Values(moved, Symbol) /\ Values(both, Symbol)
  BY <1>5 DEF Values
<1>8. /\ \A s \in Symbol : traded[s] = Add(buys[s], sells[s])
      /\ \A s \in Symbol : both[s] = Add(xs[s], ys[s])
  OBVIOUS
<1>9. Gross(new) <= l * W /\ Gross(old) <= l * W
  BY GrossWithin
<1> HIDE DEF moved, both, traded, xs, ys, buys, sells, new, old
<1>10. SumOn(traded, Symbol) = total
  BY <1>1, <1>4, <1>8, SumOfSums
<1>11. SumOn(traded, Symbol) = Mul(v, SumOn(moved, Symbol))
  BY <1>1, <1>5, <1>7, SumOfMultiples
<1>12. Leq(SumOn(moved, Symbol), SumOn(both, Symbol))
  BY <1>1, <1>5, <1>7, SumOrder
<1>13. SumOn(both, Symbol) = Add(SumOn(xs, Symbol), SumOn(ys, Symbol))
  BY <1>1, <1>6, <1>8, SumOfSums
<1> DEFINE gn == Gross(new)
           go == Gross(old)
           g == gn + go
           most == (2 * l) * W
<1>14. gn \in Int /\ go \in Int /\ g \in Int /\ g <= most /\ most \in Int
  <2> DEFINE half == l * W
  <2>1. half \in Int /\ most = half + half
    BY <1>1
  <2>2. gn <= half /\ go <= half /\ gn \in Int /\ go \in Int
    BY <1>6, <1>9
  <2> HIDE DEF half, gn, go, most
  <2>3. QED  BY <2>1, <2>2
<1>15. SumOn(xs, Symbol) = Ratio(gn, W) /\ SumOn(ys, Symbol) = Ratio(go, W)
  BY <1>6
<1> HIDE DEF gn, go, W
<1>16. SumOn(both, Symbol) = Ratio(g, W)
  BY <1>1, <1>13, <1>14, <1>15, RatioAdd
<1>17. Ratio(most, W) = twice /\ twice \in Reduced
  <2> DEFINE n == 2 * l
             one == 1
  <2>1. n \in Int /\ most = n * W /\ one \in Nat \ {0}
    OBVIOUS
  <2>2. twice = Ratio(n, one) /\ twice \in Reduced
    BY <2>1, WholeReduced
  <2>3. most * one = n * W
    BY <1>14, <2>1
  <2> HIDE DEF n, most, one, twice
  <2>4. QED  BY <1>1, <1>14, <2>1, <2>2, <2>3, RatioSame
<1>18. Leq(Ratio(g, W), Ratio(most, W)) /\ Ratio(g, W) \in Reduced
  <2> HIDE DEF g, most
  <2>1. QED  BY <1>1, <1>14, RatioOrder, RatioSign
<1> HIDE DEF twice, total
<1> DEFINE x == SumOn(moved, Symbol)
           y == SumOn(both, Symbol)
<1>19. x \in Reduced /\ y \in Reduced /\ Leq(x, y) /\ Leq(y, twice)
  BY <1>1, <1>7, <1>12, <1>16, <1>17, <1>18, SumValue
<1> HIDE DEF x, y
<1>20. Leq(x, twice)
  BY <1>17, <1>19, OrderLaws
<1>21. Leq(Mul(twice, v), Mul(x, v))
  BY <1>17, <1>19, <1>20, OrderTimes
<1>22. Mul(twice, v) = Mul(v, twice) /\ Mul(x, v) = Mul(v, x)
  BY <1>17, <1>19, MulType
<1>23. Leq(Mul(v, twice), total)
  BY <1>10, <1>11, <1>21, <1>22 DEF x
<1>24. QED  BY <1>23 DEF twice, total, buys, sells
----------------------------------------------------------------------------
(* A portfolio can always be turned over: twice the largest leverage, all   *)
(* of it traded, is charged no more than the portfolio is worth.            *)
Modest ==
    \E h, l \in Nat : SpreadsWithin(h) /\ Leverages(l) /\ Leq(Mul(Whole(2 * l), Charge(h)), Whole(1))

(* A bar that loses more than everything leaves nothing. *)
LEMMA LossStays ==
    ASSUME Modest, TablesTyped, NEW c \in Call, NEW r, Follows(c, r), NEW i \in 1..Len(r.net),
           Valid(Weights(c)), Positive(Before(r.net, i)), Growth(c, i).num < 0
    PROVE  ~Positive(r.net[i])
<1> DEFINE m == Before(r.net, i)
           f == Growth(c, i)
           v == Mul(m, f)
           b == Common(c)[i]
           buys == Buys(Weights(c), i, v)
           sells == Sells(Weights(c), i, v)
           cost == Cost(c, b, buys, sells)
           total == Add(SumOn(buys, Symbol), SumOn(sells, Symbol))
<1>0. PICK h \in Nat, l \in Nat :
         SpreadsWithin(h) /\ Leverages(l) /\ Leq(Mul(Whole(2 * l), Charge(h)), Whole(1))
  BY DEF Modest
<1> DEFINE twice == Whole(2 * l)
           k == Charge(h)
           one == Whole(1)
<1>1. m \in Reduced /\ i \in DOMAIN Common(c) /\ b \in Bar
  BY ValuesBefore, BarsInOrder DEF Both
<1>2. f \in Reduced /\ f.num < 0 /\ m.num > 0
  BY <1>1, EarnedType DEF Positive
<1>3. r.net[i] = Sub(v, cost)
  BY AllComputed DEF NetOf
<1> HIDE DEF m, f, b
<1>4. v \in Reduced /\ v.num < 0 /\ v.num <= 0
  <2>1. Mul(f, m).num < 0
    BY <1>1, <1>2, MulSign
  <2>2. v \in Reduced /\ v = Mul(f, m)
    BY <1>1, <1>2, MulType
  <2> HIDE DEF v
  <2>3. v.num \in Int
    BY <2>2, ReducedParts, Parts
  <2>4. QED  BY <2>1, <2>2, <2>3
<1> HIDE DEF v
<1>5. /\ Values(buys, Symbol) /\ Values(sells, Symbol)
      /\ DOMAIN buys = Symbol /\ DOMAIN sells = Symbol
      /\ Losses(buys) /\ Losses(sells)
  BY <1>1, <1>4, TradesType, TradedLosses
<1>6. Leq(Mul(v, twice), total)
  BY <1>0, <1>1, <1>4, Turnover
<1>7. cost \in Reduced
  BY <1>1, <1>4, CostType DEF b
<1> HIDE DEF buys, sells
<1>8. Charges(buys, sells) \in Reduced /\ slippage_cost(c, b, buys, sells) \in Reduced
  BY <1>1, <1>5, ChargesType, SlippageType
<1>9. Leq(Mul(total, k), cost)
  BY <1>0, <1>1, <1>5, <1>8, CostOfLosses
<1>10. total \in Reduced
  BY <1>5, SumLoss, AddType
<1>11. k \in Reduced /\ k.num >= 0 /\ twice \in Reduced /\ one \in Reduced
  <2>1. 2 * l \in Int /\ 1 \in Int
    OBVIOUS
  <2>2. QED  BY <2>1, ChargeType, WholeReduced
<1>12. Leq(Mul(twice, k), one)
  BY <1>0
<1>13. Mul(one, v) = v
  BY <1>4, MulOne DEF One
<1> HIDE DEF total, cost, twice, k, one
<1> DEFINE x == Mul(v, twice)
           y == Mul(twice, k)
           z == Mul(total, k)
<1>14. x \in Reduced /\ y \in Reduced /\ z \in Reduced
  BY <1>4, <1>10, <1>11, MulType
<1>15. Mul(x, k) = Mul(v, y)
  BY <1>4, <1>11, MulGroups
<1>16. Mul(v, y) = Mul(y, v)
  BY <1>4, <1>11, <1>14, MulType
<1> HIDE DEF x, y, z
<1>17. Leq(Mul(one, v), Mul(y, v))
  BY <1>4, <1>11, <1>12, <1>14, OrderTimes DEF y
<1>18. Leq(Mul(x, k), z)
  BY <1>6, <1>10, <1>11, <1>14, OrderTimes DEF x, z
<1> DEFINE w == Mul(x, k)
<1>19. w \in Reduced /\ Leq(v, w) /\ Leq(w, z) /\ Leq(z, cost)
  BY <1>9, <1>11, <1>13, <1>14, <1>15, <1>16, <1>17, <1>18, MulType DEF z
<1> HIDE DEF w
<1>20. Leq(v, z)
  BY <1>4, <1>14, <1>19, OrderLaws
<1>21. Leq(v, cost)
  BY <1>4, <1>7, <1>14, <1>19, <1>20, OrderLaws
<1>22. Sub(v, cost).num <= 0 /\ Sub(v, cost) \in Reduced
  BY <1>4, <1>7, <1>21, OrderLaws, SubType
<1> DEFINE n == Sub(v, cost)
<1>25. n.num <= 0 /\ n \in Reduced
  BY <1>22
<1> HIDE DEF n
<1>23. n.num <= 0 /\ n.num \in Int
  BY <1>25, ReducedParts, Parts
<1>24. QED  BY <1>3, <1>23 DEF n, Positive

(* The weights of a call that has bars are allowed. *)
WeightsValid == \A c \in Call : result[c].bars # <<>> => Valid(Weights(c))

LEMMA ValidIs ==
    \A w : Valid(w) <=>
       \A i \in DOMAIN w :
          /\ intraday \/ \A s \in Symbol : w[i][s] >= 0
          /\ Gross(w[i]) <= (IF intraday THEN max_leverage_intraday ELSE max_leverage) * WeightUnit
  BY DEF Valid, Gross

LEMMA ValidStays ==
    ASSUME UNCHANGED inputs, NEW c, Valid(Weights(c))
    PROVE  Valid(Weights(c))'
<1>1. Weights(c)' = Weights(c) /\ intraday' = intraday
  BY TablesStay DEF inputs
<1>2. (\A w : Valid(w) <=>
          \A i \in DOMAIN w :
             /\ intraday \/ \A s \in Symbol : w[i][s] >= 0
             /\ Gross(w[i]) <= (IF intraday THEN max_leverage_intraday ELSE max_leverage) * WeightUnit)'
  BY ValidIs, PTL
<1>3. \A w : Valid(w)' <=> Valid(w)
  BY <1>1, <1>2, ValidIs
<1>4. QED  BY <1>1, <1>3

LEMMA ValidAlways == Spec => []WeightsValid
<1>1. Init => WeightsValid
  BY DEF Init, WeightsValid, Empty
<1>2. EngineInv /\ WeightsValid /\ [Next]_vars => WeightsValid'
  <2> SUFFICES ASSUME EngineInv, WeightsValid, [Next]_vars PROVE WeightsValid'
    OBVIOUS
  <2>1. UNCHANGED inputs
    BY DEF Next, Start, Iterate, Finish, TaxRow, vars, inputs
  <2>2. \A c \in Call : result'[c].bars # <<>> => result[c].bars # <<>> \/ Valid(Weights(c))
    <3>1. CASE Start
      <4> DEFINE bars == Common(call)
                 weights == [i \in DOMAIN bars |-> Target(call, bars[i])]
      <4>1. CASE bars # <<>> /\ Valid(weights)
        <5>1. weights = Weights(call) /\ call \in Call
          BY <3>1 DEF Weights, Start
        <5>2. Valid(Weights(call))
          BY <4>1, <5>1
        <5>3. result' = [result EXCEPT ![call].bars = bars, ![call].weights = weights]
          BY <3>1, <4>1 DEF Start
        <5>4. \A c \in Call : c # call => result'[c] = result[c]
          BY <5>3 DEF EngineInv
        <5>5. QED  BY <5>2, <5>4
      <4>2. CASE ~(bars # <<>> /\ Valid(weights))
        <5>1. result' = [result EXCEPT ![call].raised = TRUE]
          BY <3>1, <4>2 DEF Start
        <5> DEFINE yes == TRUE
                   q == [result[call] EXCEPT !.raised = yes]
        <5>2. \A c \in Call : result'[c] = IF c = call THEN q ELSE result[c]
          BY <5>1 DEF EngineInv
        <5>3. call \in Call /\ Follows(call, result[call])
          BY <3>1 DEF Start, EngineInv
        <5>4. q.bars = result[call].bars
          <6> HIDE DEF yes
          <6> DEFINE r == result[call]
          <6>1. r = [bars |-> r.bars, weights |-> r.weights, gross |-> r.gross, net |-> r.net,
                     trades |-> r.trades, raised |-> r.raised]
            BY <5>3 DEF Follows
          <6> HIDE DEF r
          <6>2. [r EXCEPT !.raised = yes] =
                   [bars |-> r.bars, weights |-> r.weights, gross |-> r.gross, net |-> r.net,
                    trades |-> r.trades, raised |-> yes]
            BY <6>1, RaisedRecord
          <6>3. [r EXCEPT !.raised = yes].bars = r.bars
            BY <6>2
          <6>4. QED  BY <6>3 DEF r
        <5> HIDE DEF q
        <5>5. QED  BY <5>2, <5>4
      <4>3. QED  BY <4>1, <4>2
    <3>2. CASE Iterate
      <4>1. call \in Call /\ result[call].bars # <<>>
        <5>1. call \in Call /\ Len(result[call].net) + 1 <= Len(result[call].bars)
          BY <3>2 DEF Iterate
        <5>2. Len(result[call].net) \in Nat
          BY <5>1 DEF EngineInv, Follows, IsSeq
        <5>3. QED  BY <5>1, <5>2
      <4>2. \A c \in Call : c # call => result'[c] = result[c]
        BY <3>2 DEF Iterate, EngineInv
      <4>3. QED  BY <4>1, <4>2
    <3>3. CASE UNCHANGED result
      BY <3>3
    <3>4. QED  BY <3>1, <3>2, <3>3 DEF Next, Finish, TaxRow, vars
  <2>3. QED  BY <2>1, <2>2, ValidStays DEF WeightsValid
<1>3. QED  BY <1>1, <1>2, EngineSafe, PTL DEF Spec

LEMMA BelowGross ==
    ASSUME Modest, TablesTyped, NEW c \in Call, NEW r, Follows(c, r), Valid(Weights(c)),
           NEW n \in 1..Len(r.net), \A k \in 1..n : Positive(r.net[k])
    PROVE  Leq(r.net[n], r.gross[n])
<1> DEFINE G == {j \in Nat : j = 0 \/ Leq(r.net[j], r.gross[j])}
<1>1. n \in Nat /\ n >= 1 /\ Len(r.net) \in Nat /\ \A i \in 1..n : i \in 1..Len(r.net) /\ i \in Nat
  BY DEF Follows, IsSeq
<1>2. ASSUME NEW j \in 0..(n - 1), j \in G PROVE j + 1 \in G
  <2> DEFINE i == j + 1
             m == Before(r.net, i)
             g == Before(r.gross, i)
  <2>1. i \in 1..n /\ i \in 1..Len(r.net) /\ i \in Nat /\ i - 1 = j /\ (i # 1 => j \in 1..n /\ j # 0)
    BY <1>1
  <2> HIDE DEF i
  <2>2. m \in Reduced /\ g \in Reduced /\ Growth(c, i) \in Reduced
    BY <2>1, ValuesBefore, EarnedType
  <2>3. Positive(m) /\ Leq(m, g)
    <3>1. CASE i = 1
      <4>1. m = Whole(initial_capital) /\ g = m /\ initial_capital \in Int /\ initial_capital > 0
        BY <3>1, BacktestAssumption DEF Before
      <4>2. m.num > 0
        BY <4>1, WholeReduced
      <4> HIDE DEF m, g
      <4>3. QED  BY <2>2, <4>1, <4>2, LeqIs DEF Positive
    <3>2. CASE i # 1
      <4>1. m = r.net[j] /\ g = r.gross[j]
        BY <2>1, <3>2 DEF Before
      <4>2. QED  BY <1>2, <2>1, <3>2, <4>1
    <3>3. QED  BY <3>1, <3>2
  <2>4. Positive(r.net[i])
    BY <2>1
  <2>5. Growth(c, i).num >= 0
    <3>1. Growth(c, i).num \in Int
      BY <2>2, ReducedParts, Parts
    <3>2. ~(Growth(c, i).num < 0)
      BY <2>1, <2>3, <2>4, LossStays
    <3>3. QED  BY <3>1, <3>2
  <2>6. Leq(r.net[i], r.gross[i])
    BY <2>1, <2>3, <2>5, CostLowers
  <2>7. QED  BY <2>1, <2>6 DEF i
<1>3. \A j \in 0..n : j \in G
  <2> DEFINE zero == 0
  <2>1. zero \in Nat /\ zero \in G /\ \A j \in zero..(n - 1) : j \in G => j + 1 \in G
    BY <1>2
  <2> HIDE DEF G, zero
  <2>2. \A j \in zero..n : j \in G
    BY <1>1, <2>1, Upwards
  <2>3. QED  BY <2>2 DEF zero
<1>4. QED  BY <1>1, <1>3

(* Where turning the whole portfolio over costs no more than it is worth,   *)
(* the net value is at most the gross one for as long as the net one is     *)
(* positive, whatever the tables, and however much is borrowed or sold      *)
(* short (the loop of backtest, engine.py, compute_costs and                *)
(* SpreadSlippage.slippage_cost).                                           *)
THEOREM CostsOnlyCost ==
    ASSUME Modest
    PROVE  Spec => []NetBelowGross
<1>1. EngineInv /\ TablesTyped /\ WeightsValid => NetBelowGross
  <2>1. SUFFICES ASSUME EngineInv, TablesTyped, WeightsValid, NEW c \in Call,
                        NEW i \in DOMAIN result[c].net,
                        \A k \in 1..i : Positive(result[c].net[k])
                 PROVE  Leq(result[c].net[i], result[c].gross[i])
    BY DEF NetBelowGross
  <2> DEFINE r == result[c]
  <2>2. Follows(c, r)
    BY <2>1 DEF EngineInv
  <2>3. i \in 1..Len(r.net) /\ Len(r.net) \in Nat
    BY <2>2 DEF Follows, IsSeq
  <2>4. Valid(Weights(c))
    <3>1. r.bars = Common(c) /\ Len(r.net) <= Len(Common(c))
      BY <2>2, <2>3 DEF Follows
    <3>2. Len(Common(c)) # 0
      BY <2>3, <3>1, BarsInOrder
    <3>3. r.bars # <<>>
      BY <3>1, <3>2
    <3>4. QED  BY <2>1, <3>3 DEF WeightsValid
  <2> HIDE DEF r
  <2>5. \A k \in 1..i : Positive(r.net[k])
    BY <2>1 DEF r
  <2>6. Leq(r.net[i], r.gross[i])
    BY <2>1, <2>2, <2>3, <2>4, <2>5, BelowGross
  <2>7. QED  BY <2>6 DEF r
<1>2. QED  BY <1>1, EngineSafe, TypedAlways, ValidAlways, PTL

BelowWhileAlive ==
    \A c \in Call : \A i \in DOMAIN result[c].net :
        Alive(result[c], i) => Leq(result[c].net[i], result[c].gross[i])

(* Whatever the rates and the spreads, the charges only cost for as long as *)
(* the net and the gross value are both positive.                           *)
THEOREM CostsNeverPay == Spec => []BelowWhileAlive
<1>1. EngineInv /\ TablesTyped => BelowWhileAlive
  <2>1. SUFFICES ASSUME EngineInv, TablesTyped, NEW c \in Call, NEW i \in DOMAIN result[c].net,
                        Alive(result[c], i)
                 PROVE  Leq(result[c].net[i], result[c].gross[i])
    BY DEF BelowWhileAlive
  <2>2. Follows(c, result[c])
    BY <2>1 DEF EngineInv
  <2>3. i \in 1..Len(result[c].net)
    BY <2>2 DEF Follows, IsSeq
  <2>4. QED  BY <2>1, <2>2, <2>3, AliveBelow
<1>2. QED  BY <1>1, EngineSafe, TypedAlways, PTL
----------------------------------------------------------------------------
(* What is taken of lots. *)

LEMMA LesserIs ==
    ASSUME NEW m \in Int, NEW n \in Int, NEW d \in Nat \ {0}
    PROVE  /\ Lesser(Ratio(m, d), Ratio(n, d)) = Ratio(IF m <= n THEN m ELSE n, d)
           /\ Greater(Ratio(m, d), Ratio(n, d)) = Ratio(IF m <= n THEN n ELSE m, d)
<1>1. Leq(Ratio(m, d), Ratio(n, d)) <=> m <= n
  BY RatioOrder
<1>2. QED  BY <1>1 DEF Lesser, Greater

(* Of a lot of q, after others of e, out of x. *)
TakenOf(q, e, x) == Lesser(q, Greater(Zero, Sub(x, e)))

LEMMA TakenIs ==
    ASSUME NEW q \in Reduced, NEW e \in Reduced, NEW x \in Reduced, q.num >= 0
    PROVE  LET t == TakenOf(q, e, x)
           IN  /\ t \in Reduced /\ Sub(q, t) \in Reduced /\ Sub(q, t).num >= 0
               /\ Add(Sub(q, t), t) = q
               /\ Add(Lesser(e, x), t) = Lesser(Add(e, q), x)
               /\ Sub(q, t).num > 0 => Leq(x, Add(e, q))
               /\ Leq(x, e) => t = Zero
<1>1. PICK d \in Nat \ {0} : In(q, d) /\ In(e, d) /\ In(x, d)
  BY ShareDenominator
<1>2. PICK k \in Int : q = Ratio(k, d)
  BY <1>1 DEF In
<1>3. PICK j \in Int : e = Ratio(j, d)
  BY <1>1 DEF In
<1>4. PICK z \in Int : x = Ratio(z, d)
  BY <1>1 DEF In
<1>5. k >= 0
  BY <1>2, RatioSign
<1>6. Zero = Ratio(0, d)
  BY ZeroIn
<1> DEFINE zero == 0
           rest == z - j
           free == IF zero <= rest THEN rest ELSE zero
           take == IF k <= free THEN k ELSE free
           left == k - take
           low == IF j <= z THEN j ELSE z
           more == j + k
           high == IF more <= z THEN more ELSE z
           t == TakenOf(q, e, x)
<1>7. /\ zero \in Int /\ rest \in Int /\ free \in Int /\ take \in Int /\ left \in Int
      /\ low \in Int /\ more \in Int /\ high \in Int
  OBVIOUS
<1>8. /\ left >= 0 /\ left + take = k /\ low + take = high
      /\ left > 0 => z <= more
      /\ z <= j => take = 0
  BY <1>5
<1>9. Sub(x, e) = Ratio(rest, d)
  BY <1>3, <1>4, RatioSub
<1> HIDE DEF zero, rest
<1>10. Greater(Ratio(zero, d), Ratio(rest, d)) = Ratio(free, d)
  BY <1>7, LesserIs
<1> HIDE DEF free
<1>11. Lesser(Ratio(k, d), Ratio(free, d)) = Ratio(take, d)
  BY <1>7, LesserIs
<1>12. t = Ratio(take, d)
  BY <1>2, <1>6, <1>9, <1>10, <1>11 DEF TakenOf, zero
<1> HIDE DEF take, t
<1>13. Sub(q, t) = Ratio(left, d)
  BY <1>2, <1>7, <1>12, RatioSub
<1> HIDE DEF left
<1>14. t \in Reduced /\ Sub(q, t) \in Reduced /\ Sub(q, t).num >= 0 /\ (Sub(q, t).num > 0 <=> left > 0)
  BY <1>7, <1>8, <1>12, <1>13, RatioSign
<1>15. Add(Sub(q, t), t) = q
  <2> HIDE DEF more, high
  <2>1. Add(Ratio(left, d), Ratio(take, d)) = Ratio(left + take, d)
    BY <1>7, RatioAdd
  <2>2. left + take = k
    BY <1>8
  <2>3. QED  BY <1>2, <1>12, <1>13, <2>1, <2>2
<1>16. Lesser(e, x) = Ratio(low, d)
  BY <1>3, <1>4, LesserIs
<1> HIDE DEF low
<1>17. Add(Lesser(e, x), t) = Ratio(high, d)
  <2> HIDE DEF more, high
  <2>1. Add(Ratio(low, d), Ratio(take, d)) = Ratio(low + take, d)
    BY <1>7, RatioAdd
  <2>2. low + take = high
    BY <1>8
  <2>3. QED  BY <1>12, <1>16, <2>1, <2>2
<1>18. Add(e, q) = Ratio(more, d)
  BY <1>2, <1>3, RatioAdd
<1>19. Leq(x, Add(e, q)) <=> z <= more
  BY <1>4, <1>7, <1>18, RatioOrder
<1> HIDE DEF more
<1>20. Lesser(Ratio(more, d), Ratio(z, d)) = Ratio(high, d)
  BY <1>7, LesserIs
<1>21. Leq(x, e) <=> z <= j
  BY <1>3, <1>4, RatioOrder
<1>22. Leq(x, e) => t = Zero
  BY <1>6, <1>8, <1>12, <1>21
<1>23. QED
  BY <1>4, <1>8, <1>14, <1>15, <1>17, <1>18, <1>19, <1>20, <1>22 DEF t

----------------------------------------------------------------------------
(* Queues of lots. *)

Lot == [qty : Reduced, cost : Quote, acquired : Bar]

Quantity(queue) == [k \in DOMAIN queue |-> queue[k].qty]

(* What is in the lots before the k-th. *)
Earlier(queue, k) == SumOn(Quantity(queue), 1..(k - 1))

Opened(queue) == \A k \in 1..Len(queue) : Positive(queue[k].qty)

LEMMA LotType ==
    ASSUME NEW queue \in Seq(Lot), NEW k \in 1..Len(queue)
    PROVE  /\ queue[k].qty \in Reduced /\ queue[k].cost \in Quote /\ queue[k].acquired \in Bar
           /\ queue[k] = [qty |-> queue[k].qty, cost |-> queue[k].cost, acquired |-> queue[k].acquired]
           /\ Quantity(queue)[k] = queue[k].qty
<1>1. queue[k] \in Lot /\ k \in DOMAIN queue
  OBVIOUS
<1>2. QED  BY <1>1 DEF Lot, Quantity

LEMMA QueueRange ==
    ASSUME NEW queue \in Seq(Lot)
    PROVE  /\ Len(queue) \in Nat /\ DOMAIN queue = 1..Len(queue)
           /\ \A n \in Int : IsFiniteSet(1..n)
           /\ \A n \in 0..Len(queue) : Values(Quantity(queue), 1..n)
<1>1. Len(queue) \in Nat /\ DOMAIN queue = 1..Len(queue)
  OBVIOUS
<1>2. \A n \in Int : IsFiniteSet(1..n)
  BY FS_Interval
<1>3. \A n \in 0..Len(queue) : \A k \in 1..n : k \in 1..Len(queue)
  BY <1>1
<1>4. \A n \in 0..Len(queue) : Values(Quantity(queue), 1..n)
  BY <1>3, LotType DEF Values
<1>5. QED  BY <1>1, <1>2, <1>4

LEMMA EarlierType ==
    ASSUME NEW queue \in Seq(Lot), NEW k \in 1..(Len(queue) + 1)
    PROVE  /\ Earlier(queue, k) \in Reduced
           /\ k = 1 => Earlier(queue, k) = Zero
           /\ k <= Len(queue) => Earlier(queue, k + 1) = Add(Earlier(queue, k), queue[k].qty)
<1> DEFINE n == k - 1
           q == Quantity(queue)
           S == 1..n
<1>1. Len(queue) \in Nat
  OBVIOUS
<1>2. n \in 0..Len(queue) /\ n \in Int
  BY <1>1
<1>3. IsFiniteSet(S) /\ Values(q, S)
  BY <1>2, QueueRange
<1>4. Earlier(queue, k) = SumOn(q, S)
  BY DEF Earlier
<1>5. k = 1 => S = {}
  OBVIOUS
<1>6. ASSUME k <= Len(queue) PROVE Earlier(queue, k + 1) = Add(Earlier(queue, k), queue[k].qty)
  <2>1. k \in 1..Len(queue) /\ 1..k = S \union {k} /\ k \notin S /\ (k + 1) - 1 = k
    BY <1>1, <1>6
  <2>2. q[k] = queue[k].qty /\ q[k] \in Reduced
    BY <2>1, LotType
  <2>3. Earlier(queue, k + 1) = SumOn(q, 1..k)
    BY <2>1 DEF Earlier
  <2> DEFINE more == 1..k
  <2> HIDE DEF q, S, more
  <2>4. SumOn(q, more) = Add(q[k], SumOn(q, S)) /\ SumOn(q, S) \in Reduced
    BY <1>3, <2>1, <2>2, SumMore DEF more
  <2>5. Add(q[k], SumOn(q, S)) = Add(SumOn(q, S), q[k])
    BY <2>2, <2>4, Sums
  <2>6. QED  BY <1>4, <2>2, <2>3, <2>4, <2>5 DEF more
<1> HIDE DEF q, S, n
<1>7. SumOn(q, S) \in Reduced
  BY <1>3, SumValue
<1>8. QED  BY <1>4, <1>5, <1>6, <1>7, SumNone

(* The quantities of the lots before one, and of all. *)
LEMMA QuantitiesAre ==
    ASSUME NEW queue \in Seq(Lot)
    PROVE  /\ Quantities(queue) = Earlier(queue, Len(queue) + 1)
           /\ \A k \in 1..Len(queue) : Quantities(SubSeq(queue, 1, k - 1)) = Earlier(queue, k)
<1>1. /\ Len(queue) \in Nat /\ DOMAIN queue = 1..Len(queue)
      /\ \A n \in Int : IsFiniteSet(1..n)
      /\ \A n \in 0..Len(queue) : Values(Quantity(queue), 1..n)
  BY QueueRange
<1>2. Quantities(queue) = Earlier(queue, Len(queue) + 1)
  <2>1. (Len(queue) + 1) - 1 = Len(queue) /\ DOMAIN Quantity(queue) = DOMAIN queue
    BY <1>1 DEF Quantity
  <2>2. Quantities(queue) = SumOn(Quantity(queue), DOMAIN queue)
    BY DEF Quantities, FoldFunction, SumOn, Quantity
  <2>3. QED  BY <1>1, <2>1, <2>2 DEF Earlier
<1>3. ASSUME NEW k \in 1..Len(queue)
      PROVE  Quantities(SubSeq(queue, 1, k - 1)) = Earlier(queue, k)
  <2> DEFINE n == k - 1
             part == SubSeq(queue, 1, n)
             p == Quantity(part)
             q == Quantity(queue)
             S == 1..n
  <2>1. n \in 0..Len(queue) /\ n \in Int /\ \A i \in 1..n : i \in 1..Len(queue)
    BY <1>1
  <2>2. part \in Seq(Lot) /\ Len(part) = n /\ \A i \in 1..n : part[i] = queue[i]
    <3>1. \A i \in 1..n : queue[i] \in Lot
      BY <2>1
    <3> DEFINE one == 1
    <3>2. one \in Int /\ \A i \in one..n : queue[i] \in Lot
      BY <3>1
    <3>3. /\ SubSeq(queue, one, n) \in Seq(Lot)
          /\ Len(SubSeq(queue, one, n)) = IF one <= n THEN n - one + 1 ELSE 0
          /\ \A i \in 1..(n - one + 1) : SubSeq(queue, one, n)[i] = queue[one + i - 1]
      <4> HIDE DEF one, n
      <4>1. QED  BY <2>1, <3>2, SubSeqProperties
    <3>4. QED  BY <2>1, <3>3
  <2> HIDE DEF part, n
  <2>3. DOMAIN part = S /\ \A i \in S : p[i] = q[i]
    BY <2>1, <2>2 DEF Quantity
  <2>4. DOMAIN p = DOMAIN part
    BY DEF Quantity
  <2>5. Quantities(part) = SumOn(p, S)
    BY <2>3, <2>4 DEF Quantities, FoldFunction, SumOn, Quantity
  <2>6. IsFiniteSet(S) /\ Values(q, S)
    BY <1>1, <2>1
  <2> HIDE DEF p, q, S
  <2>7. SumOn(p, S) = SumOn(q, S)
    BY <2>3, <2>6, SumAgrees
  <2>8. QED  BY <2>5, <2>7 DEF Earlier, q, S, n, part
<1>4. QED  BY <1>2, <1>3

LEMMA TakeIs ==
    ASSUME NEW queue \in Seq(Lot), NEW k \in 1..Len(queue), NEW x
    PROVE  Take(queue, k, x) = TakenOf(queue[k].qty, Earlier(queue, k), x)
  BY QuantitiesAre DEF Take, TakenOf
----------------------------------------------------------------------------
LEMMA SubBack ==
    ASSUME NEW a \in Reduced, NEW b \in Reduced
    PROVE  Sub(a, b) \in Reduced /\ Add(Sub(a, b), b) = a /\ (Sub(a, b) = Zero => a = b)
<1>1. PICK d \in Nat \ {0} : In(a, d) /\ In(b, d)
  BY ShareDenominator
<1>2. PICK x \in Int : a = Ratio(x, d)
  BY <1>1 DEF In
<1>3. PICK y \in Int : b = Ratio(y, d)
  BY <1>1 DEF In
<1>4. Sub(a, b) = Ratio(x - y, d) /\ x - y \in Int /\ (x - y) + y = x
  BY <1>2, <1>3, RatioSub
<1>5. Sub(a, b) \in Reduced
  BY <1>4, RatioSign
<1> DEFINE z == x - y
<1>6. z \in Int /\ Sub(a, b) = Ratio(z, d) /\ z + y = x /\ (z = 0 => x = y)
  BY <1>4
<1> HIDE DEF z
<1>7. Add(Ratio(z, d), Ratio(y, d)) = Ratio(z + y, d)
  BY <1>6, RatioAdd
<1>8. Sub(a, b) = Zero => z = 0
  BY <1>6, RatioSign, ZeroReduced
<1>9. QED  BY <1>2, <1>3, <1>5, <1>6, <1>7, <1>8

LEMMA NumZero ==
    ASSUME NEW a \in Reduced, a.num = 0
    PROVE  a = Zero
<1>1. a.den \in Nat \ {0} /\ a = Ratio(a.num, a.den)
  <2>1. a = Norm(a)
    BY NormOwn
  <2>2. QED  BY <2>1, ReducedParts, Parts DEF Norm
<1> DEFINE d == a.den
<1>2. d \in Nat \ {0} /\ a = Ratio(0, d)
  BY <1>1
<1> HIDE DEF d
<1>3. QED  BY <1>2, ZeroIn

(* What is taken of the lots of a queue, and what is left of them. *)
Taken(queue, x) == [k \in DOMAIN queue |-> Take(queue, k, x)]

Left(queue, x) == [k \in DOMAIN queue |-> Sub(queue[k].qty, Take(queue, k, x))]

LEMMA TakenTypes ==
    ASSUME NEW queue \in Seq(Lot), Opened(queue), NEW x \in Reduced, NEW k \in 1..Len(queue)
    PROVE  /\ Taken(queue, x)[k] = Take(queue, k, x) /\ Taken(queue, x)[k] \in Reduced
           /\ Left(queue, x)[k] = Sub(queue[k].qty, Take(queue, k, x))
           /\ Left(queue, x)[k] \in Reduced /\ Left(queue, x)[k].num >= 0
           /\ Add(Left(queue, x)[k], Taken(queue, x)[k]) = queue[k].qty
           /\ Add(Lesser(Earlier(queue, k), x), Taken(queue, x)[k]) = Lesser(Earlier(queue, k + 1), x)
           /\ Positive(Left(queue, x)[k]) => Leq(x, Earlier(queue, k + 1))
           /\ Leq(x, Earlier(queue, k)) => Left(queue, x)[k] = queue[k].qty
<1> DEFINE q == queue[k].qty
           e == Earlier(queue, k)
           m == Earlier(queue, k + 1)
           t == TakenOf(q, e, x)
           l == Sub(q, t)
<1>1. Len(queue) \in Nat /\ k \in DOMAIN queue /\ k \in 1..(Len(queue) + 1) /\ k <= Len(queue)
  OBVIOUS
<1>2. q \in Reduced /\ q.num > 0
  BY LotType DEF Opened, Positive
<1>3. e \in Reduced /\ m = Add(e, q)
  BY <1>1, EarlierType
<1>4. Take(queue, k, x) = t
  BY TakeIs
<1>5. Taken(queue, x)[k] = t /\ Left(queue, x)[k] = l
  BY <1>1, <1>4 DEF Taken, Left
<1> HIDE DEF q, e, m
<1>6. q.num >= 0
  BY <1>2, ReducedParts, Parts
<1>7. /\ t \in Reduced /\ l \in Reduced /\ l.num >= 0
      /\ Add(l, t) = q
      /\ Add(Lesser(e, x), t) = Lesser(m, x)
      /\ l.num > 0 => Leq(x, m)
      /\ Leq(x, e) => t = Zero
  BY <1>2, <1>3, <1>6, TakenIs
<1>8. (t = Zero => l = q) /\ l = Sub(q, t)
  BY <1>2, Sums
<1> HIDE DEF t, l
<1>9. QED  BY <1>4, <1>5, <1>7, <1>8 DEF q, e, m, Positive

(* All of the lots together give what is asked for, or all they have. *)
LEMMA AllTaken ==
    ASSUME NEW queue \in Seq(Lot), Opened(queue), NEW x \in Reduced, x.num >= 0
    PROVE  SumOn(Taken(queue, x), 1..Len(queue)) = Lesser(Quantities(queue), x)
<1> DEFINE n == Len(queue)
           t == Taken(queue, x)
           G == {k \in Nat : SumOn(t, 1..k) = Lesser(Earlier(queue, k + 1), x)}
<1>1. n \in Nat /\ \A k \in 1..n : t[k] \in Reduced
  BY TakenTypes
<1>2. 0 \in G
  <2>1. 1..0 = {} /\ 0 + 1 = 1 /\ 1 \in 1..(n + 1)
    BY <1>1
  <2>2. Earlier(queue, 1) = Zero
    BY <2>1, EarlierType
  <2>3. Leq(Zero, x)
    BY LeqIs, ZeroReduced
  <2>4. SumOn(t, {}) = Zero
    BY SumNone
  <2>5. QED  BY <2>1, <2>2, <2>3, <2>4 DEF Lesser
<1>3. ASSUME NEW j \in 0..(n - 1), j \in G PROVE j + 1 \in G
  <2> DEFINE k == j + 1
             S == 1..j
             more == 1..k
             next == k + 1
  <2>1. k \in 1..n /\ k \in Nat /\ k \notin S /\ more = S \union {k} /\ \A i \in S : i \in 1..n
    BY <1>1
  <2>2. IsFiniteSet(S) /\ Values(t, S) /\ t[k] \in Reduced
    <3>1. j \in Int /\ 1 \in Int
      OBVIOUS
    <3>2. IsFiniteSet(S)
      BY <3>1, FS_Interval
    <3> HIDE DEF t, k, S
    <3>3. QED  BY <1>1, <2>1, <3>2 DEF Values
  <2>3. SumOn(t, S) = Lesser(Earlier(queue, k), x)
    BY <1>3
  <2>4. Add(Lesser(Earlier(queue, k), x), t[k]) = Lesser(Earlier(queue, next), x)
    BY <2>1, TakenTypes
  <2> HIDE DEF k, S, t, more, next
  <2>5. SumOn(t, more) = Add(t[k], SumOn(t, S)) /\ SumOn(t, S) \in Reduced
    BY <2>1, <2>2, SumMore
  <2>6. Add(t[k], SumOn(t, S)) = Add(SumOn(t, S), t[k])
    BY <2>2, <2>5, Sums
  <2>7. SumOn(t, more) = Lesser(Earlier(queue, next), x)
    BY <2>3, <2>4, <2>5, <2>6
  <2>8. k \in G
    BY <2>1, <2>7 DEF more, next
  <2>9. QED  BY <2>8 DEF k
<1>4. n \in G
  <2> DEFINE zero == 0
  <2>1. zero \in Nat /\ n \in zero..n /\ n \in Nat
    BY <1>1
  <2>2. zero \in G
    BY <1>2
  <2>3. \A j \in zero..(n - 1) : j \in G => j + 1 \in G
    BY <1>3
  <2> HIDE DEF G, zero, n
  <2>4. \A j \in zero..n : j \in G
    BY <2>1, <2>2, <2>3, Upwards
  <2>5. QED  BY <2>1, <2>4
<1>5. QED  BY <1>4, QuantitiesAre

(* A lot that something is left of is the last that is taken from. *)
LEMMA YoungerKept ==
    ASSUME NEW queue \in Seq(Lot), Opened(queue), NEW x \in Reduced,
           NEW k \in 1..Len(queue), Positive(Left(queue, x)[k]),
           NEW m \in 1..Len(queue), k < m
    PROVE  Left(queue, x)[m] = queue[m].qty
<1> DEFINE n == Len(queue)
           first == k + 1
           G == {j \in Nat : Leq(x, Earlier(queue, j))}
<1>1. n \in Nat /\ first \in Nat /\ m \in first..n /\ k \in Nat /\ m \in Nat
  OBVIOUS
<1>2. first \in G
  BY <1>1, TakenTypes
<1>3. ASSUME NEW j \in first..(n - 1), j \in G PROVE j + 1 \in G
  <2> DEFINE e == Earlier(queue, j)
             q == queue[j].qty
             f == Add(e, q)
  <2>1. j \in 1..n /\ j \in 1..(n + 1) /\ j <= n /\ j \in Nat /\ j + 1 \in Nat
    BY <1>1
  <2>2. e \in Reduced /\ Earlier(queue, j + 1) = f
    BY <2>1, EarlierType
  <2>3. q \in Reduced /\ q.num > 0
    BY <2>1, LotType DEF Opened, Positive
  <2>4. Leq(x, e)
    BY <1>3
  <2> HIDE DEF e, q
  <2>5. q.num >= 0
    BY <2>3, ReducedParts, Parts
  <2> DEFINE zero == Zero
  <2>6. Leq(zero, q) /\ zero \in Reduced /\ Leq(e, e) /\ Add(e, zero) = e
    BY <2>2, <2>3, <2>5, LeqIs, ZeroReduced, AddZero
  <2> HIDE DEF zero
  <2>7. Leq(Add(e, zero), f) /\ f \in Reduced
    BY <2>2, <2>3, <2>6, LeqAdd, AddType
  <2>8. Leq(e, f)
    BY <2>6, <2>7
  <2> HIDE DEF f
  <2>9. Leq(x, f)
    BY <2>2, <2>4, <2>7, <2>8, OrderLaws
  <2>10. QED  BY <2>1, <2>2, <2>9
<1> HIDE DEF G, n, first
<1>4. \A j \in first..n : j \in G
  BY <1>1, <1>2, <1>3, Upwards
<1>5. Leq(x, Earlier(queue, m))
  BY <1>1, <1>4 DEF G
<1>6. QED  BY <1>5, TakenTypes

(* The lots from the f-th on are those that are left. *)
LeavesFrom(queue, x, rest, f) ==
    /\ f \in 1..(Len(queue) + 1)
    /\ rest \in Seq(Lot) /\ Len(rest) = (Len(queue) + 1) - f /\ Opened(rest)
    /\ \A k \in 1..(f - 1) : Left(queue, x)[k] = Zero
    /\ \A k \in 1..Len(rest) :
          /\ rest[k].qty = Left(queue, x)[(f + k) - 1]
          /\ rest[k].cost = queue[(f + k) - 1].cost
          /\ rest[k].acquired = queue[(f + k) - 1].acquired
          /\ k # 1 => rest[k].qty = queue[(f + k) - 1].qty

LEMMA SoldLeaves ==
    ASSUME NEW queue \in Seq(Lot), Opened(queue), NEW x \in Reduced
    PROVE  \E f : LeavesFrom(queue, x, Sold(queue, x), f)
<1> DEFINE n == Len(queue)
           left == Left(queue, x)
           remaining == [i \in DOMAIN queue |-> [queue[i] EXCEPT !.qty = Sub(@, Take(queue, i, x))]]
           open == {i \in DOMAIN queue : Positive(remaining[i].qty)}
           rest == Sold(queue, x)
<1>1. n \in Nat /\ DOMAIN queue = 1..n
  OBVIOUS
<1>2. ASSUME NEW k \in 1..n
      PROVE  /\ remaining[k] \in Lot /\ remaining[k].qty = left[k]
             /\ remaining[k].cost = queue[k].cost /\ remaining[k].acquired = queue[k].acquired
  <2> DEFINE r == queue[k]
             y == Sub(r.qty, Take(queue, k, x))
  <2>1. r = [qty |-> r.qty, cost |-> r.cost, acquired |-> r.acquired]
    BY LotType
  <2>2. left[k] = y /\ y \in Reduced
    BY TakenTypes
  <2>3. r.cost \in Quote /\ r.acquired \in Bar
    BY LotType
  <2>4. remaining[k] = [r EXCEPT !.qty = y]
    BY <1>1
  <2> HIDE DEF remaining, r, y
  <2>5. [r EXCEPT !.qty = y] = [qty |-> y, cost |-> r.cost, acquired |-> r.acquired]
    BY <2>1
  <2>6. QED  BY <2>2, <2>3, <2>4, <2>5 DEF Lot, r
<1>3. rest = IF open = {} THEN <<>> ELSE SubSeq(remaining, Min(open), n)
  BY DEF Sold
<1>4. \A k \in 1..n : left[k] \in Reduced /\ left[k].num >= 0
  BY TakenTypes
<1>5. \A k \in 1..n : k \notin open => left[k] = Zero
  <2>1. SUFFICES ASSUME NEW k \in 1..n, k \notin open PROVE left[k] = Zero
    OBVIOUS
  <2>2. ~(left[k].num > 0) /\ left[k] \in Reduced /\ left[k].num >= 0
    BY <1>1, <1>2, <1>4, <2>1 DEF Positive
  <2> DEFINE a == left[k]
  <2>3. a \in Reduced /\ ~(a.num > 0) /\ a.num >= 0
    BY <2>2
  <2> HIDE DEF a
  <2>4. a.num \in Int
    BY <2>3, ReducedParts, Parts
  <2>5. a.num = 0
    BY <2>3, <2>4
  <2>6. a = Zero
    BY <2>3, <2>5, NumZero
  <2>7. QED  BY <2>6 DEF a
<1>6. \A k \in open : k \in 1..n /\ Positive(left[k])
  BY <1>1, <1>2
<1>7. open \in SUBSET Nat
  BY <1>1
<1> HIDE DEF remaining, open, rest, left
<1>8. CASE open = {}
  <2> DEFINE f == n + 1
  <2>1. rest = <<>> /\ rest \in Seq(Lot) /\ Len(rest) = 0
    BY <1>3, <1>8
  <2>2. f \in 1..(n + 1) /\ Len(rest) = (n + 1) - f /\ f - 1 = n /\ 1..Len(rest) = {}
    BY <1>1, <2>1
  <2>3. \A k \in 1..(f - 1) : left[k] = Zero
    BY <1>5, <1>8, <2>2
  <2> HIDE DEF f
  <2>4. Opened(rest)
    BY <2>2 DEF Opened
  <2>5. LeavesFrom(queue, x, rest, f)
    BY <2>1, <2>2, <2>3, <2>4 DEF LeavesFrom, left
  <2>6. QED  BY <2>5 DEF rest
<1>9. CASE open # {}
  <2> DEFINE f == Min(open)
  <2>1. f \in open /\ \A k \in open : f <= k
    <3>1. \E k \in open : \A j \in open : k <= j
      BY <1>7, <1>9, LeastNatural
    <3>2. QED  BY <3>1 DEF Min
  <2> HIDE DEF f
  <2>2. f \in 1..n /\ f \in Int /\ n \in Int /\ f <= n
    BY <1>1, <1>6, <2>1
  <2>3. /\ rest \in Seq(Lot) /\ Len(rest) = (n + 1) - f
        /\ \A k \in 1..Len(rest) : rest[k] = remaining[(f + k) - 1]
    <3>1. \A i \in f..n : remaining[i] \in Lot
      BY <1>2, <2>2
    <3>2. rest = SubSeq(remaining, f, n)
      BY <1>3, <1>9 DEF f
    <3> HIDE DEF n
    <3>3. /\ SubSeq(remaining, f, n) \in Seq(Lot)
          /\ Len(SubSeq(remaining, f, n)) = IF f <= n THEN n - f + 1 ELSE 0
          /\ \A i \in 1..(n - f + 1) : SubSeq(remaining, f, n)[i] = remaining[f + i - 1]
      BY <2>2, <3>1, SubSeqProperties
    <3>4. QED  BY <2>2, <3>2, <3>3
  <2>4. ASSUME NEW k \in 1..Len(rest)
        PROVE  /\ rest[k].qty = left[(f + k) - 1] /\ Positive(rest[k].qty)
               /\ rest[k].cost = queue[(f + k) - 1].cost
               /\ rest[k].acquired = queue[(f + k) - 1].acquired
               /\ k # 1 => rest[k].qty = queue[(f + k) - 1].qty
    <3> DEFINE j == (f + k) - 1
    <3>1. j \in 1..n /\ (k = 1 => j = f) /\ (k # 1 => f < j)
      BY <1>1, <2>2, <2>3
    <3>2. rest[k] = remaining[j]
      BY <2>3
    <3> HIDE DEF j, n
    <3>3. Positive(left[f])
      BY <1>6, <2>1
    <3>4. f < j => left[j] = queue[j].qty
      BY <2>2, <3>1, <3>3, YoungerKept DEF left, n
    <3>5. Positive(left[j])
      BY <3>1, <3>3, <3>4 DEF Opened, n
    <3>6. QED  BY <1>2, <3>1, <3>2, <3>4, <3>5 DEF j
  <2>5. \A k \in 1..(f - 1) : left[k] = Zero
    <3>1. \A k \in 1..(f - 1) : k \in 1..n /\ ~(f <= k)
      BY <1>1, <2>2
    <3>2. QED  BY <1>5, <2>1, <3>1
  <2>6. f \in 1..(n + 1) /\ Opened(rest)
    BY <1>1, <2>2, <2>4 DEF Opened
  <2>7. LeavesFrom(queue, x, rest, f)
    BY <2>3, <2>4, <2>5, <2>6 DEF LeavesFrom, left
  <2>8. QED  BY <2>7 DEF rest
<1>10. QED  BY <1>8, <1>9
----------------------------------------------------------------------------
(* What the lots of a queue had cost, and what had cost those that are sold. *)
Worth(queue) == [k \in DOMAIN queue |-> Mul(queue[k].qty, Whole(queue[k].cost))]

Stock(queue) == SumOn(Worth(queue), DOMAIN queue)

TakenCost(queue, x) == [k \in DOMAIN queue |-> Mul(Take(queue, k, x), Whole(queue[k].cost))]

CostOf(queue, x) == SumOn(TakenCost(queue, x), DOMAIN queue)

LEMMA WorthType ==
    ASSUME NEW queue \in Seq(Lot)
    PROVE  /\ IsFiniteSet(DOMAIN queue) /\ Values(Worth(queue), DOMAIN queue)
           /\ Stock(queue) \in Reduced
           /\ \A k \in DOMAIN queue : Whole(queue[k].cost) \in Reduced
<1>1. IsFiniteSet(DOMAIN queue)
  BY QueueRange
<1>2. ASSUME NEW k \in DOMAIN queue
      PROVE  Worth(queue)[k] \in Reduced /\ Whole(queue[k].cost) \in Reduced
  <2>1. k \in 1..Len(queue)
    OBVIOUS
  <2>6. queue[k].qty \in Reduced /\ queue[k].cost \in Quote
    BY <2>1, LotType
  <2>2. queue[k].qty \in Reduced /\ queue[k].cost \in Int
    <3> DEFINE cost == queue[k].cost
    <3>1. cost \in Quote
      BY <2>6
    <3> HIDE DEF cost
    <3>2. cost \in Int
      BY <3>1 DEF Quote
    <3>3. QED  BY <2>6, <3>2 DEF cost
  <2>3. Whole(queue[k].cost) \in Reduced
    BY <2>2, WholeReduced
  <2>4. Worth(queue)[k] = Mul(queue[k].qty, Whole(queue[k].cost))
    BY DEF Worth
  <2>5. QED  BY <2>2, <2>3, <2>4, MulType
<1>3. Values(Worth(queue), DOMAIN queue)
  BY <1>2 DEF Values
<1>4. Stock(queue) \in Reduced
  BY <1>1, <1>3, SumValue DEF Stock
<1>5. QED  BY <1>1, <1>2, <1>3, <1>4

LEMMA TakenCostType ==
    ASSUME NEW queue \in Seq(Lot), Opened(queue), NEW x \in Reduced
    PROVE  /\ Values(TakenCost(queue, x), DOMAIN queue) /\ CostOf(queue, x) \in Reduced
           /\ Values(Taken(queue, x), DOMAIN queue)
<1>1. IsFiniteSet(DOMAIN queue) /\ \A k \in DOMAIN queue : Whole(queue[k].cost) \in Reduced
  BY WorthType
<1>2. ASSUME NEW k \in DOMAIN queue
      PROVE  TakenCost(queue, x)[k] \in Reduced /\ Taken(queue, x)[k] \in Reduced
  <2>1. k \in 1..Len(queue)
    OBVIOUS
  <2>2. Take(queue, k, x) \in Reduced /\ Taken(queue, x)[k] \in Reduced
    BY <2>1, TakenTypes
  <2>3. TakenCost(queue, x)[k] = Mul(Take(queue, k, x), Whole(queue[k].cost))
    BY DEF TakenCost
  <2>4. QED  BY <1>1, <2>2, <2>3, MulType
<1>3. Values(TakenCost(queue, x), DOMAIN queue) /\ Values(Taken(queue, x), DOMAIN queue)
  BY <1>2 DEF Values
<1>4. QED  BY <1>1, <1>3, SumValue DEF CostOf

(* A sale takes out of the stock what it takes from the lots. *)
LEMMA StockSold ==
    ASSUME NEW queue \in Seq(Lot), Opened(queue), NEW x \in Reduced
    PROVE  Add(Stock(Sold(queue, x)), CostOf(queue, x)) = Stock(queue)
<1> DEFINE n == Len(queue)
           S == DOMAIN queue
           left == [k \in S |-> Mul(Left(queue, x)[k], Whole(queue[k].cost))]
           rest == Sold(queue, x)
           gone == TakenCost(queue, x)
           worth == Worth(queue)
<1>1. n \in Nat /\ S = 1..n /\ IsFiniteSet(S) /\ Values(gone, S)
  BY WorthType, TakenCostType
<1>2. ASSUME NEW k \in S
      PROVE  /\ left[k] \in Reduced
             /\ worth[k] = Add(left[k], gone[k])
             /\ Left(queue, x)[k] = Zero => left[k] = Zero
  <2> DEFINE l == Left(queue, x)[k]
             t == Taken(queue, x)[k]
             q == queue[k].qty
             c == Whole(queue[k].cost)
             lt == Add(l, t)
  <2>1. k \in 1..n /\ c \in Reduced
    BY <1>1, WorthType
  <2>2. l \in Reduced /\ t \in Reduced /\ lt = q /\ t = Take(queue, k, x)
    BY <2>1, TakenTypes
  <2>3. left[k] = Mul(l, c) /\ gone[k] = Mul(t, c) /\ worth[k] = Mul(q, c)
    BY <2>2 DEF TakenCost, Worth
  <2> HIDE DEF l, t, q, c, left, gone, worth
  <2>4. Mul(Add(l, t), c) = Add(Mul(l, c), Mul(t, c))
    BY <2>1, <2>2, MulSpreadsLeft
  <2>5. Mul(l, c) \in Reduced /\ (l = Zero => Mul(l, c) = Zero)
    BY <2>1, <2>2, MulType, MulSign, ZeroReduced
  <2>6. QED  BY <2>2, <2>3, <2>4, <2>5 DEF l
<1>3. Values(left, S)
  BY <1>2 DEF Values
<1>4. SumOn(worth, S) = Add(SumOn(left, S), SumOn(gone, S))
  <2> HIDE DEF left, gone, worth, S
  <2>1. QED  BY <1>1, <1>2, <1>3, SumOfSums
<1>5. SumOn(left, S) = Stock(rest)
  <2>1. PICK f : LeavesFrom(queue, x, rest, f)
    BY SoldLeaves
  <2> DEFINE A == 1..(f - 1)
             B == f..n
             D == DOMAIN rest
             p == [k \in D |-> (f + k) - 1]
  <2>2. /\ f \in 1..(n + 1) /\ rest \in Seq(Lot) /\ Len(rest) = (n + 1) - f
        /\ \A k \in A : Left(queue, x)[k] = Zero
        /\ \A k \in 1..Len(rest) : /\ rest[k].qty = Left(queue, x)[(f + k) - 1]
                                   /\ rest[k].cost = queue[(f + k) - 1].cost
    BY <2>1 DEF LeavesFrom
  <2>3. S = A \union B /\ A \intersect B = {} /\ A \subseteq S /\ B \subseteq S
    BY <1>1, <2>2
  <2>4. IsFiniteSet(A) /\ IsFiniteSet(B)
    BY <1>1, <2>3, FS_Subset
  <2>5. \A k \in A : left[k] = Zero
    BY <1>2, <2>2, <2>3
  <2>6. Values(left, B)
    BY <1>3, <2>3 DEF Values
  <2>7. D = 1..Len(rest) /\ Len(rest) \in Nat
    BY <2>2
  <2>8. IsFiniteSet(D) /\ Stock(rest) = SumOn(Worth(rest), D)
    BY <2>2, WorthType DEF Stock
  <2>9. p \in [D -> B]
    BY <1>1, <2>2, <2>7
  <2>10. \A k, m \in D : p[k] = p[m] => k = m
    BY <2>2, <2>7
  <2>11. \A j \in B : \E k \in D : p[k] = j
    <3>1. SUFFICES ASSUME NEW j \in B PROVE \E k \in D : p[k] = j
      OBVIOUS
    <3>2. (j - f) + 1 \in D /\ p[(j - f) + 1] = j
      BY <1>1, <2>2, <2>7
    <3>3. QED  BY <3>2
  <2>12. \A k \in D : Worth(rest)[k] = left[p[k]]
    <3>1. SUFFICES ASSUME NEW k \in D PROVE Worth(rest)[k] = left[p[k]]
      OBVIOUS
    <3> DEFINE j == (f + k) - 1
    <3>2. p[k] = j /\ j \in S
      BY <2>3, <2>9
    <3>3. rest[k].qty = Left(queue, x)[j] /\ rest[k].cost = queue[j].cost
      BY <2>2, <2>7
    <3> HIDE DEF j, p, S
    <3>4. left[j] = Mul(Left(queue, x)[j], Whole(queue[j].cost))
      BY <3>2
    <3>5. Worth(rest)[k] = Mul(rest[k].qty, Whole(rest[k].cost))
      BY DEF Worth
    <3>6. QED  BY <3>2, <3>3, <3>4, <3>5
  <2> HIDE DEF left, rest, A, B, D, p, S
  <2>13. SumOn(Worth(rest), D) = SumOn(left, B)
    <3> DEFINE w == Worth(rest)
    <3>1. \A k \in D : w[k] = left[p[k]]
      BY <2>12
    <3> HIDE DEF w
    <3>2. SumOn(w, D) = SumOn(left, B)
      BY <2>6, <2>8, <2>9, <2>10, <2>11, <3>1, SumRenamed
    <3>3. QED  BY <3>2 DEF w
  <2>14. SumOn(left, A \union B) = Add(SumOn(left, A), SumOn(left, B))
    BY <1>3, <2>3, <2>4, SumParts
  <2>15. SumOn(left, A) = Zero
    BY <2>4, <2>5, SumOfZeros
  <2>16. SumOn(left, B) \in Reduced
    BY <2>4, <2>6, SumValue
  <2>17. Add(Zero, SumOn(left, B)) = SumOn(left, B)
    BY <2>16, AddZero
  <2>18. QED  BY <2>3, <2>8, <2>13, <2>14, <2>15, <2>17
<1>6. QED  BY <1>4, <1>5 DEF Stock, CostOf

(* What a sale gains, and what it takes out of the stock, is what it brings. *)
LEMMA GainIs ==
    ASSUME NEW queue \in Seq(Lot), Opened(queue), NEW x \in Reduced, x.num >= 0,
           NEW price \in Quote, NEW b \in Bar
    PROVE  /\ Gain(queue, x, price, b, TRUE) \in Reduced /\ Gain(queue, x, price, b, FALSE) \in Reduced
           /\ Add(Add(Gain(queue, x, price, b, TRUE), Gain(queue, x, price, b, FALSE)), CostOf(queue, x)) =
                 Mul(Lesser(Quantities(queue), x), Whole(price))
<1> DEFINE S == DOMAIN queue
           g == [k \in S |-> Mul(Take(queue, k, x), Sub(Whole(price), Whole(queue[k].cost)))]
           soon(k) == Day[b] - Day[queue[k].acquired] < short_term_days
           A == {k \in S : soon(k) = TRUE}
           B == {k \in S : soon(k) = FALSE}
           gone == TakenCost(queue, x)
           taken == Taken(queue, x)
           brings == [k \in S |-> Add(g[k], gone[k])]
           w == Whole(price)
           gt == Gain(queue, x, price, b, TRUE)
           gf == Gain(queue, x, price, b, FALSE)
<1>1. gt = SumOn(g, A) /\ gf = SumOn(g, B)
  BY DEF Gain, SumOn
<1> HIDE DEF gt, gf
<1>0. \A k \in S : soon(k) \in BOOLEAN
  <2>1. SUFFICES ASSUME NEW k \in S PROVE soon(k) \in BOOLEAN
    OBVIOUS
  <2> DEFINE m == Day[b]
             n == Day[queue[k].acquired]
  <2>2. k \in 1..Len(queue)
    OBVIOUS
  <2>3. queue[k].acquired \in Bar
    BY <2>2, LotType
  <2>4. m \in Nat /\ n \in Nat /\ short_term_days \in Nat
    BY <2>3, BacktestAssumption
  <2> HIDE DEF m, n
  <2>5. (m - n < short_term_days) \in BOOLEAN
    BY <2>4
  <2>6. QED  BY <2>5 DEF m, n
<1>2. S = A \union B /\ A \intersect B = {} /\ A \subseteq S /\ B \subseteq S
  <2> HIDE DEF soon
  <2>1. QED  BY <1>0
<1>3. IsFiniteSet(S) /\ Values(gone, S) /\ Values(taken, S)
  BY WorthType, TakenCostType
<1>4. IsFiniteSet(A) /\ IsFiniteSet(B)
  BY <1>2, <1>3, FS_Subset
<1>5. w \in Reduced
  BY WholeReduced DEF Quote
<1>6. ASSUME NEW k \in S
      PROVE  g[k] \in Reduced /\ brings[k] = Mul(w, taken[k])
  <2> DEFINE t == Take(queue, k, x)
             c == Whole(queue[k].cost)
             d == Sub(w, c)
  <2>1. c \in Reduced
    BY WorthType
  <2>2. taken[k] = t /\ t \in Reduced
    BY <1>3 DEF Taken, Values
  <2>3. g[k] = Mul(t, d) /\ gone[k] = Mul(t, c) /\ brings[k] = Add(g[k], gone[k])
    BY DEF TakenCost
  <2> HIDE DEF t, c, g, gone, taken, brings, w
  <2>4. d \in Reduced /\ Add(d, c) = w
    BY <1>5, <2>1, SubBack
  <2> HIDE DEF d
  <2>5. Mul(t, Add(d, c)) = Add(Mul(t, d), Mul(t, c)) /\ Mul(t, d) \in Reduced
    BY <2>1, <2>2, <2>4, MulSpreads, MulType
  <2>6. Mul(t, w) = Mul(w, t)
    BY <1>5, <2>2, MulType
  <2>7. QED  BY <2>2, <2>3, <2>4, <2>5, <2>6
<1>7. Values(g, S) /\ Values(g, A) /\ Values(g, B) /\ \A k \in S : brings[k] = Add(g[k], gone[k])
  BY <1>2, <1>6 DEF Values
<1>8. SumOn(taken, S) = Lesser(Quantities(queue), x)
  BY AllTaken
<1> HIDE DEF gt, gf, A, B, S, g, gone, taken, brings, w
<1>9. gt \in Reduced /\ gf \in Reduced
  BY <1>1, <1>4, <1>7, SumValue
<1>10. SumOn(g, S) = Add(gt, gf)
  BY <1>1, <1>2, <1>4, <1>7, SumParts
<1>11. SumOn(brings, S) = Add(SumOn(g, S), SumOn(gone, S))
  BY <1>3, <1>7, SumOfSums
<1>12. SumOn(brings, S) = Mul(w, SumOn(taken, S))
  BY <1>3, <1>5, <1>6, SumOfMultiples
<1>13. SumOn(taken, S) \in Reduced
  BY <1>3, SumValue
<1>14. Mul(w, SumOn(taken, S)) = Mul(SumOn(taken, S), w)
  BY <1>5, <1>13, MulType
<1>15. QED
  BY <1>8, <1>9, <1>10, <1>11, <1>12, <1>14 DEF gt, gf, gone, S, w, CostOf
----------------------------------------------------------------------------
(* The trades of the first call, as estimate_taxes reads them. *)

Trade(i, s) == result[1].trades[i][s]

PriceAt(i, s) == prices[result[1].bars[i]][s]

Purchases(n, s) == {i \in 1..n : Positive(Trade(i, s)) /\ PriceAt(i, s) # None}

Units(i, s) == Mul(Trade(i, s), Ratio(1, PriceAt(i, s)))

Readable(n) ==
    /\ \A i \in 1..n : result[1].bars[i] \in Bar
    /\ \A i \in 1..n : \A s \in Symbol :
          Trade(i, s) \in Reduced /\ PriceAt(i, s) \in Quote \union {None}
    /\ \A i \in 1..n, k \in 1..n : i < k => result[1].bars[i] < result[1].bars[k]

(* The lots of a symbol after n rows: the oldest may have been sold from,   *)
(* each of the others is a whole purchase, and no later purchase is missing. *)
Ordered(queue) ==
    \A k \in 1..Len(queue), m \in 1..Len(queue) : k < m => queue[k].acquired < queue[m].acquired

Bought(queue, n, s) ==
    \A k \in 1..Len(queue) : \E i \in Purchases(n, s) :
        queue[k].acquired = result[1].bars[i] /\ (k # 1 => queue[k].qty = Units(i, s))

Complete(queue, n, s) ==
    Len(queue) # 0 =>
        \A i \in Purchases(n, s) :
            result[1].bars[i] > queue[1].acquired =>
                \E k \in 2..Len(queue) : queue[k].acquired = result[1].bars[i]

Ledger(queue, n, s) ==
    /\ queue \in Seq(Lot) /\ Opened(queue) /\ Ordered(queue)
    /\ Bought(queue, n, s) /\ Complete(queue, n, s)

LEMMA PurchasesMore ==
    ASSUME NEW n \in Nat, NEW s
    PROVE  /\ n + 1 \in Purchases(n + 1, s) => Purchases(n + 1, s) = Purchases(n, s) \union {n + 1}
           /\ n + 1 \notin Purchases(n + 1, s) => Purchases(n + 1, s) = Purchases(n, s)
           /\ n + 1 \notin Purchases(n, s)
           /\ Purchases(n, s) \subseteq 1..n
<1>1. 1..(n + 1) = (1..n) \union {n + 1} /\ n + 1 \notin 1..n
  OBVIOUS
<1>2. QED  BY <1>1 DEF Purchases

LEMMA UnitsAre ==
    ASSUME NEW t \in Reduced, NEW p \in Quote
    PROVE  LET x == Mul(t, Ratio(1, p))
           IN  /\ x \in Reduced
               /\ t.num > 0 => x.num > 0
               /\ t.num >= 0 => x.num >= 0
               /\ Mul(x, Whole(p)) = t
<1> DEFINE one == 1
           r == Ratio(one, p)
           w == Whole(p)
           x == Mul(t, r)
<1>1. one \in Int /\ p \in Nat \ {0} /\ p \in Int /\ one \in Nat \ {0} /\ one > 0 /\ one >= 0
  BY DEF Quote
<1>2. r \in Reduced /\ r.num > 0 /\ r.num >= 0
  <2> HIDE DEF one
  <2>1. QED  BY <1>1, RatioSign
<1>3. w \in Reduced /\ w = Ratio(p, one)
  BY <1>1, WholeReduced
<1>9. Whole(one) = Ratio(one, one)
  <2>1. 1 \in Int
    OBVIOUS
  <2>2. Whole(1) = Ratio(1, 1)
    BY <2>1, WholeReduced
  <2>3. QED  BY <2>2
<1>4. Mul(r, w) = Whole(one)
  <2> DEFINE a == one * p
             b == p * one
  <2>1. a \in Int /\ b \in Nat \ {0} /\ a * one = one * b /\ a = p /\ b = p
    BY <1>1
  <2> HIDE DEF one, w
  <2>2. Mul(r, Ratio(p, one)) = Ratio(a, b)
    BY <1>1, RatioMul
  <2> HIDE DEF a, b, r
  <2>3. Ratio(a, b) = Ratio(one, one)
    BY <1>1, <2>1, RatioSame
  <2>4. QED  BY <1>3, <1>9, <2>2, <2>3
<1> HIDE DEF r, w
<1>5. x \in Reduced /\ (t.num > 0 => x.num > 0) /\ (t.num >= 0 => x.num >= 0)
  BY <1>2, MulType, MulSign
<1>6. Mul(t, Mul(r, w)) = Mul(Mul(t, r), w)
  BY <1>2, <1>3, MulGroups
<1>7. Mul(t, Whole(one)) = t
  BY MulOne DEF One
<1>8. QED  BY <1>4, <1>5, <1>6, <1>7 DEF r, w

LEMMA LedgerStays ==
    ASSUME NEW n \in Nat, NEW s, NEW queue, Ledger(queue, n, s), n + 1 \notin Purchases(n + 1, s)
    PROVE  Ledger(queue, n + 1, s)
  BY PurchasesMore DEF Ledger, Bought, Complete

LEMMA LedgerBuys ==
    ASSUME NEW n \in Nat, NEW s \in Symbol, NEW queue, Ledger(queue, n, s), Readable(n + 1),
           n + 1 \in Purchases(n + 1, s)
    PROVE  LET lot == [qty |-> Units(n + 1, s), cost |-> PriceAt(n + 1, s),
                       acquired |-> result[1].bars[n + 1]]
           IN  lot \in Lot /\ Ledger(Append(queue, lot), n + 1, s)
<1> DEFINE m == n + 1
           b == result[1].bars[m]
           lot == [qty |-> Units(m, s), cost |-> PriceAt(m, s), acquired |-> b]
           more == Append(queue, lot)
           l == Len(queue)
<1>1. m \in 1..m /\ m \in Nat /\ Positive(Trade(m, s)) /\ PriceAt(m, s) # None
  BY DEF Purchases
<1>2. b \in Bar /\ Trade(m, s) \in Reduced /\ PriceAt(m, s) \in Quote
  BY <1>1 DEF Readable
<1>3. Units(m, s) \in Reduced /\ Positive(Units(m, s))
  BY <1>1, <1>2, UnitsAre DEF Units, Positive
<1>4. lot \in Lot /\ lot.acquired = b /\ lot.qty = Units(m, s)
  BY <1>2, <1>3 DEF Lot
<1>5. queue \in Seq(Lot) /\ l \in Nat
  BY DEF Ledger
<1> HIDE DEF lot
<1>6. /\ more \in Seq(Lot) /\ Len(more) = l + 1
      /\ \A k \in 1..l : more[k] = queue[k]
      /\ more[l + 1] = lot
  BY <1>4, <1>5
<1>7. 1..(l + 1) = (1..l) \union {l + 1} /\ l + 1 \notin 1..l
  BY <1>5
<1> HIDE DEF more, l
<1>8. Opened(more)
  BY <1>3, <1>4, <1>6, <1>7 DEF Opened, Ledger, l
<1>9. \A i \in Purchases(n, s) : result[1].bars[i] < b /\ i \in 1..m
  <2>1. SUFFICES ASSUME NEW i \in Purchases(n, s) PROVE result[1].bars[i] < b /\ i \in 1..m
    OBVIOUS
  <2>2. i \in 1..m /\ m \in 1..m /\ i < m
    BY <1>1 DEF Purchases
  <2>3. QED  BY <2>2 DEF Readable
<1>10. \A k \in 1..l : queue[k].acquired < b
  BY <1>9 DEF Ledger, Bought, l
<1>11. Ordered(more)
  <2>1. SUFFICES ASSUME NEW k \in 1..(l + 1), NEW j \in 1..(l + 1), k < j
                 PROVE  more[k].acquired < more[j].acquired
    BY <1>6 DEF Ordered
  <2>2. CASE j \in 1..l
    <3>1. k \in 1..l
      BY <1>5, <2>1, <2>2
    <3>2. QED  BY <1>6, <2>1, <2>2, <3>1 DEF Ledger, Ordered, l
  <2>3. CASE j = l + 1
    <3>1. k \in 1..l
      BY <1>5, <2>1, <2>3
    <3>2. QED  BY <1>4, <1>6, <1>10, <2>3, <3>1
  <2>4. QED  BY <1>7, <2>2, <2>3
<1>12. Purchases(m, s) = Purchases(n, s) \union {m}
  BY PurchasesMore
<1>13. Bought(more, m, s)
  <2>1. SUFFICES ASSUME NEW k \in 1..(l + 1)
                 PROVE  \E i \in Purchases(m, s) :
                           more[k].acquired = result[1].bars[i] /\ (k # 1 => more[k].qty = Units(i, s))
    BY <1>6 DEF Bought
  <2>2. CASE k \in 1..l
    <3>1. \E i \in Purchases(n, s) :
             queue[k].acquired = result[1].bars[i] /\ (k # 1 => queue[k].qty = Units(i, s))
      BY <2>2 DEF Ledger, Bought, l
    <3>2. QED  BY <1>6, <1>12, <2>2, <3>1
  <2>3. CASE k = l + 1
    BY <1>4, <1>6, <1>12, <2>3
  <2>4. QED  BY <1>7, <2>2, <2>3
<1>14. Complete(more, m, s)
  <2>1. SUFFICES ASSUME NEW i \in Purchases(m, s), result[1].bars[i] > more[1].acquired
                 PROVE  \E k \in 2..(l + 1) : more[k].acquired = result[1].bars[i]
    BY <1>6 DEF Complete
  <2>2. CASE l = 0
    <3>1. more[1].acquired = b
      BY <1>4, <1>6, <2>2
    <3>2. result[1].bars[i] < b \/ result[1].bars[i] = b
      BY <1>9, <1>12
    <3>3. result[1].bars[i] \in Nat /\ b \in Nat
      <4>1. i \in 1..m
        BY <1>1, <1>9, <1>12
      <4>2. QED  BY <1>2, <4>1, BarNumbers DEF Readable
    <3>4. QED  BY <2>1, <3>1, <3>2, <3>3
  <2>3. CASE l # 0
    <3>1. 1 \in 1..l /\ l + 1 \in 2..(l + 1) /\ \A k \in 2..l : k \in 1..l /\ k \in 2..(l + 1)
      BY <1>5, <2>3
    <3>2. CASE i = m
      BY <1>4, <1>6, <3>1, <3>2
    <3>3. CASE i \in Purchases(n, s)
      <4>1. result[1].bars[i] > queue[1].acquired
        BY <1>6, <2>1, <3>1
      <4>2. PICK k \in 2..l : queue[k].acquired = result[1].bars[i]
        BY <2>3, <3>3, <4>1 DEF Ledger, Complete, l
      <4>3. QED  BY <1>6, <3>1, <4>2
    <3>4. QED  BY <1>12, <3>2, <3>3
  <2>4. QED  BY <2>2, <2>3
<1>15. Ledger(more, m, s)
  BY <1>6, <1>8, <1>11, <1>13, <1>14 DEF Ledger
<1>16. QED  BY <1>4, <1>15 DEF lot, more

LEMMA LedgerSells ==
    ASSUME NEW n \in Nat, NEW s, NEW queue, Ledger(queue, n, s),
           Readable(n), NEW x \in Reduced
    PROVE  Ledger(Sold(queue, x), n, s)
<1> DEFINE rest == Sold(queue, x)
           l == Len(queue)
           r == Len(rest)
<1>1. queue \in Seq(Lot) /\ Opened(queue) /\ l \in Nat
  BY DEF Ledger
<1>2. PICK f : LeavesFrom(queue, x, rest, f)
  BY <1>1, SoldLeaves
<1>3. /\ f \in 1..(l + 1) /\ rest \in Seq(Lot) /\ r = (l + 1) - f /\ Opened(rest)
      /\ \A k \in 1..r : /\ rest[k].acquired = queue[(f + k) - 1].acquired
                         /\ k # 1 => rest[k].qty = queue[(f + k) - 1].qty
  BY <1>2 DEF LeavesFrom
<1> HIDE DEF l, r, rest
<1>4. \A k \in 1..r : (f + k) - 1 \in 1..l /\ (k # 1 => (f + k) - 1 # 1) /\ r \in Nat
  BY <1>1, <1>3
<1>5. Ordered(rest)
  <2>1. SUFFICES ASSUME NEW k \in 1..r, NEW j \in 1..r, k < j
                 PROVE  rest[k].acquired < rest[j].acquired
    BY DEF Ordered, r
  <2>2. (f + k) - 1 < (f + j) - 1
    BY <1>1, <1>3, <1>4, <2>1
  <2>3. queue[(f + k) - 1].acquired < queue[(f + j) - 1].acquired
    BY <1>4, <2>2 DEF Ledger, Ordered, l
  <2>4. QED  BY <1>3, <2>3
<1>6. Bought(rest, n, s)
  <2>1. SUFFICES ASSUME NEW k \in 1..r
                 PROVE  \E i \in Purchases(n, s) :
                           rest[k].acquired = result[1].bars[i] /\ (k # 1 => rest[k].qty = Units(i, s))
    BY DEF Bought, r
  <2> DEFINE j == (f + k) - 1
  <2>2. j \in 1..l /\ (k # 1 => j # 1)
    BY <1>4
  <2>3. rest[k].acquired = queue[j].acquired /\ (k # 1 => rest[k].qty = queue[j].qty)
    BY <1>3
  <2> HIDE DEF j
  <2>4. \E i \in Purchases(n, s) :
           queue[j].acquired = result[1].bars[i] /\ (j # 1 => queue[j].qty = Units(i, s))
    BY <2>2 DEF Ledger, Bought, l
  <2>5. QED  BY <2>2, <2>3, <2>4
<1>7. Complete(rest, n, s)
  <2>1. SUFFICES ASSUME r # 0, NEW i \in Purchases(n, s), result[1].bars[i] > rest[1].acquired
                 PROVE  \E k \in 2..r : rest[k].acquired = result[1].bars[i]
    BY DEF Complete, r
  <2>2. 1 \in 1..r /\ f \in 1..l /\ 1 \in 1..l /\ l # 0 /\ (f + 1) - 1 = f /\ r \in Nat
    BY <1>1, <1>3, <2>1
  <2>3. rest[1].acquired = queue[f].acquired
    BY <1>3, <2>2
  <2>4. /\ \A k \in 1..l : queue[k].acquired \in Nat
        /\ result[1].bars[i] \in Nat
    <3>1. \A k \in 1..l : queue[k].acquired \in Bar
      BY <1>1, LotType DEF l
    <3>2. result[1].bars[i] \in Bar
      BY PurchasesMore DEF Readable
    <3>3. QED  BY <3>1, <3>2, BarNumbers
  <2>5. queue[1].acquired <= queue[f].acquired
    <3>1. f = 1 \/ 1 < f
      BY <2>2
    <3>2. 1 < f => queue[1].acquired < queue[f].acquired
      BY <2>2 DEF Ledger, Ordered, l
    <3>3. QED  BY <2>2, <2>4, <3>1, <3>2
  <2>6. result[1].bars[i] > queue[1].acquired
    BY <2>1, <2>2, <2>3, <2>4, <2>5
  <2>7. PICK j \in 2..l : queue[j].acquired = result[1].bars[i]
    BY <2>2, <2>6 DEF Ledger, Complete, l
  <2>8. j \in 1..l /\ f < j
    <3>1. j \in 1..l
      BY <1>1, <2>7
    <3>2. ~(queue[j].acquired <= queue[f].acquired)
      BY <2>1, <2>2, <2>3, <2>4, <2>7, <3>1
    <3>3. j < f => queue[j].acquired < queue[f].acquired
      BY <2>2, <3>1 DEF Ledger, Ordered, l
    <3>4. j # f /\ ~(j < f)
      BY <2>2, <2>4, <3>1, <3>2, <3>3
    <3>5. QED  BY <2>2, <3>1, <3>4
  <2> DEFINE k == (j - f) + 1
  <2>9. k \in 2..r /\ k \in 1..r /\ (f + k) - 1 = j
    BY <1>1, <1>3, <2>2, <2>8
  <2>10. rest[k].acquired = queue[j].acquired
    BY <1>3, <2>9
  <2>11. QED  BY <2>7, <2>9, <2>10
<1>8. QED  BY <1>3, <1>5, <1>6, <1>7 DEF Ledger, rest
----------------------------------------------------------------------------
(* What the purchases of a symbol have cost. *)
Trades(n, s) == [i \in Purchases(n, s) |-> Trade(i, s)]

Spent(n, s) == SumOn(Trades(n, s), Purchases(n, s))

LEMMA TradesAre ==
    ASSUME NEW n \in Nat, NEW s \in Symbol, Readable(n)
    PROVE  /\ IsFiniteSet(Purchases(n, s)) /\ Values(Trades(n, s), Purchases(n, s))
           /\ Spent(n, s) \in Reduced
<1>1. Purchases(n, s) \subseteq 1..n
  BY PurchasesMore
<1>2. IsFiniteSet(1..n)
  BY FS_Interval
<1>3. IsFiniteSet(Purchases(n, s))
  BY <1>1, <1>2, FS_Subset
<1>4. Values(Trades(n, s), Purchases(n, s))
  BY <1>1 DEF Readable, Values, Trades
<1>5. QED  BY <1>3, <1>4, SumValue DEF Spent

LEMMA SpentMore ==
    ASSUME NEW n \in Nat, NEW s \in Symbol, Readable(n + 1)
    PROVE  /\ Readable(n)
           /\ n + 1 \in Purchases(n + 1, s) => Spent(n + 1, s) = Add(Spent(n, s), Trade(n + 1, s))
           /\ n + 1 \notin Purchases(n + 1, s) => Spent(n + 1, s) = Spent(n, s)
<1> DEFINE m == n + 1
           P == Purchases(n, s)
           Q == Purchases(m, s)
           t == Trades(m, s)
<1>1. m \in Nat /\ 1..n \subseteq 1..m
  OBVIOUS
<1>2. Readable(n)
  BY <1>1 DEF Readable
<1>3. IsFiniteSet(P) /\ Values(Trades(n, s), P) /\ IsFiniteSet(Q) /\ Values(t, Q)
  BY <1>1, <1>2, TradesAre
<1>4. (m \in Q => Q = P \union {m}) /\ (m \notin Q => Q = P) /\ m \notin P
  BY PurchasesMore
<1>5. P \subseteq Q
  BY <1>4
<1>6. \A i \in P : t[i] = Trades(n, s)[i]
  BY <1>5 DEF Trades
<1>7. SumOn(t, P) = Spent(n, s)
  BY <1>3, <1>6, SumAgrees DEF Spent
<1>8. ASSUME m \in Q PROVE Spent(m, s) = Add(Spent(n, s), Trade(m, s))
  <2>1. t[m] = Trade(m, s) /\ t[m] \in Reduced /\ Values(t, P)
    BY <1>3, <1>5, <1>8 DEF Trades, Values
  <2> HIDE DEF t, P, Q
  <2>2. SumOn(t, Q) = Add(t[m], SumOn(t, P)) /\ SumOn(t, P) \in Reduced
    BY <1>3, <1>4, <1>8, <2>1, SumMore
  <2> DEFINE x == t[m]
             y == SumOn(t, P)
  <2>3. x \in Reduced /\ y \in Reduced
    BY <2>1, <2>2
  <2> HIDE DEF x, y
  <2>4. Add(x, y) = Add(y, x)
    BY <2>3, Sums
  <2>5. QED  BY <1>7, <2>1, <2>2, <2>4 DEF x, y, t, Q, Spent
<1>9. ASSUME m \notin Q PROVE Spent(m, s) = Spent(n, s)
  BY <1>4, <1>7, <1>9 DEF Spent
<1>10. QED  BY <1>2, <1>8, <1>9

LEMMA StockBuys ==
    ASSUME NEW queue \in Seq(Lot), NEW lot \in Lot
    PROVE  Stock(Append(queue, lot)) = Add(Stock(queue), Mul(lot.qty, Whole(lot.cost)))
<1> DEFINE more == Append(queue, lot)
           l == Len(queue)
           m == l + 1
           S == DOMAIN queue
           T == DOMAIN more
           w == Worth(more)
<1>1. /\ l \in Nat /\ S = 1..l /\ more \in Seq(Lot) /\ T = 1..m
      /\ \A k \in 1..l : more[k] = queue[k]
      /\ more[m] = lot
  OBVIOUS
<1>2. T = S \union {m} /\ m \notin S /\ S \subseteq T
  BY <1>1
<1>3. IsFiniteSet(S) /\ Values(Worth(queue), S) /\ Stock(queue) \in Reduced
  BY WorthType
<1>4. Values(w, T) /\ Stock(more) = SumOn(w, T)
  BY <1>1, WorthType DEF Stock
<1>5. \A k \in S : w[k] = Worth(queue)[k]
  BY <1>1, <1>2 DEF Worth
<1>6. w[m] = Mul(lot.qty, Whole(lot.cost))
  BY <1>1, <1>2 DEF Worth
<1>7. SumOn(w, S) = Stock(queue)
  BY <1>3, <1>5, SumAgrees DEF Stock
<1>8. Values(w, S) /\ w[m] \in Reduced
  BY <1>2, <1>4 DEF Values
<1> DEFINE x == w[m]
           y == Stock(queue)
<1>9. Stock(more) = Add(x, y)
  <2> HIDE DEF w, S, T, m, more
  <2>1. SumOn(w, T) = Add(w[m], SumOn(w, S))
    BY <1>2, <1>3, <1>8, SumMore
  <2>2. QED  BY <1>4, <1>7, <2>1
<1>10. x \in Reduced /\ y \in Reduced /\ x = Mul(lot.qty, Whole(lot.cost))
  BY <1>3, <1>6, <1>8
<1> HIDE DEF x, y
<1>11. Add(x, y) = Add(y, x)
  BY <1>10, Sums
<1>12. QED  BY <1>9, <1>10, <1>11 DEF y
----------------------------------------------------------------------------
(* What the m-th row does to the lots of a symbol. *)
Buying(m, s) == PriceAt(m, s) # None /\ Positive(Trade(m, s))

Selling(m, s) == PriceAt(m, s) # None /\ Trade(m, s).num # 0 /\ ~Positive(Trade(m, s))

Offered(m, s) == Mul(Neg(Trade(m, s)), Ratio(1, PriceAt(m, s)))

NewLots(queue, m, s) ==
    IF Buying(m, s)
    THEN Append(queue, [qty |-> Units(m, s), cost |-> PriceAt(m, s), acquired |-> result[1].bars[m]])
    ELSE IF Selling(m, s) THEN Sold(queue, Offered(m, s)) ELSE queue

Outlay(m, s) == IF Buying(m, s) THEN Trade(m, s) ELSE Zero

Gained(queue, m, s, short) ==
    IF Selling(m, s)
    THEN Gain(queue, Offered(m, s), PriceAt(m, s), result[1].bars[m], short)
    ELSE Zero

Income(queue, m, s) ==
    IF Selling(m, s)
    THEN Mul(Lesser(Quantities(queue), Offered(m, s)), Whole(PriceAt(m, s)))
    ELSE Zero

Removed(queue, m, s) == IF Selling(m, s) THEN CostOf(queue, Offered(m, s)) ELSE Zero

RowTypes(queue, m, s) ==
    /\ Gained(queue, m, s, TRUE) \in Reduced /\ Gained(queue, m, s, FALSE) \in Reduced
    /\ Income(queue, m, s) \in Reduced /\ Removed(queue, m, s) \in Reduced
    /\ Outlay(m, s) \in Reduced
    /\ Stock(queue) \in Reduced /\ Stock(NewLots(queue, m, s)) \in Reduced

LEMMA OfferedIs ==
    ASSUME NEW m \in Nat \ {0}, NEW s \in Symbol, Readable(m), Selling(m, s)
    PROVE  /\ Offered(m, s) \in Reduced /\ Offered(m, s).num >= 0
           /\ PriceAt(m, s) \in Quote /\ result[1].bars[m] \in Bar
<1> DEFINE t == Trade(m, s)
           n == Neg(t)
           p == PriceAt(m, s)
<1>1. m \in 1..m
  OBVIOUS
<1>2. t \in Reduced /\ p \in Quote /\ result[1].bars[m] \in Bar /\ ~(t.num > 0)
  BY <1>1 DEF Readable, Selling, Positive
<1> HIDE DEF t, p
<1>3. t.num \in Int
  BY <1>2, ReducedParts, Parts
<1>4. n.num = -t.num
  <2>1. t = [num |-> t.num, den |-> t.den]
    BY <1>2, ReducedParts DEF Fraction
  <2>2. QED  BY <2>1 DEF Neg
<1>5. n.num >= 0
  BY <1>2, <1>3, <1>4
<1>6. n \in Reduced
  BY <1>2, SubType
<1> HIDE DEF n
<1>7. Mul(n, Ratio(1, p)) \in Reduced /\ Mul(n, Ratio(1, p)).num >= 0
  BY <1>2, <1>5, <1>6, UnitsAre
<1>8. QED  BY <1>2, <1>7 DEF Offered, n, p, t

LEMMA RowBuys ==
    ASSUME NEW n \in Nat, NEW s \in Symbol, NEW queue, Ledger(queue, n, s), Readable(n + 1),
           Buying(n + 1, s)
    PROVE  LET m == n + 1 IN
           /\ Ledger(NewLots(queue, m, s), m, s) /\ RowTypes(queue, m, s)
           /\ Spent(m, s) = Add(Spent(n, s), Outlay(m, s))
           /\ Stock(NewLots(queue, m, s)) = Add(Stock(queue), Outlay(m, s))
<1> DEFINE m == n + 1
           b == result[1].bars[m]
           t == Trade(m, s)
           p == PriceAt(m, s)
           lot == [qty |-> Units(m, s), cost |-> p, acquired |-> b]
<1>1. m \in 1..m /\ m \in Purchases(m, s)
  BY DEF Buying, Purchases
<1>2. t \in Reduced /\ p \in Quote
  BY <1>1 DEF Readable, Buying
<1>3. lot \in Lot /\ Ledger(Append(queue, lot), m, s)
  BY <1>1, LedgerBuys
<1>4. lot.qty = Units(m, s) /\ lot.cost = p
  OBVIOUS
<1>5. queue \in Seq(Lot) /\ Append(queue, lot) \in Seq(Lot)
  BY <1>3 DEF Ledger
<1>6. NewLots(queue, m, s) = Append(queue, lot)
  BY DEF NewLots
<1>7. Outlay(m, s) = t
  BY DEF Outlay
<1>8. Mul(Units(m, s), Whole(p)) = t
  <2> HIDE DEF t, p
  <2>1. QED  BY <1>2, UnitsAre DEF Units, t, p
<1>9. Stock(Append(queue, lot)) = Add(Stock(queue), t)
  <2> HIDE DEF lot
  <2>1. Stock(Append(queue, lot)) = Add(Stock(queue), Mul(lot.qty, Whole(lot.cost)))
    BY <1>3, <1>5, StockBuys
  <2>2. QED  BY <1>4, <1>8, <2>1
<1>10. Spent(m, s) = Add(Spent(n, s), t)
  BY <1>1, SpentMore
<1>11. Stock(queue) \in Reduced /\ Stock(Append(queue, lot)) \in Reduced
  BY <1>5, WorthType
<1>12. ~Selling(m, s)
  BY DEF Buying, Selling
<1>13. RowTypes(queue, m, s)
  BY <1>2, <1>6, <1>7, <1>11, <1>12, ZeroReduced DEF RowTypes, Gained, Income, Removed
<1>14. QED  BY <1>3, <1>6, <1>7, <1>9, <1>10, <1>13

LEMMA RowSells ==
    ASSUME NEW n \in Nat, NEW s \in Symbol, NEW queue, Ledger(queue, n, s), Readable(n + 1),
           ~Buying(n + 1, s)
    PROVE  LET m == n + 1 IN
           /\ Ledger(NewLots(queue, m, s), m, s) /\ RowTypes(queue, m, s)
           /\ Spent(m, s) = Spent(n, s) /\ Outlay(m, s) = Zero
           /\ Add(Stock(NewLots(queue, m, s)), Removed(queue, m, s)) = Stock(queue)
           /\ Add(Add(Gained(queue, m, s, TRUE), Gained(queue, m, s, FALSE)), Removed(queue, m, s)) =
                 Income(queue, m, s)
<1> DEFINE m == n + 1
           x == Offered(m, s)
           p == PriceAt(m, s)
           b == result[1].bars[m]
<1>1. m \in Nat \ {0} /\ m \notin Purchases(m, s) /\ Readable(m)
  BY DEF Buying, Purchases
<1>2. Ledger(queue, m, s) /\ queue \in Seq(Lot) /\ Opened(queue)
  BY <1>1, LedgerStays DEF Ledger
<1>3. Spent(m, s) = Spent(n, s) /\ Outlay(m, s) = Zero /\ Zero \in Reduced
  BY <1>1, SpentMore, ZeroReduced DEF Outlay
<1>4. Stock(queue) \in Reduced
  BY <1>2, WorthType
<1>5. CASE ~Selling(m, s)
  <2>1. /\ NewLots(queue, m, s) = queue /\ Removed(queue, m, s) = Zero
        /\ Gained(queue, m, s, TRUE) = Zero /\ Gained(queue, m, s, FALSE) = Zero
        /\ Income(queue, m, s) = Zero
    BY <1>5 DEF NewLots, Removed, Gained, Income
  <2>2. RowTypes(queue, m, s)
    BY <1>3, <1>4, <2>1 DEF RowTypes
  <2>3. Add(Stock(queue), Zero) = Stock(queue) /\ Add(Zero, Zero) = Zero
    BY <1>3, <1>4, AddZero
  <2>4. QED  BY <1>2, <1>3, <2>1, <2>2, <2>3
<1>6. CASE Selling(m, s)
  <2>1. x \in Reduced /\ x.num >= 0 /\ p \in Quote /\ b \in Bar
    BY <1>1, <1>6, OfferedIs
  <2>2. /\ NewLots(queue, m, s) = Sold(queue, x) /\ Removed(queue, m, s) = CostOf(queue, x)
        /\ Gained(queue, m, s, TRUE) = Gain(queue, x, p, b, TRUE)
        /\ Gained(queue, m, s, FALSE) = Gain(queue, x, p, b, FALSE)
        /\ Income(queue, m, s) = Mul(Lesser(Quantities(queue), x), Whole(p))
    BY <1>6 DEF NewLots, Removed, Gained, Income
  <2> HIDE DEF x, p, b
  <2>3. Ledger(Sold(queue, x), m, s) /\ Sold(queue, x) \in Seq(Lot)
    <3> HIDE DEF m
    <3>1. Ledger(Sold(queue, x), m, s)
      BY <1>1, <1>2, <2>1, LedgerSells
    <3>2. QED  BY <3>1 DEF Ledger
  <2>4. Add(Stock(Sold(queue, x)), CostOf(queue, x)) = Stock(queue)
    BY <1>2, <2>1, StockSold
  <2>5. /\ Gain(queue, x, p, b, TRUE) \in Reduced /\ Gain(queue, x, p, b, FALSE) \in Reduced
        /\ Add(Add(Gain(queue, x, p, b, TRUE), Gain(queue, x, p, b, FALSE)), CostOf(queue, x)) =
              Mul(Lesser(Quantities(queue), x), Whole(p))
    BY <1>2, <2>1, GainIs
  <2>6. CostOf(queue, x) \in Reduced /\ Stock(Sold(queue, x)) \in Reduced
    BY <1>2, <2>1, <2>3, TakenCostType, WorthType
  <2> DEFINE u == Gain(queue, x, p, b, TRUE)
             v == Gain(queue, x, p, b, FALSE)
             w == CostOf(queue, x)
             g == Add(u, v)
  <2>7. Add(g, w) \in Reduced
    <3>1. u \in Reduced /\ v \in Reduced /\ w \in Reduced
      BY <2>5, <2>6
    <3> HIDE DEF u, v, w
    <3>2. g \in Reduced
      BY <3>1, AddType
    <3> HIDE DEF g
    <3>3. QED  BY <3>1, <3>2, AddType
  <2>8. RowTypes(queue, m, s)
    BY <1>3, <1>4, <2>2, <2>5, <2>6, <2>7 DEF RowTypes
  <2>9. QED  BY <1>3, <2>2, <2>3, <2>4, <2>5, <2>8
<1>7. QED  BY <1>5, <1>6

(* For a symbol, a row keeps the ledger, what was paid for, and what is     *)
(* sold: its cost leaves the stock, and with the gain is the income.        *)
LEMMA RowKeeps ==
    ASSUME NEW n \in Nat, NEW s \in Symbol, NEW queue, Ledger(queue, n, s), Readable(n + 1)
    PROVE  LET m == n + 1 IN
           /\ Ledger(NewLots(queue, m, s), m, s) /\ RowTypes(queue, m, s)
           /\ Spent(n, s) \in Reduced
           /\ Spent(m, s) = Add(Spent(n, s), Outlay(m, s))
           /\ Add(Stock(NewLots(queue, m, s)), Removed(queue, m, s)) = Add(Stock(queue), Outlay(m, s))
           /\ Add(Add(Gained(queue, m, s, TRUE), Gained(queue, m, s, FALSE)), Removed(queue, m, s)) =
                 Income(queue, m, s)
<1> DEFINE m == n + 1
           new == NewLots(queue, m, s)
<1>1. Spent(n, s) \in Reduced
  BY SpentMore, TradesAre
<1>2. CASE Buying(m, s)
  <2>1. /\ Ledger(new, m, s) /\ RowTypes(queue, m, s)
        /\ Spent(m, s) = Add(Spent(n, s), Outlay(m, s))
        /\ Stock(new) = Add(Stock(queue), Outlay(m, s))
    BY <1>2, RowBuys
  <2>2. /\ Removed(queue, m, s) = Zero /\ Income(queue, m, s) = Zero
        /\ Gained(queue, m, s, TRUE) = Zero /\ Gained(queue, m, s, FALSE) = Zero
    BY <1>2 DEF Buying, Selling, Removed, Income, Gained
  <2>3. Stock(new) \in Reduced
    BY <2>1 DEF RowTypes
  <2>4. Add(Stock(new), Zero) = Stock(new) /\ Add(Zero, Zero) = Zero
    BY <2>3, AddZero, ZeroReduced
  <2>5. QED  BY <1>1, <2>1, <2>2, <2>4
<1>3. CASE ~Buying(m, s)
  <2>1. /\ Ledger(new, m, s) /\ RowTypes(queue, m, s)
        /\ Spent(m, s) = Spent(n, s) /\ Outlay(m, s) = Zero
        /\ Add(Stock(new), Removed(queue, m, s)) = Stock(queue)
        /\ Add(Add(Gained(queue, m, s, TRUE), Gained(queue, m, s, FALSE)), Removed(queue, m, s)) =
              Income(queue, m, s)
    BY <1>3, RowSells
  <2>2. Stock(queue) \in Reduced
    BY <2>1 DEF RowTypes
  <2>3. Add(Stock(queue), Zero) = Stock(queue) /\ Add(Spent(n, s), Zero) = Spent(n, s)
    BY <1>1, <2>2, AddZero
  <2>4. QED  BY <1>1, <2>1, <2>3
<1>4. QED  BY <1>2, <1>3
----------------------------------------------------------------------------
LEMMA RatioEqual ==
    ASSUME NEW m \in Int, NEW n \in Int, NEW d \in Nat \ {0}, Ratio(m, d) = Ratio(n, d)
    PROVE  m = n
  BY RatioOrder

(* What a row adds on either side of the balance. *)
Moves(y, c, r, l, g, k, o, i, m) ==
    /\ y \in Reduced /\ c \in Reduced /\ r \in Reduced /\ l \in Reduced
    /\ g \in Reduced /\ k \in Reduced /\ o \in Reduced /\ m \in Reduced
    /\ Add(y, c) = Add(r, l) /\ Add(g, k) = i /\ Add(m, k) = Add(l, o)

LEMMA BalanceMoves ==
    ASSUME NEW y, NEW c, NEW r, NEW l, NEW g, NEW k, NEW o, NEW i, NEW m,
           Moves(y, c, r, l, g, k, o, i, m)
    PROVE  Add(Add(y, g), Add(c, o)) = Add(Add(r, i), m)
<1>0. /\ y \in Reduced /\ c \in Reduced /\ r \in Reduced /\ l \in Reduced
      /\ g \in Reduced /\ k \in Reduced /\ o \in Reduced /\ m \in Reduced
      /\ Add(y, c) = Add(r, l) /\ Add(g, k) = i /\ Add(m, k) = Add(l, o)
  BY DEF Moves
<1>1. PICK d1 \in Nat \ {0} :
         In(y, d1) /\ In(c, d1) /\ In(r, d1) /\ In(l, d1) /\ In(g, d1) /\ In(k, d1)
  BY <1>0, ShareDenominator
<1>2. PICK d2 \in Nat \ {0} : In(o, d2) /\ \A t : In(t, d1) => In(t, d2)
  BY <1>0, SharedMore
<1>3. PICK d \in Nat \ {0} : In(m, d) /\ \A t : In(t, d2) => In(t, d)
  BY <1>0, SharedMore
<1>4. /\ In(y, d) /\ In(c, d) /\ In(r, d) /\ In(l, d) /\ In(g, d) /\ In(k, d) /\ In(o, d)
      /\ In(m, d)
  BY <1>1, <1>2, <1>3
<1>5. PICK ny \in Int, nc \in Int, nr \in Int, nl \in Int :
         y = Ratio(ny, d) /\ c = Ratio(nc, d) /\ r = Ratio(nr, d) /\ l = Ratio(nl, d)
  BY <1>4 DEF In
<1>6. PICK ng \in Int, nk \in Int, no \in Int, nm \in Int :
         g = Ratio(ng, d) /\ k = Ratio(nk, d) /\ o = Ratio(no, d) /\ m = Ratio(nm, d)
  BY <1>4 DEF In
<1> DEFINE yc == ny + nc
           rl == nr + nl
           mk == nm + nk
           lo == nl + no
           gk == ng + nk
           yg == ny + ng
           co == nc + no
           ri == nr + gk
<1>7. yc \in Int /\ rl \in Int /\ mk \in Int /\ lo \in Int /\ gk \in Int /\ yg \in Int /\ co \in Int /\ ri \in Int
  OBVIOUS
<1>8. /\ Add(y, c) = Ratio(yc, d) /\ Add(r, l) = Ratio(rl, d) /\ Add(m, k) = Ratio(mk, d)
      /\ Add(l, o) = Ratio(lo, d) /\ i = Ratio(gk, d)
      /\ Add(y, g) = Ratio(yg, d) /\ Add(c, o) = Ratio(co, d)
  <2>1. \A u, v \in Int : Add(Ratio(u, d), Ratio(v, d)) = Ratio(u + v, d)
    BY RatioAdd
  <2>2. Add(y, c) = Ratio(yc, d) /\ Add(r, l) = Ratio(rl, d)
    BY <1>5, <2>1
  <2>3. Add(m, k) = Ratio(mk, d) /\ Add(l, o) = Ratio(lo, d)
    BY <1>5, <1>6, <2>1
  <2>4. i = Ratio(gk, d)
    BY <1>0, <1>6, <2>1
  <2>5. Add(y, g) = Ratio(yg, d) /\ Add(c, o) = Ratio(co, d)
    BY <1>5, <1>6, <2>1
  <2>6. QED  BY <2>2, <2>3, <2>4, <2>5
<1>9. yc = rl /\ mk = lo
  <2> HIDE DEF yc, rl, mk, lo
  <2>1. Ratio(yc, d) = Ratio(rl, d) /\ Ratio(mk, d) = Ratio(lo, d)
    BY <1>0, <1>8
  <2>2. QED  BY <1>7, <2>1, RatioEqual
<1>10. Add(r, i) = Ratio(ri, d)
  <2> HIDE DEF gk
  <2>1. QED  BY <1>5, <1>7, <1>8, RatioAdd
<1>11. Add(Add(y, g), Add(c, o)) = Ratio(yg + co, d) /\ Add(Add(r, i), m) = Ratio(ri + nm, d)
  <2> HIDE DEF yg, co, ri
  <2>1. Add(Ratio(yg, d), Ratio(co, d)) = Ratio(yg + co, d)
    BY <1>7, RatioAdd
  <2>2. Add(Ratio(ri, d), Ratio(nm, d)) = Ratio(ri + nm, d)
    BY <1>7, RatioAdd
  <2>3. QED  BY <1>6, <1>8, <1>10, <2>1, <2>2
<1>12. yg + co = ri + nm
  <2>1. ny + nc = nr + nl /\ nm + nk = nl + no
    BY <1>9
  <2>2. yg + co = (ny + nc) + (ng + no) /\ ri + nm = (nr + ng) + (nm + nk)
    OBVIOUS
  <2>3. QED  BY <2>1, <2>2
<1> HIDE DEF yg, co, ri
<1>13. QED  BY <1>11, <1>12

LEMMA BalanceIs ==
    ASSUME NEW y \in Reduced, NEW c \in Reduced, NEW r \in Reduced, NEW l \in Reduced,
           Add(y, c) = Add(r, l)
    PROVE  y = Sub(r, Sub(c, l))
<1>1. PICK d \in Nat \ {0} : In(y, d) /\ In(c, d) /\ In(r, d) /\ In(l, d)
  BY ShareDenominator
<1>2. PICK ny \in Int, nc \in Int, nr \in Int, nl \in Int :
         y = Ratio(ny, d) /\ c = Ratio(nc, d) /\ r = Ratio(nr, d) /\ l = Ratio(nl, d)
  BY <1>1 DEF In
<1> DEFINE yc == ny + nc
           rl == nr + nl
           cl == nc - nl
           z == nr - cl
<1>3. yc \in Int /\ rl \in Int /\ cl \in Int /\ z \in Int
  OBVIOUS
<1>4. Add(y, c) = Ratio(yc, d) /\ Add(r, l) = Ratio(rl, d) /\ Sub(c, l) = Ratio(cl, d)
  <2>1. \A u, v \in Int : /\ Add(Ratio(u, d), Ratio(v, d)) = Ratio(u + v, d)
                          /\ Sub(Ratio(u, d), Ratio(v, d)) = Ratio(u - v, d)
    BY RatioAdd, RatioSub
  <2>2. QED  BY <1>2, <2>1
<1>5. yc = rl
  <2> HIDE DEF yc, rl, cl, z
  <2>1. Ratio(yc, d) = Ratio(rl, d)
    BY <1>4
  <2>2. QED  BY <1>3, <2>1, RatioEqual
<1>6. Sub(r, Sub(c, l)) = Ratio(z, d)
  <2> HIDE DEF cl
  <2>1. QED  BY <1>2, <1>3, <1>4, RatioSub
<1>7. z = ny
  BY <1>5
<1>8. QED  BY <1>2, <1>6, <1>7

----------------------------------------------------------------------------
(* The accounts. *)

Years == Range(FinancialYear)

LEMMA YearsFinite ==
    /\ IsFiniteSet(Years)
    /\ \A b \in Bar : FinancialYear[b] \in Years
<1> DEFINE G == {T \in SUBSET Bar : IsFiniteSet({FinancialYear[b] : b \in T})}
<1>1. IsFiniteSet(Bar)
  BY BarNumbers, FS_Interval DEF Bar
<1>2. {} \in G
  <2>1. {FinancialYear[b] : b \in {}} = {}
    OBVIOUS
  <2>2. QED  BY <2>1, FS_EmptySet
<1>3. ASSUME NEW T \in SUBSET Bar, NEW x \in Bar \ T, T \in G
      PROVE  T \union {x} \in G
  <2> DEFINE U == {FinancialYear[b] : b \in T}
  <2>1. {FinancialYear[b] : b \in T \union {x}} = U \union {FinancialYear[x]}
    OBVIOUS
  <2>2. IsFiniteSet(U)
    BY <1>3
  <2> HIDE DEF U
  <2>3. IsFiniteSet(U \union {FinancialYear[x]})
    BY <2>2, FS_AddElement
  <2>4. QED  BY <2>1, <2>3
<1> HIDE DEF G
<1>4. Bar \in G
  BY <1>1, <1>2, <1>3, FromEmpty
<1>5. DOMAIN FinancialYear = Bar
  BY BacktestAssumption
<1>6. Years = {FinancialYear[b] : b \in Bar}
  BY <1>5 DEF Years, Range
<1>7. QED  BY <1>4, <1>6 DEF G

ByYear(gains) == [y \in Years |-> Add(gains[y].stcg, gains[y].ltcg)]

SpentOn(n) == [s \in Symbol |-> Spent(n, s)]

Stocks(queues) == [s \in Symbol |-> Stock(queues[s])]

Yearly(gains) ==
    /\ gains = [y \in Years |-> [stcg |-> gains[y].stcg, ltcg |-> gains[y].ltcg]]
    /\ \A y \in Years : gains[y].stcg \in Reduced /\ gains[y].ltcg \in Reduced

Typed(gains, income) ==
    /\ Yearly(gains)
    /\ income = [s \in Symbol |-> income[s]] /\ Values(income, Symbol)

(* What was gained and what was spent is what was received and what is left. *)
Balanced(queues, n, gains, income) ==
    Add(SumOn(ByYear(gains), Years), SumOn(SpentOn(n), Symbol)) =
        Add(SumOn(income, Symbol), SumOn(Stocks(queues), Symbol))

Accounts(queues, n, gains, income) ==
    /\ queues = [s \in Symbol |-> queues[s]]
    /\ \A s \in Symbol : Ledger(queues[s], n, s)
    /\ Typed(gains, income)
    /\ Balanced(queues, n, gains, income)

LEMMA ByYearType ==
    ASSUME NEW gains, NEW income, Typed(gains, income)
    PROVE  Values(ByYear(gains), Years) /\ SumOn(ByYear(gains), Years) \in Reduced
<1>1. ASSUME NEW y \in Years PROVE ByYear(gains)[y] \in Reduced
  <2> DEFINE a == gains[y].stcg
             b == gains[y].ltcg
  <2>1. a \in Reduced /\ b \in Reduced /\ ByYear(gains)[y] = Add(a, b)
    BY DEF Typed, Yearly, ByYear
  <2> HIDE DEF a, b
  <2>2. QED  BY <2>1, AddType
<1>2. Values(ByYear(gains), Years)
  BY <1>1 DEF Values
<1>3. QED  BY <1>2, YearsFinite, SumValue

(* One year's gains grow by what a row gains. *)
YearAdded(gains, year, u, v) ==
    [y \in Years |-> IF y = year
                     THEN [stcg |-> Add(gains[year].stcg, u), ltcg |-> Add(gains[year].ltcg, v)]
                     ELSE gains[y]]

LEMMA YearChanged ==
    ASSUME NEW gains, NEW income, Typed(gains, income), NEW year \in Years, NEW u, NEW v,
           NEW more, more = [gains EXCEPT ![year].stcg = Add(@, u), ![year].ltcg = Add(@, v)]
    PROVE  more = YearAdded(gains, year, u, v)
<1> DEFINE a == gains[year].stcg
           b == gains[year].ltcg
           au == Add(a, u)
           bv == Add(b, v)
           one == [gains EXCEPT ![year] = [gains[year] EXCEPT !.stcg = Add(gains[year].stcg, u)]]
           two == [one EXCEPT ![year] = [one[year] EXCEPT !.ltcg = Add(one[year].ltcg, v)]]
<1>1. gains[year] = [stcg |-> a, ltcg |-> b] /\ gains = [y \in Years |-> gains[y]]
  BY DEF Typed, Yearly
<1>2. more = two
  OBVIOUS
<1>3. one = [y \in Years |-> IF y = year THEN [stcg |-> au, ltcg |-> b] ELSE gains[y]]
  BY <1>1
<1> HIDE DEF one
<1>4. one[year] = [stcg |-> au, ltcg |-> b] /\ DOMAIN one = Years
  BY <1>3
<1>5. [one[year] EXCEPT !.ltcg = Add(one[year].ltcg, v)] = [stcg |-> au, ltcg |-> bv]
  BY <1>4
<1>6. two = [one EXCEPT ![year] = [stcg |-> au, ltcg |-> bv]]
  BY <1>5
<1>7. two = [y \in Years |-> IF y = year THEN [stcg |-> au, ltcg |-> bv] ELSE one[y]]
  BY <1>4, <1>6
<1>8. QED  BY <1>2, <1>3, <1>7 DEF YearAdded

LEMMA YearGrows ==
    ASSUME NEW gains, NEW income, Typed(gains, income), NEW year \in Years,
           NEW u \in Reduced, NEW v \in Reduced,
           NEW more, more = YearAdded(gains, year, u, v)
    PROVE  /\ Yearly(more)
           /\ SumOn(ByYear(more), Years) = Add(SumOn(ByYear(gains), Years), Add(u, v))
<1> DEFINE a == gains[year].stcg
           b == gains[year].ltcg
           au == Add(a, u)
           bv == Add(b, v)
           uv == Add(u, v)
           old == ByYear(gains)
           new == ByYear(more)
           delta == [y \in Years |-> IF y = year THEN uv ELSE Zero]
<1>1. a \in Reduced /\ b \in Reduced
  BY DEF Typed, Yearly
<1>2. au \in Reduced /\ bv \in Reduced /\ uv \in Reduced
  <2> HIDE DEF a, b
  <2>1. QED  BY <1>1, AddType
<1>3. \A y \in Years : gains[y] = [stcg |-> gains[y].stcg, ltcg |-> gains[y].ltcg]
  BY DEF Typed, Yearly
<1>4. more = [y \in Years |-> more[y]] /\ \A y \in Years : y # year => more[y] = gains[y]
  BY DEF YearAdded
<1>5. more[year] = [stcg |-> au, ltcg |-> bv]
  BY DEF YearAdded
<1>6. more[year].stcg = au /\ more[year].ltcg = bv
  BY <1>5
<1> HIDE DEF au, bv, uv, a, b
<1>7. \A y \in Years : /\ more[y] = [stcg |-> more[y].stcg, ltcg |-> more[y].ltcg]
                       /\ more[y].stcg \in Reduced /\ more[y].ltcg \in Reduced
  <2>1. SUFFICES ASSUME NEW y \in Years
                 PROVE  /\ more[y] = [stcg |-> more[y].stcg, ltcg |-> more[y].ltcg]
                        /\ more[y].stcg \in Reduced /\ more[y].ltcg \in Reduced
    OBVIOUS
  <2>2. CASE y = year
    BY <1>2, <1>5, <1>6, <2>2
  <2>3. CASE y # year
    BY <1>3, <1>4, <2>3 DEF Typed, Yearly
  <2>4. QED  BY <2>2, <2>3
<1>8. more = [y \in Years |-> [stcg |-> more[y].stcg, ltcg |-> more[y].ltcg]]
  BY <1>4, <1>7
<1>9. ASSUME NEW y \in Years PROVE new[y] = Add(old[y], delta[y])
  <2>1. new[y] = Add(more[y].stcg, more[y].ltcg) /\ old[y] = Add(gains[y].stcg, gains[y].ltcg)
    BY DEF ByYear
  <2>2. CASE y = year
    <3>1. Add(au, bv) = Add(Add(a, b), uv)
      BY <1>1, AddPairs DEF au, bv, uv
    <3>2. new[y] = Add(au, bv) /\ old[y] = Add(a, b) /\ delta[y] = uv
      BY <1>6, <2>1, <2>2 DEF a, b
    <3>3. QED  BY <3>1, <3>2
  <2>3. CASE y # year
    <3>1. new[y] = old[y] /\ delta[y] = Zero
      BY <1>4, <2>1, <2>3
    <3>2. old[y] \in Reduced
      BY ByYearType DEF Values
    <3>3. QED  BY <3>1, <3>2, AddZero
  <2>4. QED  BY <2>2, <2>3
<1>10. Values(old, Years) /\ IsFiniteSet(Years)
  BY ByYearType, YearsFinite
<1>11. Values(delta, Years) /\ delta[year] = uv /\ delta[year] \in Reduced
       /\ \A y \in Years \ {year} : delta[y] = Zero
  BY <1>2, ZeroReduced DEF Values
<1> HIDE DEF old, new, delta
<1>12. SumOn(new, Years) = Add(SumOn(old, Years), SumOn(delta, Years))
  BY <1>9, <1>10, <1>11, SumOfSums
<1>13. SumOn(delta, Years) = uv
  BY <1>10, <1>11, SumOfOne
<1>14. QED  BY <1>7, <1>8, <1>12, <1>13 DEF uv, old, new, Yearly
----------------------------------------------------------------------------
GainsOf(queues, m, short) == [s \in Symbol |-> Gained(queues[s], m, s, short)]

Incomes(queues, m) == [s \in Symbol |-> Income(queues[s], m, s)]

NewQueues(queues, m) == [s \in Symbol |-> NewLots(queues[s], m, s)]

NewIncome(queues, m, income) == [s \in Symbol |-> Add(income[s], Income(queues[s], m, s))]

NewGains(queues, m, gains, year) ==
    YearAdded(gains, year, SumOn(GainsOf(queues, m, TRUE), Symbol),
                           SumOn(GainsOf(queues, m, FALSE), Symbol))

(* The sums over the symbols of what a row does to each. *)
LEMMA RowSums ==
    ASSUME NEW n \in Nat, Readable(n + 1), NEW queues, \A s \in Symbol : Ledger(queues[s], n, s)
    PROVE  LET m == n + 1
               gt == SumOn(GainsOf(queues, m, TRUE), Symbol)
               gf == SumOn(GainsOf(queues, m, FALSE), Symbol)
               o  == SumOn([s \in Symbol |-> Outlay(m, s)], Symbol)
               k  == SumOn([s \in Symbol |-> Removed(queues[s], m, s)], Symbol)
           IN  /\ gt \in Reduced /\ gf \in Reduced /\ o \in Reduced /\ k \in Reduced
               /\ SumOn(SpentOn(n), Symbol) \in Reduced /\ SumOn(Stocks(queues), Symbol) \in Reduced
               /\ SumOn(Stocks(NewQueues(queues, m)), Symbol) \in Reduced
               /\ SumOn(Incomes(queues, m), Symbol) \in Reduced /\ Values(Incomes(queues, m), Symbol)
               /\ Values(GainsOf(queues, m, TRUE), Symbol) /\ Values(GainsOf(queues, m, FALSE), Symbol)
               /\ SumOn(SpentOn(m), Symbol) = Add(SumOn(SpentOn(n), Symbol), o)
               /\ Add(SumOn(Stocks(NewQueues(queues, m)), Symbol), k) = Add(SumOn(Stocks(queues), Symbol), o)
               /\ Add(Add(gt, gf), k) = SumOn(Incomes(queues, m), Symbol)
<1> DEFINE m == n + 1
           T == GainsOf(queues, m, TRUE)
           F == GainsOf(queues, m, FALSE)
           O == [s \in Symbol |-> Outlay(m, s)]
           K == [s \in Symbol |-> Removed(queues[s], m, s)]
           I == Incomes(queues, m)
           C == SpentOn(n)
           D == SpentOn(m)
           L == Stocks(queues)
           N == Stocks(NewQueues(queues, m))
           TF == [s \in Symbol |-> Add(T[s], F[s])]
           NK == [s \in Symbol |-> Add(N[s], K[s])]
<1>1. IsFiniteSet(Symbol)
  BY BacktestAssumption
<1>2. ASSUME NEW s \in Symbol
      PROVE  /\ T[s] \in Reduced /\ F[s] \in Reduced /\ O[s] \in Reduced /\ K[s] \in Reduced
             /\ I[s] \in Reduced /\ C[s] \in Reduced /\ L[s] \in Reduced /\ N[s] \in Reduced
             /\ D[s] = Add(C[s], O[s])
             /\ NK[s] = Add(L[s], O[s])
             /\ I[s] = Add(TF[s], K[s])
  <2> DEFINE q == queues[s]
  <2>1. Ledger(q, n, s)
    OBVIOUS
  <2>2. /\ T[s] = Gained(q, m, s, TRUE) /\ F[s] = Gained(q, m, s, FALSE) /\ O[s] = Outlay(m, s)
        /\ K[s] = Removed(q, m, s) /\ I[s] = Income(q, m, s) /\ C[s] = Spent(n, s)
        /\ D[s] = Spent(m, s) /\ L[s] = Stock(q) /\ N[s] = Stock(NewLots(q, m, s))
    BY DEF GainsOf, Incomes, SpentOn, Stocks, NewQueues
  <2>3. NK[s] = Add(N[s], K[s]) /\ TF[s] = Add(T[s], F[s])
    OBVIOUS
  <2> HIDE DEF q, T, F, O, K, I, C, D, L, N, TF, NK
  <2>4. /\ RowTypes(q, m, s) /\ Spent(n, s) \in Reduced
        /\ Spent(m, s) = Add(Spent(n, s), Outlay(m, s))
        /\ Add(Stock(NewLots(q, m, s)), Removed(q, m, s)) = Add(Stock(q), Outlay(m, s))
        /\ Add(Add(Gained(q, m, s, TRUE), Gained(q, m, s, FALSE)), Removed(q, m, s)) = Income(q, m, s)
    BY <2>1, RowKeeps
  <2>5. QED  BY <2>2, <2>3, <2>4 DEF RowTypes
<1>3. /\ \A s \in Symbol : TF[s] = Add(T[s], F[s])
      /\ \A s \in Symbol : NK[s] = Add(N[s], K[s])
  OBVIOUS
<1> HIDE DEF T, F, O, K, I, C, D, L, N, TF, NK
<1>4. /\ Values(T, Symbol) /\ Values(F, Symbol) /\ Values(O, Symbol) /\ Values(K, Symbol)
      /\ Values(I, Symbol) /\ Values(C, Symbol) /\ Values(L, Symbol) /\ Values(N, Symbol)
  BY <1>2 DEF Values
<1>5. Values(TF, Symbol)
  BY <1>2, <1>3, AddType DEF Values
<1>6. /\ SumOn(T, Symbol) \in Reduced /\ SumOn(F, Symbol) \in Reduced /\ SumOn(O, Symbol) \in Reduced
      /\ SumOn(K, Symbol) \in Reduced /\ SumOn(I, Symbol) \in Reduced /\ SumOn(C, Symbol) \in Reduced
      /\ SumOn(L, Symbol) \in Reduced /\ SumOn(N, Symbol) \in Reduced
  BY <1>1, <1>4, SumValue
<1>7. SumOn(D, Symbol) = Add(SumOn(C, Symbol), SumOn(O, Symbol))
  BY <1>1, <1>2, <1>4, SumOfSums
<1>8. SumOn(NK, Symbol) = Add(SumOn(N, Symbol), SumOn(K, Symbol))
  BY <1>1, <1>3, <1>4, SumOfSums
<1>9. SumOn(NK, Symbol) = Add(SumOn(L, Symbol), SumOn(O, Symbol))
  BY <1>1, <1>2, <1>4, SumOfSums
<1>10. SumOn(TF, Symbol) = Add(SumOn(T, Symbol), SumOn(F, Symbol))
  BY <1>1, <1>3, <1>4, SumOfSums
<1>11. SumOn(I, Symbol) = Add(SumOn(TF, Symbol), SumOn(K, Symbol))
  BY <1>1, <1>2, <1>4, <1>5, SumOfSums
<1>12. QED
  BY <1>4, <1>6, <1>7, <1>8, <1>9, <1>10, <1>11 DEF T, F, O, K, I, C, D, L, N

LEMMA RowAccounts ==
    ASSUME NEW n \in Nat, Readable(n + 1), NEW queues, NEW gains, NEW income,
           Accounts(queues, n, gains, income), NEW year \in Years
    PROVE  Accounts(NewQueues(queues, n + 1), n + 1,
                    NewGains(queues, n + 1, gains, year), NewIncome(queues, n + 1, income))
<1> DEFINE m == n + 1
           u == SumOn(GainsOf(queues, m, TRUE), Symbol)
           v == SumOn(GainsOf(queues, m, FALSE), Symbol)
           o == SumOn([s \in Symbol |-> Outlay(m, s)], Symbol)
           k == SumOn([s \in Symbol |-> Removed(queues[s], m, s)], Symbol)
           i == SumOn(Incomes(queues, m), Symbol)
           c == SumOn(SpentOn(n), Symbol)
           l == SumOn(Stocks(queues), Symbol)
           j == SumOn(Stocks(NewQueues(queues, m)), Symbol)
           r == SumOn(income, Symbol)
           y == SumOn(ByYear(gains), Years)
           newGains == NewGains(queues, m, gains, year)
           newIncome == NewIncome(queues, m, income)
           newQueues == NewQueues(queues, m)
<1>1. /\ \A s \in Symbol : Ledger(queues[s], n, s)
      /\ Typed(gains, income) /\ Add(y, c) = Add(r, l)
  BY DEF Accounts, Balanced
<1>2. /\ u \in Reduced /\ v \in Reduced /\ o \in Reduced /\ k \in Reduced
      /\ c \in Reduced /\ l \in Reduced /\ j \in Reduced /\ i \in Reduced
      /\ Values(Incomes(queues, m), Symbol)
      /\ SumOn(SpentOn(m), Symbol) = Add(c, o)
      /\ Add(j, k) = Add(l, o)
      /\ Add(Add(u, v), k) = i
  BY <1>1, RowSums
<1>3. newQueues = [s \in Symbol |-> newQueues[s]]
  BY DEF NewQueues
<1>4. ASSUME NEW s \in Symbol PROVE Ledger(newQueues[s], m, s)
  <2>1. Ledger(queues[s], n, s)
    BY <1>1
  <2>2. Ledger(NewLots(queues[s], m, s), m, s)
    BY <2>1, RowKeeps
  <2>3. QED  BY <2>2 DEF NewQueues
<1>5. /\ Yearly(newGains)
      /\ SumOn(ByYear(newGains), Years) = Add(y, Add(u, v))
  <2>1. newGains = YearAdded(gains, year, u, v)
    BY DEF NewGains
  <2>2. Typed(gains, income) /\ u \in Reduced /\ v \in Reduced
    BY <1>1, <1>2
  <2> HIDE DEF u, v, newGains
  <2>3. QED  BY <2>1, <2>2, YearGrows
<1>6. /\ newIncome = [s \in Symbol |-> newIncome[s]] /\ Values(newIncome, Symbol)
      /\ SumOn(newIncome, Symbol) = Add(r, i) /\ r \in Reduced
  <2> DEFINE inc == Incomes(queues, m)
  <2>1. newIncome = [s \in Symbol |-> newIncome[s]] /\ \A s \in Symbol : newIncome[s] = Add(income[s], inc[s])
    BY DEF NewIncome, Incomes
  <2>2. Values(income, Symbol) /\ Values(inc, Symbol) /\ IsFiniteSet(Symbol)
    BY <1>1, <1>2, BacktestAssumption DEF Typed
  <2> HIDE DEF inc, newIncome
  <2>3. SumOn(newIncome, Symbol) = Add(SumOn(income, Symbol), SumOn(inc, Symbol))
    BY <2>1, <2>2, SumOfSums
  <2>4. Values(newIncome, Symbol)
    BY <2>1, <2>2, AddType DEF Values
  <2>5. r \in Reduced
    BY <2>2, SumValue
  <2>6. QED  BY <2>1, <2>3, <2>4, <2>5 DEF inc
<1>7. Typed(newGains, newIncome)
  <2> HIDE DEF newGains, newIncome
  <2>1. QED  BY <1>5, <1>6 DEF Typed
<1>8. y \in Reduced
  BY <1>1, ByYearType
<1> DEFINE g == Add(u, v)
<1>9. g \in Reduced
  <2> HIDE DEF u, v
  <2>1. QED  BY <1>2, AddType
<1>10. Add(Add(y, g), Add(c, o)) = Add(Add(r, i), j)
  <2>1. Moves(y, c, r, l, g, k, o, i, j)
    BY <1>1, <1>2, <1>6, <1>8, <1>9 DEF Moves
  <2> HIDE DEF y, g, c, o, r, i, j, k, l
  <2>2. QED  BY <2>1, BalanceMoves
<1>11. Balanced(newQueues, m, newGains, newIncome)
  <2> HIDE DEF newGains, newIncome, newQueues
  <2>1. SumOn(Stocks(newQueues), Symbol) = j
    BY DEF newQueues
  <2>2. QED  BY <1>2, <1>5, <1>6, <1>10, <2>1 DEF Balanced
<1>12. Accounts(newQueues, m, newGains, newIncome)
  <2> HIDE DEF newGains, newIncome, newQueues
  <2>1. QED  BY <1>3, <1>4, <1>7, <1>11 DEF Accounts
<1>13. QED  BY <1>12
----------------------------------------------------------------------------
(* The rows estimate_taxes reads are those the engine wrote. *)
LEMMA ReadableRows ==
    ASSUME EngineInv, TablesTyped, NEW n \in Nat, n <= Len(result[1].net)
    PROVE  Readable(n)
<1> DEFINE r == result[1]
<1>1. 1 \in Call /\ Follows(1, r)
  BY DEF Call, EngineInv
<1>2. Len(r.net) \in Nat /\ \A i \in 1..n : i \in 1..Len(r.net)
  BY <1>1 DEF Follows, IsSeq
<1>3. \A i \in 1..n : Computed(r, i) /\ i \in DOMAIN Common(1)
  BY <1>1, <1>2, AllComputed
<1>4. ASSUME n # 0 PROVE r.bars = Common(1)
  <2>1. Len(r.net) # 0
    BY <1>2, <1>4
  <2>2. QED  BY <1>1, <2>1 DEF Follows
<1>5. ASSUME NEW i \in 1..n
      PROVE  /\ r.bars[i] \in Bar
             /\ \A s \in Symbol : Trade(i, s) \in Reduced /\ PriceAt(i, s) \in Quote \union {None}
  <2>1. r.bars = Common(1)
    BY <1>4
  <2>2. r.bars[i] \in Both(1)
    BY <1>1, <1>3, <2>1, BarsInOrder
  <2> DEFINE b == r.bars[i]
  <2>3. b \in Bar /\ \A s \in Symbol : Prices(1, b)[s] \in Quote \union {None}
    <3>1. b \in Both(1)
      BY <2>2
    <3> HIDE DEF b
    <3>2. QED  BY <1>1, <3>1, EntryTypes DEF Both
  <2>4. Prices(1, b) = prices[b]
    BY DEF Prices
  <2>5. \A s \in Symbol : Trade(i, s) \in Reduced
    BY <1>3 DEF Computed, Values, Trade
  <2>6. QED  BY <2>3, <2>4, <2>5 DEF PriceAt
<1>6. ASSUME NEW i \in 1..n, NEW k \in 1..n, i < k PROVE r.bars[i] < r.bars[k]
  BY <1>1, <1>3, <1>4, <1>6, BarsInOrder
<1>7. QED  BY <1>5, <1>6 DEF Readable

Fresh ==
    /\ row = 0 /\ lots = [s \in Symbol |-> <<>>]
    /\ realised = [y \in Range(FinancialYear) |-> [stcg |-> Zero, ltcg |-> Zero]]
    /\ received = [s \in Symbol |-> Zero]

TaxInv ==
    \/ Fresh
    \/ call = 3 /\ row \in Nat /\ row <= Len(result[1].net) /\ Accounts(lots, row, realised, received)

LEMMA FreshAccounts == ASSUME Fresh PROVE Accounts(lots, row, realised, received)
<1> DEFINE spent == SpentOn(0)
           stocks == Stocks(lots)
           years == ByYear(realised)
<1>1. /\ row = 0 /\ lots = [s \in Symbol |-> <<>>]
      /\ realised = [y \in Years |-> [stcg |-> Zero, ltcg |-> Zero]]
      /\ received = [s \in Symbol |-> Zero]
  BY DEF Fresh, Years
<1>2. Zero \in Reduced /\ Add(Zero, Zero) = Zero /\ IsFiniteSet(Symbol) /\ IsFiniteSet(Years)
  BY ZeroReduced, AddZero, BacktestAssumption, YearsFinite
<1>3. \A s \in Symbol : Purchases(0, s) = {}
  BY DEF Purchases
<1>4. ASSUME NEW s \in Symbol PROVE Ledger(lots[s], 0, s) /\ spent[s] = Zero /\ stocks[s] = Zero
  <2>1. lots[s] = <<>>
    BY <1>1
  <2>2. <<>> \in Seq(Lot) /\ Len(<<>>) = 0 /\ DOMAIN <<>> = {}
    OBVIOUS
  <2>3. Ledger(<<>>, 0, s)
    BY <2>2 DEF Ledger, Opened, Ordered, Bought, Complete
  <2>4. spent[s] = Zero
    BY <1>3, SumNone DEF SpentOn, Spent
  <2>5. stocks[s] = Zero
    BY <2>1, <2>2, SumNone DEF Stocks, Stock
  <2>6. QED  BY <2>1, <2>3, <2>4, <2>5
<1>5. \A y \in Years : years[y] = Zero
  BY <1>1, <1>2 DEF ByYear
<1>6. Typed(realised, received)
  <2>1. Yearly(realised)
    BY <1>1, <1>2 DEF Yearly
  <2>2. QED  BY <1>1, <1>2, <2>1 DEF Typed, Values
<1>7. \A s \in Symbol : received[s] = Zero
  BY <1>1
<1> HIDE DEF spent, stocks, years
<1>8. /\ SumOn(spent, Symbol) = Zero /\ SumOn(stocks, Symbol) = Zero
      /\ SumOn(years, Years) = Zero /\ SumOn(received, Symbol) = Zero
  BY <1>2, <1>4, <1>5, <1>7, SumOfZeros
<1>9. Balanced(lots, 0, realised, received)
  BY <1>8 DEF Balanced, spent, stocks, years
<1>10. lots = [s \in Symbol |-> lots[s]]
  BY <1>1
<1>11. QED  BY <1>1, <1>4, <1>6, <1>9, <1>10 DEF Accounts

(* What a step does not change of them. *)
LEMMA AccountsStay ==
    ASSUME UNCHANGED <<result, prices>>, NEW queues, NEW n, NEW gains, NEW income,
           Accounts(queues, n, gains, income)
    PROVE  Accounts(queues, n, gains, income)'
<1>1. \A i, s : Trade(i, s)' = Trade(i, s) /\ PriceAt(i, s)' = PriceAt(i, s)
  BY DEF Trade, PriceAt
<1>2. \A s : Purchases(n, s)' = Purchases(n, s)
  BY <1>1 DEF Purchases
<1>3. \A i, s : Units(i, s)' = Units(i, s)
  BY <1>1 DEF Units
<1>4. \A s : Trades(n, s)' = Trades(n, s)
  BY <1>1, <1>2 DEF Trades
<1>5. \A s : Spent(n, s)' = Spent(n, s)
  BY <1>2, <1>4 DEF Spent
<1>6. SpentOn(n)' = SpentOn(n)
  BY <1>5 DEF SpentOn
<1>7. Balanced(queues, n, gains, income)'
  BY <1>6 DEF Balanced, Accounts
<1>8. ASSUME NEW s \in Symbol PROVE Ledger(queues[s], n, s)'
  <2>1. PICK q : q = queues[s]
    OBVIOUS
  <2>2. Ledger(q, n, s)
    BY <2>1 DEF Accounts
  <2>3. Bought(q, n, s)' /\ Complete(q, n, s)'
    BY <1>2, <1>3, <2>2 DEF Ledger, Bought, Complete
  <2>4. Ledger(q, n, s)'
    BY <2>2, <2>3 DEF Ledger
  <2>5. QED  BY <2>1, <2>4
<1>9. QED  BY <1>7, <1>8 DEF Accounts

(* A row does to each symbol what was said of it. *)
LEMMA TaxRowIs ==
    ASSUME EngineInv, TablesTyped, TaxRow, row \in Nat, Accounts(lots, row, realised, received)
    PROVE  LET m == row + 1
               year == FinancialYear[result[1].bars[m]]
           IN  /\ Readable(m) /\ year \in Years
               /\ lots' = NewQueues(lots, m)
               /\ realised' = NewGains(lots, m, realised, year)
               /\ received' = NewIncome(lots, m, received)
<1> DEFINE m == row + 1
           b == result[1].bars[m]
           year == FinancialYear[b]
           trade == result[1].trades[m]
           traded == {s \in Symbol : trade[s].num # 0 /\ prices[b][s] # None}
           bought == {s \in traded : Positive(trade[s])}
           sold == traded \ bought
           qty == [s \in traded |-> Mul(IF s \in bought THEN trade[s] ELSE Neg(trade[s]),
                                        Ratio(1, prices[b][s]))]
           gain(short) == FoldFunctionOnSet(Add, Zero,
                              [s \in sold |-> Gain(lots[s], qty[s], prices[b][s], b, short)], sold)
           u == SumOn(GainsOf(lots, m, TRUE), Symbol)
           v == SumOn(GainsOf(lots, m, FALSE), Symbol)
<1>1. /\ row < Len(result[1].net)
      /\ lots' = [s \in Symbol |->
            IF s \in bought
            THEN Append(lots[s], [qty |-> qty[s], cost |-> prices[b][s], acquired |-> b])
            ELSE IF s \in sold THEN Sold(lots[s], qty[s]) ELSE lots[s]]
      /\ realised' = [realised EXCEPT ![year].stcg = Add(@, gain(TRUE)),
                                      ![year].ltcg = Add(@, gain(FALSE))]
      /\ received' = [s \in Symbol |->
            IF s \in sold
            THEN Add(received[s], Mul(Lesser(Quantities(lots[s]), qty[s]), Whole(prices[b][s])))
            ELSE received[s]]
  BY DEF TaxRow
<1>2. m \in Nat /\ m \in 1..m /\ m <= Len(result[1].net)
  <2>1. Len(result[1].net) \in Nat
    BY DEF EngineInv, Call, Follows, IsSeq
  <2>2. row < Len(result[1].net)
    BY <1>1
  <2>3. QED  BY <2>1, <2>2
<1>3. Readable(m)
  BY <1>2, ReadableRows
<1>4. b \in Bar /\ year \in Years
  BY <1>2, <1>3, YearsFinite DEF Readable
<1>5. \A s \in Symbol : trade[s] = Trade(m, s) /\ prices[b][s] = PriceAt(m, s)
  BY DEF Trade, PriceAt
<1>6. ASSUME NEW s \in Symbol
      PROVE  /\ s \in bought <=> Buying(m, s)
             /\ s \in sold <=> Selling(m, s)
             /\ s \in bought => qty[s] = Units(m, s)
             /\ s \in sold => qty[s] = Offered(m, s)
  <2>1. trade[s] = Trade(m, s) /\ prices[b][s] = PriceAt(m, s)
    BY <1>5
  <2>2. Positive(Trade(m, s)) => Trade(m, s).num # 0
    BY DEF Positive
  <2>3. s \in bought <=> Buying(m, s)
    BY <2>1, <2>2 DEF Buying
  <2>4. s \in sold <=> Selling(m, s)
    BY <2>1 DEF Selling
  <2>5. s \in bought => qty[s] = Mul(trade[s], Ratio(1, prices[b][s]))
    OBVIOUS
  <2>6. s \in sold => qty[s] = Mul(Neg(trade[s]), Ratio(1, prices[b][s]))
    OBVIOUS
  <2>7. QED  BY <2>1, <2>3, <2>4, <2>5, <2>6 DEF Units, Offered
<1>12. sold \subseteq Symbol
  OBVIOUS
<1> HIDE DEF trade, traded, bought, sold, qty, b
<1>7. lots' = NewQueues(lots, m)
  <2> DEFINE new(s) == IF s \in bought
                       THEN Append(lots[s], [qty |-> qty[s], cost |-> prices[b][s], acquired |-> b])
                       ELSE IF s \in sold THEN Sold(lots[s], qty[s]) ELSE lots[s]
  <2>1. ASSUME NEW s \in Symbol PROVE new(s) = NewLots(lots[s], m, s)
    BY <1>5, <1>6 DEF NewLots, Selling, Buying, b
  <2>2. lots' = [s \in Symbol |-> new(s)]
    BY <1>1
  <2> HIDE DEF new
  <2>3. QED  BY <2>1, <2>2 DEF NewQueues
<1>8. received' = NewIncome(lots, m, received)
  <2> DEFINE new(s) == IF s \in sold
                       THEN Add(received[s], Mul(Lesser(Quantities(lots[s]), qty[s]), Whole(prices[b][s])))
                       ELSE received[s]
  <2>1. ASSUME NEW s \in Symbol PROVE new(s) = Add(received[s], Income(lots[s], m, s))
    <3>1. received[s] \in Reduced
      BY DEF Accounts, Typed, Values
    <3>2. Add(received[s], Zero) = received[s]
      BY <3>1, AddZero
    <3>3. QED  BY <1>5, <1>6, <3>2 DEF Income
  <2>2. received' = [s \in Symbol |-> new(s)]
    BY <1>1
  <2> HIDE DEF new
  <2>3. QED  BY <2>1, <2>2 DEF NewIncome
<1>9. ASSUME NEW short \in BOOLEAN PROVE gain(short) = SumOn(GainsOf(lots, m, short), Symbol)
  <2> DEFINE f == [s \in sold |-> Gain(lots[s], qty[s], prices[b][s], b, short)]
             h == GainsOf(lots, m, short)
             none == Symbol \ sold
  <2>1. gain(short) = SumOn(f, sold)
    BY DEF SumOn
  <2>2. Values(h, Symbol)
    <3>1. \A s \in Symbol : Ledger(lots[s], row, s)
      BY DEF Accounts
    <3>2. Values(GainsOf(lots, m, TRUE), Symbol) /\ Values(GainsOf(lots, m, FALSE), Symbol)
      BY <1>3, <3>1, RowSums
    <3>3. QED  BY <3>2
  <2>3. \A s \in sold : f[s] = h[s]
    <3>1. SUFFICES ASSUME NEW s \in sold PROVE f[s] = h[s]
      OBVIOUS
    <3>2. s \in Symbol /\ Selling(m, s)
      BY <1>6, <1>12
    <3>3. h[s] = Gain(lots[s], Offered(m, s), PriceAt(m, s), result[1].bars[m], short)
      BY <3>2 DEF GainsOf, Gained
    <3>4. f[s] = Gain(lots[s], qty[s], prices[b][s], b, short)
      OBVIOUS
    <3>5. qty[s] = Offered(m, s) /\ prices[b][s] = PriceAt(m, s) /\ b = result[1].bars[m]
      BY <1>5, <1>6, <3>2 DEF b
    <3>6. QED  BY <3>3, <3>4, <3>5
  <2>4. \A s \in none : h[s] = Zero
    BY <1>6 DEF GainsOf, Gained
  <2>5. /\ IsFiniteSet(Symbol) /\ IsFiniteSet(sold) /\ IsFiniteSet(none)
        /\ sold \union none = Symbol /\ sold \intersect none = {}
    BY <1>12, BacktestAssumption, FS_Subset
  <2>6. Values(h, sold)
    BY <1>12, <2>2 DEF Values
  <2> HIDE DEF f, h, none, gain
  <2>7. SumOn(f, sold) = SumOn(h, sold)
    BY <2>3, <2>5, <2>6, SumAgrees
  <2>8. SumOn(h, Symbol) = Add(SumOn(h, sold), SumOn(h, none))
    BY <2>2, <2>5, SumParts
  <2>9. SumOn(h, none) = Zero /\ SumOn(h, sold) \in Reduced
    BY <2>4, <2>5, <2>6, SumOfZeros, SumValue
  <2>10. QED  BY <2>1, <2>7, <2>8, <2>9, AddZero DEF h
<1>10. realised' = NewGains(lots, m, realised, year)
  <2>1. gain(TRUE) = u /\ gain(FALSE) = v
    BY <1>9
  <2> HIDE DEF gain, u, v, year
  <2>2. realised' = [realised EXCEPT ![year].stcg = Add(@, u), ![year].ltcg = Add(@, v)]
    BY <1>1, <2>1
  <2>3. Typed(realised, received)
    BY DEF Accounts
  <2>4. PICK more : more = realised'
    OBVIOUS
  <2>5. more = YearAdded(realised, year, u, v)
    BY <1>4, <2>2, <2>3, <2>4, YearChanged
  <2>6. QED  BY <2>4, <2>5 DEF NewGains, u, v
<1>11. QED  BY <1>3, <1>4, <1>7, <1>8, <1>10 DEF b
----------------------------------------------------------------------------
LEMMA TaxInvInit == Init => TaxInv
  BY DEF Init, TaxInv, Fresh

LEMMA TaxInvStep == ASSUME EngineInv, TablesTyped, TaxInv, [Next]_vars PROVE TaxInv'
<1>1. CASE Start \/ Iterate \/ Finish
  <2>1. call # 3 /\ UNCHANGED taxes
    BY <1>1 DEF Start, Iterate, Finish, Call
  <2>2. Fresh
    BY <2>1 DEF TaxInv
  <2>3. Fresh'
    BY <2>1, <2>2 DEF Fresh, taxes
  <2>4. QED  BY <2>3 DEF TaxInv
<1>2. CASE TaxRow
  <2>1. /\ call' = 3 /\ row' = row + 1 /\ row < Len(result[1].net)
        /\ UNCHANGED <<result, prices>>
    BY <1>2 DEF TaxRow, inputs
  <2>2. row \in Nat /\ Accounts(lots, row, realised, received)
    BY FreshAccounts DEF TaxInv, Fresh
  <2> DEFINE m == row + 1
             year == FinancialYear[result[1].bars[m]]
  <2>3. /\ Readable(m) /\ year \in Years
        /\ lots' = NewQueues(lots, m)
        /\ realised' = NewGains(lots, m, realised, year)
        /\ received' = NewIncome(lots, m, received)
    BY <1>2, <2>2, TaxRowIs
  <2>4. Accounts(NewQueues(lots, m), m, NewGains(lots, m, realised, year), NewIncome(lots, m, received))
    <3> HIDE DEF year
    <3>1. QED  BY <2>2, <2>3, RowAccounts
  <2>5. PICK queues, n, gains, income :
           queues = lots' /\ n = row' /\ gains = realised' /\ income = received'
    OBVIOUS
  <2>6. Accounts(queues, n, gains, income)
    BY <2>1, <2>3, <2>4, <2>5
  <2>7. Accounts(queues, n, gains, income)'
    BY <2>1, <2>6, AccountsStay
  <2>8. Accounts(lots, row, realised, received)'
    BY <2>5, <2>7
  <2>9. m \in Nat /\ m <= Len(result[1].net)
    <3>1. Len(result[1].net) \in Nat
      BY DEF EngineInv, Call, Follows, IsSeq
    <3>2. row < Len(result[1].net) /\ row \in Nat
      BY <2>1, <2>2
    <3>3. QED  BY <3>1, <3>2
  <2>10. QED  BY <2>1, <2>8, <2>9 DEF TaxInv
<1>3. CASE UNCHANGED vars
  <2>1. UNCHANGED <<result, prices, lots, row, realised, received, call>>
    BY <1>3 DEF vars, inputs, taxes
  <2>2. CASE Fresh
    BY <2>1, <2>2 DEF Fresh, TaxInv
  <2>3. CASE call = 3 /\ row \in Nat /\ row <= Len(result[1].net) /\ Accounts(lots, row, realised, received)
    <3>1. PICK queues, n, gains, income :
             queues = lots /\ n = row /\ gains = realised /\ income = received
      OBVIOUS
    <3>2. Accounts(queues, n, gains, income)
      BY <2>3, <3>1
    <3>3. Accounts(queues, n, gains, income)'
      BY <2>1, <3>2, AccountsStay
    <3>4. Accounts(lots, row, realised, received)'
      BY <2>1, <3>1, <3>3
    <3>5. QED  BY <2>1, <2>3, <3>4 DEF TaxInv
  <2>4. QED  BY <2>2, <2>3 DEF TaxInv
<1>4. QED  BY <1>1, <1>2, <1>3 DEF Next

(* What the ledger of a symbol says, as the property has it. *)
Says(queue, n, s) ==
    LET after == IF queue = <<>> THEN {}
                 ELSE {i \in Purchases(n, s) : result[1].bars[i] > queue[1].acquired}
    IN  /\ \A i \in DOMAIN queue : Positive(queue[i].qty)
        /\ {queue[k].acquired : k \in 2..Len(queue)} = {result[1].bars[i] : i \in after}
        /\ \A i \in after : \E k \in 2..Len(queue) :
              queue[k].acquired = result[1].bars[i] /\ queue[k].qty = Units(i, s)

LEMMA LedgerSays ==
    ASSUME NEW n \in Nat, NEW s, NEW queue, Ledger(queue, n, s), Readable(n)
    PROVE  Says(queue, n, s)
<1> DEFINE l == Len(queue)
           P == Purchases(n, s)
           bars == result[1].bars
           after == IF queue = <<>> THEN {} ELSE {i \in P : bars[i] > queue[1].acquired}
<1>1. /\ queue \in Seq(Lot) /\ l \in Nat /\ DOMAIN queue = 1..l /\ (queue = <<>> <=> l = 0)
      /\ Opened(queue) /\ Ordered(queue) /\ Bought(queue, n, s) /\ Complete(queue, n, s)
  BY DEF Ledger
<1>2. \A i \in DOMAIN queue : Positive(queue[i].qty)
  BY <1>1 DEF Opened
<1>3. \A k \in 2..l : k \in 1..l /\ 1 \in 1..l /\ 1 < k /\ k # 1 /\ l # 0
  BY <1>1
<1>4. /\ \A i \in P : bars[i] \in Nat
      /\ \A i \in P, j \in P : bars[i] = bars[j] => i = j
  <2>1. P \subseteq 1..n
    BY PurchasesMore
  <2>2. \A i \in P : bars[i] \in Nat
    BY <2>1, BarNumbers DEF Readable
  <2>3. ASSUME NEW i \in P, NEW j \in P, bars[i] = bars[j] PROVE i = j
    <3>1. i \in 1..n /\ j \in 1..n
      BY <2>1
    <3>2. i < j => bars[i] < bars[j]
      BY <3>1 DEF Readable
    <3>3. j < i => bars[j] < bars[i]
      BY <3>1 DEF Readable
    <3>4. bars[i] \in Nat /\ bars[j] \in Nat
      BY <2>2
    <3>5. QED  BY <2>3, <3>1, <3>2, <3>3, <3>4
  <2>4. QED  BY <2>2, <2>3
<1>5. ASSUME NEW k \in 2..l
      PROVE  \E i \in after : queue[k].acquired = bars[i] /\ queue[k].qty = Units(i, s)
  <2>1. PICK i \in P : queue[k].acquired = bars[i] /\ (k # 1 => queue[k].qty = Units(i, s))
    BY <1>1, <1>3 DEF Bought
  <2>2. queue[1].acquired < queue[k].acquired
    BY <1>1, <1>3 DEF Ordered
  <2>3. queue[1].acquired \in Nat /\ bars[i] \in Nat
    <3>1. 1 \in 1..Len(queue)
      BY <1>3
    <3>2. queue[1].acquired \in Bar
      BY <1>1, <3>1, LotType
    <3>3. QED  BY <1>4, <3>2, BarNumbers
  <2>4. bars[i] > queue[1].acquired
    BY <2>1, <2>2, <2>3
  <2>5. QED  BY <1>1, <1>3, <2>1, <2>4
<1>6. ASSUME NEW i \in after
      PROVE  \E k \in 2..l : queue[k].acquired = bars[i] /\ queue[k].qty = Units(i, s)
  <2>1. i \in P /\ bars[i] > queue[1].acquired /\ l # 0
    BY <1>1
  <2>2. PICK k \in 2..l : queue[k].acquired = bars[i]
    BY <1>1, <2>1 DEF Complete
  <2>3. PICK j \in P : queue[k].acquired = bars[j] /\ (k # 1 => queue[k].qty = Units(j, s))
    BY <1>1, <1>3 DEF Bought
  <2>4. j = i
    BY <1>4, <2>1, <2>2, <2>3
  <2>5. QED  BY <1>3, <2>2, <2>3, <2>4
<1> HIDE DEF after, l
<1>7. {queue[k].acquired : k \in 2..l} = {bars[i] : i \in after}
  <2>1. \A k \in 2..l : \E i \in after : queue[k].acquired = bars[i]
    BY <1>5
  <2>2. \A i \in after : \E k \in 2..l : queue[k].acquired = bars[i]
    BY <1>6
  <2>3. QED  BY <2>1, <2>2
<1>8. QED  BY <1>2, <1>6, <1>7 DEF after, l, Says

(* Whatever is traded at whatever prices, only the oldest lot of a symbol   *)
(* has ever been sold from, no purchase is missing among the younger ones,  *)
(* and the gains of all years, short-term and long-term, are what was       *)
(* received less what the units sold had cost (estimate_taxes and           *)
(* _match_fifo, tax.py).                                                    *)
THEOREM LedgerBalances == Spec => []LotsAccounted
<1>1. EngineInv /\ TablesTyped /\ TaxInv => LotsAccounted
  <2>1. SUFFICES ASSUME EngineInv, TablesTyped, TaxInv PROVE LotsAccounted
    OBVIOUS
  <2>2. Len(result[1].net) \in Nat
    BY <2>1 DEF EngineInv, Call, Follows, IsSeq
  <2>3. row \in Nat /\ row <= Len(result[1].net)
    BY <2>1, <2>2 DEF TaxInv, Fresh
  <2>4. Accounts(lots, row, realised, received)
    BY <2>1, FreshAccounts DEF TaxInv
  <2>5. Readable(row)
    BY <2>1, <2>3, ReadableRows
  <2> DEFINE r == result[1]
             units(i, s) == Mul(r.trades[i][s], Ratio(1, prices[r.bars[i]][s]))
             purchases(s) == {i \in 1..row : Positive(r.trades[i][s]) /\ prices[r.bars[i]][s] # None}
             cost(s) == Sum([i \in purchases(s) |-> r.trades[i][s]])
             left(s) == Sum([i \in DOMAIN lots[s] |-> Mul(lots[s][i].qty, Whole(lots[s][i].cost))])
             years == [y \in DOMAIN realised |-> Add(realised[y].stcg, realised[y].ltcg)]
  <2>6. ASSUME NEW s \in Symbol
        PROVE  LET queue == lots[s]
                   after == IF queue = <<>> THEN {} ELSE {i \in purchases(s) : r.bars[i] > queue[1].acquired}
               IN  /\ \A i \in DOMAIN queue : Positive(queue[i].qty)
                   /\ {queue[k].acquired : k \in 2..Len(queue)} = {r.bars[i] : i \in after}
                   /\ \A i \in after : \E k \in 2..Len(queue) :
                         queue[k].acquired = r.bars[i] /\ queue[k].qty = units(i, s)
    <3>1. purchases(s) = Purchases(row, s) /\ \A i : units(i, s) = Units(i, s)
      BY DEF Purchases, Trade, PriceAt, Units
    <3>2. Ledger(lots[s], row, s)
      BY <2>4 DEF Accounts
    <3> HIDE DEF purchases, units
    <3>3. Says(lots[s], row, s)
      BY <2>3, <2>5, <3>2, LedgerSays
    <3>4. QED  BY <3>1, <3>3 DEF Says
  <2>7. ASSUME NEW s \in Symbol PROVE cost(s) = Spent(row, s) /\ left(s) = Stock(lots[s])
    <3>1. purchases(s) = Purchases(row, s) /\ \A i : r.trades[i][s] = Trade(i, s)
      BY DEF Purchases, Trade, PriceAt
    <3>2. [i \in purchases(s) |-> r.trades[i][s]] = Trades(row, s)
      BY <3>1 DEF Trades
    <3>3. DOMAIN Trades(row, s) = Purchases(row, s)
      BY DEF Trades
    <3>4. cost(s) = Spent(row, s)
      <4> HIDE DEF purchases
      <4>1. QED  BY <3>2, <3>3 DEF Sum, FoldFunction, SumOn, Spent
    <3>5. left(s) = Stock(lots[s])
      BY DEF Sum, FoldFunction, SumOn, Stock, Worth
    <3>6. QED  BY <3>4, <3>5
  <2>8. /\ [s \in Symbol |-> cost(s)] = SpentOn(row)
        /\ [s \in Symbol |-> left(s)] = Stocks(lots)
    <3> HIDE DEF cost, left
    <3>1. QED  BY <2>7 DEF SpentOn, Stocks
  <2>9. /\ DOMAIN realised = Years /\ DOMAIN received = Symbol
        /\ years = ByYear(realised)
    <3>1. DOMAIN realised = Years /\ DOMAIN received = Symbol
      BY <2>4 DEF Accounts, Typed, Yearly
    <3>2. QED  BY <3>1 DEF ByYear
  <2>10. /\ Sum(years) = SumOn(ByYear(realised), Years) /\ Sum(received) = SumOn(received, Symbol)
         /\ Sum(SpentOn(row)) = SumOn(SpentOn(row), Symbol)
         /\ Sum(Stocks(lots)) = SumOn(Stocks(lots), Symbol)
    <3>1. DOMAIN ByYear(realised) = Years /\ DOMAIN SpentOn(row) = Symbol /\ DOMAIN Stocks(lots) = Symbol
      BY DEF ByYear, SpentOn, Stocks
    <3> HIDE DEF years
    <3>2. QED  BY <2>9, <3>1 DEF Sum, FoldFunction, SumOn
  <2> DEFINE y == SumOn(ByYear(realised), Years)
             c == SumOn(SpentOn(row), Symbol)
             g == SumOn(received, Symbol)
             l == SumOn(Stocks(lots), Symbol)
  <2>11. y \in Reduced /\ c \in Reduced /\ g \in Reduced /\ l \in Reduced /\ Add(y, c) = Add(g, l)
    <3>1. Typed(realised, received) /\ \A s \in Symbol : Ledger(lots[s], row, s)
      BY <2>4 DEF Accounts
    <3>2. IsFiniteSet(Symbol) /\ Values(received, Symbol)
      BY <3>1, BacktestAssumption DEF Typed
    <3>3. \A s \in Symbol : SpentOn(row)[s] \in Reduced
      BY <2>3, <2>5, TradesAre DEF SpentOn
    <3>4. ASSUME NEW s \in Symbol PROVE Stocks(lots)[s] \in Reduced
      <4>1. PICK q : q = lots[s]
        OBVIOUS
      <4>2. q \in Seq(Lot)
        BY <3>1, <4>1 DEF Ledger
      <4>3. Stock(q) \in Reduced
        BY <4>2, WorthType
      <4>4. QED  BY <4>1, <4>3 DEF Stocks
    <3>5. Values(SpentOn(row), Symbol) /\ Values(Stocks(lots), Symbol)
      BY <3>3, <3>4 DEF Values
    <3>6. QED  BY <2>4, <3>1, <3>2, <3>5, SumValue, ByYearType DEF Accounts, Balanced
  <2>12. y = Sub(g, Sub(c, l))
    <3> HIDE DEF y, c, g, l
    <3>1. QED  BY <2>11, BalanceIs
  <2>13. Sum(years) = Sub(Sum(received), Sub(Sum([s \in Symbol |-> cost(s)]), Sum([s \in Symbol |-> left(s)])))
    <3> HIDE DEF years, cost, left
    <3>1. QED  BY <2>8, <2>10, <2>12
  <2>14. QED  BY <2>6, <2>13 DEF LotsAccounted
<1>2. QED  BY <1>1, EngineSafe, TypedAlways, TaxInvInit, TaxInvStep, PTL DEF Spec
=============================================================================
