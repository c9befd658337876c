------------------------------- MODULE Lemmas -------------------------------
(***************************************************************************)
(* What the proofs about the components share, none of it about the code:  *)
(*                                                                         *)
(*   least elements   what stands in for induction over numbers and over   *)
(*                    the subsets of a finite set                          *)
(*   loops and folds  they are functions, and folds over operations that   *)
(*                    commute do not depend on the order                   *)
(*   LowestTerms      gcd is the greatest common divisor, and sums and     *)
(*                    products in lowest terms obey the laws of fractions  *)
(***************************************************************************)
EXTENDS LowestTerms, FiniteSetsExt, FiniteSetTheorems, WellFoundedInduction, TLAPS

----------------------------------------------------------------------------
(* Least elements. *)

LEMMA LeastNatural ==
    ASSUME NEW T \in SUBSET Nat, T # {}
    PROVE  \E x \in T : \A y \in T : x <= y
<1>1. PICK x \in T : \A y \in T : ~(<<y, x>> \in OpToRel(<, Nat))
  BY NatLessThanWellFounded, WFMin
<1>2. \A y \in T : ~(y < x)
  BY <1>1 DEF OpToRel
<1>3. QED  BY <1>2

LEMMA LeastSubset ==
    ASSUME NEW S, IsFiniteSet(S), NEW C \in SUBSET SUBSET S, C # {}
    PROVE  \E T \in C : \A U \in C : U \subseteq T => U = T
<1>1. IsWellFoundedOn(StrictSubsetOrdering(S), SUBSET S)
  BY FS_StrictSubsetOrderingWellFounded, FS_FiniteSubsetsOfFinite
<1>2. PICK T \in C : \A U \in C : ~(<<U, T>> \in StrictSubsetOrdering(S))
  BY <1>1, WFMin
<1>3. \A U \in C : U \subseteq T => U = T
  BY <1>2 DEF StrictSubsetOrdering
<1>4. QED  BY <1>3

(* What holds of a finite set's subset if it holds of all smaller ones holds *)
(* of the set.                                                              *)
LEMMA BySubsets ==
    ASSUME NEW S, IsFiniteSet(S), NEW G,
           \A T \in SUBSET S : (\A x \in T : T \ {x} \in G) => T \in G
    PROVE  S \in G
<1> DEFINE C == {T \in SUBSET S : T \notin G}
<1>1. ASSUME C # {} PROVE FALSE
  <2>1. PICK T \in C : \A U \in C : U \subseteq T => U = T
    <3>1. C \in SUBSET SUBSET S
      OBVIOUS
    <3> HIDE DEF C
    <3>2. QED  BY <1>1, <3>1, LeastSubset
  <2>2. ASSUME NEW x \in T PROVE T \ {x} \in G
    <3>1. T \ {x} \in SUBSET S /\ T \ {x} \subseteq T /\ T \ {x} # T
      BY <2>1, <2>2
    <3>2. QED  BY <2>1, <3>1
  <2>3. QED  BY <2>1, <2>2
<1>2. QED  BY <1>1

(* Max finds the last of a set of naturals. *)
LEMMA MaxFound ==
    ASSUME NEW S, S \subseteq Nat, IsFiniteSet(S), S # {}
    PROVE  Max(S) \in S /\ \A y \in S : y <= Max(S)
<1> DEFINE Topped(T) == \E x \in T : \A y \in T : y <= x
           G == {T \in SUBSET S : T # {} => Topped(T)}
<1>1. ASSUME NEW T \in SUBSET S, \A x \in T : T \ {x} \in G, T # {} PROVE Topped(T)
  <2>1. PICK x \in T : TRUE
    BY <1>1
  <2>2. T \ {x} # {} => Topped(T \ {x})
    BY <1>1, <2>1
  <2>3. x \in Nat
    BY <1>1, <2>1
  <2>4. CASE T \ {x} = {}
    <3>1. \A y \in T : y <= x
      BY <2>3, <2>4
    <3>2. QED  BY <2>1, <3>1
  <2>5. CASE T \ {x} # {}
    <3>1. PICK m \in T \ {x} : \A y \in T \ {x} : y <= m
      BY <2>2, <2>5
    <3>2. m \in Nat /\ \A y \in T : y \in Nat
      BY <1>1, <3>1
    <3>3. CASE x <= m
      BY <3>1, <3>3
    <3>4. CASE m <= x
      BY <2>1, <2>3, <3>1, <3>2, <3>4
    <3>5. QED  BY <2>3, <3>2, <3>3, <3>4
  <2>6. QED  BY <2>4, <2>5
<1>2. \A T \in SUBSET S : (\A x \in T : T \ {x} \in G) => T \in G
  BY <1>1
<1>3. IsFiniteSet(S)
  OBVIOUS
<1>4. S \in G
  <2> HIDE DEF G
  <2>1. QED  BY <1>2, <1>3, BySubsets
<1>5. \E x \in S : \A y \in S : x >= y
  BY <1>4
<1>6. QED  BY <1>5 DEF Max

----------------------------------------------------------------------------
(* Loops that count. *)

(* f is what a loop has in hand after each number of rounds. *)
Unrolls(f, first, round, n) ==
    /\ f[0] = first
    /\ \A k \in Nat : k < n => f[k + 1] = round[k][f[k]]

IsLoop(f, V, first, round) ==
    /\ f \in [Nat -> V]
    /\ f[0] = first
    /\ \A k \in Nat : f[k + 1] = round[k][f[k]]

(* Two accounts of the rounds of a loop agree. *)
LEMMA UnrollUnique ==
    ASSUME NEW first, NEW round, NEW n \in Nat, NEW m \in Nat,
           NEW f, Unrolls(f, first, round, n),
           NEW g, Unrolls(g, first, round, m)
    PROVE  \A k \in Nat : k <= n /\ k <= m => f[k] = g[k]
  <1> DEFINE T == {k \in Nat : k <= n /\ k <= m /\ f[k] # g[k]}
  <1>1. SUFFICES ASSUME T # {} PROVE FALSE
    OBVIOUS
  <1>2. PICK k \in T : \A j \in T : k <= j
    BY <1>1, LeastNatural
  <1>3. k # 0
    BY <1>2 DEF Unrolls
  <1>4. k - 1 \in Nat /\ k - 1 < n /\ k - 1 < m /\ (k - 1) + 1 = k
    BY <1>2, <1>3
  <1>5. k - 1 \notin T
    BY <1>2, <1>4
  <1>6. f[k - 1] = g[k - 1]
    BY <1>2, <1>4, <1>5
  <1> QED
    BY <1>2, <1>4, <1>6 DEF Unrolls

(* A loop has something in hand after every number of rounds. *)
LEMMA UnrollExists ==
    ASSUME NEW V, NEW first \in V, NEW round \in [Nat -> [V -> V]]
    PROVE  \E f : IsLoop(f, V, first, round)
  <1> DEFINE Upto(n) == \E f \in [Nat -> V] : Unrolls(f, first, round, n)
             T == {n \in Nat : ~Upto(n)}
  <1>1. \A n \in Nat : Upto(n)
    <2>1. SUFFICES ASSUME T # {} PROVE FALSE
      OBVIOUS
    <2>2. PICK n \in T : \A j \in T : n <= j
      BY <2>1, LeastNatural
    <2>3. n # 0
      <3>1. Unrolls([k \in Nat |-> first], first, round, 0)
        BY DEF Unrolls
      <3>2. [k \in Nat |-> first] \in [Nat -> V]
        OBVIOUS
      <3>3. Upto(0)
        BY <3>1, <3>2
      <3> QED
        BY <2>2, <3>3
    <2>4. n - 1 \in Nat /\ (n - 1) + 1 = n
      BY <2>2, <2>3
    <2>5. n - 1 \notin T
      BY <2>2, <2>4
    <2>6. PICK f \in [Nat -> V] : Unrolls(f, first, round, n - 1)
      BY <2>4, <2>5
    <2> DEFINE g == [k \in Nat |-> IF k = n THEN round[n - 1][f[n - 1]] ELSE f[k]]
    <2>7. g \in [Nat -> V]
      BY <2>4
    <2>8. Unrolls(g, first, round, n)
      <3>1. g[0] = first
        BY <2>3, <2>6 DEF Unrolls
      <3>2. ASSUME NEW k \in Nat, k < n PROVE g[k + 1] = round[k][g[k]]
        <4>1. g[k] = f[k]
          BY <3>2
        <4>2. CASE k = n - 1
          BY <2>4, <4>1, <4>2
        <4>3. CASE k # n - 1
          <5>1. k < n - 1 /\ k + 1 # n /\ k + 1 \in Nat
            BY <2>2, <3>2, <4>3
          <5>2. g[k + 1] = f[k + 1]
            BY <5>1
          <5> QED
            BY <2>6, <4>1, <5>1, <5>2 DEF Unrolls
        <4> QED
          BY <4>2, <4>3
      <3> HIDE DEF g
      <3> QED
        BY <3>1, <3>2 DEF Unrolls
    <2> HIDE DEF g
    <2>9. Upto(n)
      BY <2>7, <2>8
    <2> QED
      BY <2>2, <2>9
  <1> DEFINE by == [n \in Nat |-> CHOOSE f \in [Nat -> V] : Unrolls(f, first, round, n)]
             h == [n \in Nat |-> by[n][n]]
  <1>2. \A n \in Nat : by[n] \in [Nat -> V] /\ Unrolls(by[n], first, round, n)
    BY <1>1
  <1> HIDE DEF by
  <1>3. h \in [Nat -> V]
    BY <1>2
  <1>4. h[0] = first
    BY <1>2 DEF Unrolls
  <1>5. ASSUME NEW k \in Nat PROVE h[k + 1] = round[k][h[k]]
    <2>1. k + 1 \in Nat /\ k <= k /\ k <= k + 1 /\ k < k + 1
      OBVIOUS
    <2>2. by[k + 1][k] = by[k][k]
      <3>1. Unrolls(by[k], first, round, k) /\ Unrolls(by[k + 1], first, round, k + 1)
        BY <1>2, <2>1
      <3> DEFINE f == by[k + 1]
                 g == by[k]
                 n == k + 1
      <3>2. Unrolls(f, first, round, n) /\ Unrolls(g, first, round, k) /\ n \in Nat
        BY <2>1, <3>1
      <3> HIDE DEF f, g, n
      <3>3. \A i \in Nat : i <= n /\ i <= k => f[i] = g[i]
        BY <3>2, UnrollUnique
      <3> QED
        BY <2>1, <3>3 DEF f, g, n
    <2>3. by[k + 1][k + 1] = round[k][by[k + 1][k]]
      BY <1>2, <2>1 DEF Unrolls
    <2> QED
      BY <2>1, <2>2, <2>3
  <1> QED
    BY <1>3, <1>4, <1>5 DEF IsLoop

----------------------------------------------------------------------------
(* Folds.  The library's folds are recursive functions on the subsets of a *)
(* finite set; least counterexamples stand in for induction over them.     *)

(* Some element of a set, the one a fold starts from. *)
Pick(s) == CHOOSE x \in s : TRUE

(* g combines base with what the subset s of S holds, an element at a time. *)
FoldsTo(g, S, V, base, add) ==
    /\ g \in [SUBSET S -> V]
    /\ g[{}] = base
    /\ \A s \in SUBSET S : s # {} => g[s] = add[Pick(s)][g[s \ {Pick(s)}]]

LEMMA PickIn ==
    ASSUME NEW s, s # {}
    PROVE  Pick(s) \in s
  BY DEF Pick

(* Two functions of the subsets of S agree if they agree on a subset as soon *)
(* as they agree on what is left of it without the element that is picked.  *)
LEMMA AgreeOnSubsets ==
    ASSUME NEW S, IsFiniteSet(S), NEW g, NEW h,
           g[{}] = h[{}],
           \A s \in SUBSET S :
               s # {} /\ g[s \ {Pick(s)}] = h[s \ {Pick(s)}] => g[s] = h[s]
    PROVE  \A s \in SUBSET S : g[s] = h[s]
<1> DEFINE C == {s \in SUBSET S : g[s] # h[s]}
<1>1. SUFFICES ASSUME C # {} PROVE FALSE
  OBVIOUS
<1>2. PICK s \in C : \A u \in C : u \subseteq s => u = s
  <2>1. C \in SUBSET SUBSET S
    OBVIOUS
  <2> HIDE DEF C
  <2>2. QED  BY <1>1, <2>1, LeastSubset
<1>3. s # {}
  BY <1>2
<1>4. Pick(s) \in s
  BY <1>3, PickIn
<1>5. s \ {Pick(s)} \in SUBSET S /\ s \ {Pick(s)} \notin C
  BY <1>2, <1>4
<1>6. g[s] = h[s]
  BY <1>2, <1>3, <1>5
<1>7. QED  BY <1>2, <1>6

Alike(f, h, S) == \A x \in S : f[x] = h[x]

(* The elements a fold goes over determine what it comes to. *)
LEMMA FoldUnique ==
    ASSUME NEW S, NEW T, NEW U, NEW V, NEW W, NEW base, NEW add, NEW more, NEW g, NEW h,
           IsFiniteSet(U), U \subseteq S, U \subseteq T,
           FoldsTo(g, S, V, base, add), FoldsTo(h, T, W, base, more),
           Alike(add, more, U)
    PROVE  g[U] = h[U]
<1>1. g[{}] = h[{}]
  BY DEF FoldsTo
<1>2. ASSUME NEW s \in SUBSET U, s # {}, g[s \ {Pick(s)}] = h[s \ {Pick(s)}]
      PROVE  g[s] = h[s]
  <2>1. Pick(s) \in U
    BY <1>2, PickIn
  <2>2. g[s] = add[Pick(s)][g[s \ {Pick(s)}]]
    BY <1>2 DEF FoldsTo
  <2>3. h[s] = more[Pick(s)][h[s \ {Pick(s)}]]
    BY <1>2 DEF FoldsTo
  <2>4. add[Pick(s)] = more[Pick(s)]
    BY <2>1 DEF Alike
  <2>5. QED  BY <1>2, <2>2, <2>3, <2>4
<1>3. \A s \in SUBSET U : g[s] = h[s]
  BY <1>1, <1>2, AgreeOnSubsets
<1>4. QED  BY <1>3

(* Every fold over a finite set is defined. *)
LEMMA FoldExists ==
    ASSUME NEW S, IsFiniteSet(S), NEW V, NEW base \in V, NEW add \in [S -> [V -> V]]
    PROVE  \E g : FoldsTo(g, S, V, base, add)
<1> DEFINE C == {T \in SUBSET S : ~ \E g : FoldsTo(g, T, V, base, add)}
<1>1. SUFFICES ASSUME C # {} PROVE FALSE
  OBVIOUS
<1>2. PICK T \in C : \A U \in C : U \subseteq T => U = T
  <2>1. C \in SUBSET SUBSET S
    OBVIOUS
  <2> HIDE DEF C
  <2>2. QED  BY <1>1, <2>1, LeastSubset
<1> DEFINE h(U) == CHOOSE g : FoldsTo(g, U, V, base, add)
           g == [s \in SUBSET T |->
                    IF s = {} THEN base
                    ELSE add[Pick(s)][h(s \ {Pick(s)})[s \ {Pick(s)}]]]
<1>3. \A U \in SUBSET T : U # T => FoldsTo(h(U), U, V, base, add)
  <2>1. SUFFICES ASSUME NEW U \in SUBSET T, U # T
                 PROVE  FoldsTo(h(U), U, V, base, add)
    OBVIOUS
  <2>2. U \in SUBSET S /\ U \notin C
    BY <1>2, <2>1
  <2>3. \E f : FoldsTo(f, U, V, base, add)
    BY <2>2
  <2>4. QED  BY <2>3
<1> HIDE DEF h
<1>4. g \in [SUBSET T -> V]
  <2>1. ASSUME NEW s \in SUBSET T, s # {}
        PROVE  add[Pick(s)][h(s \ {Pick(s)})[s \ {Pick(s)}]] \in V
    <3> DEFINE u == s \ {Pick(s)}
    <3>1. Pick(s) \in s
      BY <2>1, PickIn
    <3>2. u \in SUBSET T /\ u # T
      BY <3>1
    <3>3. FoldsTo(h(u), u, V, base, add)
      BY <1>3, <3>2
    <3>4. h(u)[u] \in V
      BY <3>3 DEF FoldsTo
    <3>5. add[Pick(s)] \in [V -> V]
      BY <3>1, <2>1
    <3>6. QED  BY <3>4, <3>5
  <2>2. QED  BY <2>1
<1>5. \A s \in SUBSET T : s # T => g[s] = h(s)[s]
  <2>1. SUFFICES ASSUME NEW s \in SUBSET T, s # T
                 PROVE  g[s] = h(s)[s]
    OBVIOUS
  <2>2. FoldsTo(h(s), s, V, base, add)
    BY <1>3, <2>1
  <2>3. CASE s = {}
    BY <2>2, <2>3 DEF FoldsTo
  <2>4. CASE s # {}
    <3> DEFINE u == s \ {Pick(s)}
    <3>1. Pick(s) \in s
      BY <2>4, PickIn
    <3>2. u \in SUBSET T /\ u # T /\ u \subseteq s
      BY <3>1
    <3>3. FoldsTo(h(u), u, V, base, add)
      BY <1>3, <3>2
    <3>4. IsFiniteSet(u)
      BY <3>2, FS_Subset
    <3>5. h(u)[u] = h(s)[u]
      <4>1. Alike(add, add, u) /\ u \subseteq u
        BY DEF Alike
      <4> DEFINE hu == h(u)
                 hs == h(s)
      <4>2. FoldsTo(hu, u, V, base, add) /\ FoldsTo(hs, s, V, base, add)
        BY <2>2, <3>3
      <4> HIDE DEF u, hu, hs
      <4>3. hu[u] = hs[u]
        BY <3>2, <3>4, <4>1, <4>2, FoldUnique
      <4>4. QED  BY <4>3 DEF hu, hs
    <3>6. h(s)[s] = add[Pick(s)][h(s)[u]]
      BY <2>2, <2>4 DEF FoldsTo
    <3>7. g[s] = add[Pick(s)][h(u)[u]]
      BY <2>1, <2>4
    <3>8. QED  BY <3>5, <3>6, <3>7
  <2>5. QED  BY <2>3, <2>4
<1>6. \A s \in SUBSET T : s # {} => g[s] = add[Pick(s)][g[s \ {Pick(s)}]]
  <2>1. SUFFICES ASSUME NEW s \in SUBSET T, s # {}
                 PROVE  g[s] = add[Pick(s)][g[s \ {Pick(s)}]]
    OBVIOUS
  <2> DEFINE u == s \ {Pick(s)}
  <2>2. Pick(s) \in s
    BY <2>1, PickIn
  <2>3. u \in SUBSET T /\ u # T
    BY <2>2
  <2>4. g[u] = h(u)[u]
    BY <1>5, <2>3
  <2>5. g[s] = add[Pick(s)][h(u)[u]]
    BY <2>1
  <2>6. QED  BY <2>4, <2>5
<1>7. g[{}] = base
  OBVIOUS
<1> HIDE DEF g
<1>8. FoldsTo(g, T, V, base, add)
  BY <1>4, <1>6, <1>7 DEF FoldsTo
<1>9. QED  BY <1>2, <1>8

(* A fold over functions that commute does not depend on the order. *)
Commuting(S, V) ==
    {add \in [S -> [V -> V]] :
        \A x, y \in S, v \in V : add[x][add[y][v]] = add[y][add[x][v]]}

LEMMA FoldAdds ==
    ASSUME NEW S, IsFiniteSet(S), NEW V, NEW base, NEW add \in Commuting(S, V), NEW g,
           FoldsTo(g, S, V, base, add),
           NEW x \in S, NEW T \in SUBSET S, x \notin T
    PROVE  g[T \union {x}] = add[x][g[T]]
<1> DEFINE C == {s \in SUBSET S : \E z \in S \ s : g[s \union {z}] # add[z][g[s]]}
<1>1. SUFFICES ASSUME C # {} PROVE FALSE
  OBVIOUS
<1>2. PICK s \in C : \A u \in C : u \subseteq s => u = s
  <2>1. C \in SUBSET SUBSET S
    OBVIOUS
  <2> HIDE DEF C
  <2>2. QED  BY <1>1, <2>1, LeastSubset
<1>3. PICK z \in S \ s : g[s \union {z}] # add[z][g[s]]
  BY <1>2
<1> DEFINE w == s \union {z}
           y == Pick(w)
<1>4. y \in w /\ w \in SUBSET S /\ w # {}
  BY <1>2, <1>3, PickIn
<1>5. g[w] = add[y][g[w \ {y}]]
  BY <1>4 DEF FoldsTo
<1> HIDE DEF y
<1>6. y # z
  <2>1. SUFFICES ASSUME y = z PROVE FALSE
    OBVIOUS
  <2>2. w \ {y} = s
    BY <1>3, <2>1
  <2>3. QED  BY <1>3, <1>5, <2>1, <2>2
<1> DEFINE r == s \ {y}
<1>7. y \in s /\ r \in SUBSET S /\ r \notin C /\ y \in S \ r /\ z \in S \ r
  BY <1>2, <1>3, <1>4, <1>6
<1>8. w \ {y} = r \union {z} /\ s = r \union {y}
  BY <1>3, <1>6, <1>7
<1>9. g[r \union {z}] = add[z][g[r]] /\ g[r \union {y}] = add[y][g[r]]
  BY <1>7
<1>10. g[r] \in V
  BY <1>7 DEF FoldsTo
<1>11. g[w] = add[z][add[y][g[r]]]
  <2>1. g[w] = add[y][add[z][g[r]]]
    BY <1>5, <1>8, <1>9
  <2>2. y \in S /\ z \in S
    BY <1>7
  <2>3. QED  BY <1>10, <2>1, <2>2 DEF Commuting
<1>12. QED  BY <1>3, <1>8, <1>9, <1>11

(* A fold takes in one element more. *)
LEMMA FoldMore ==
    ASSUME NEW T, NEW x, x \notin T, NEW S, IsFiniteSet(S), S = T \union {x},
           NEW V, NEW base, NEW add \in Commuting(S, V), NEW part, Alike(part, add, T),
           NEW g, FoldsTo(g, S, V, base, add),
           NEW k, FoldsTo(k, T, V, base, part)
    PROVE  g[S] = add[x][k[T]] /\ k[T] \in V
<1>1. x \in S /\ T \in SUBSET S /\ T \subseteq S /\ T \subseteq T /\ IsFiniteSet(T)
  BY FS_Subset
<1>2. g[T \union {x}] = add[x][g[T]]
  BY <1>1, FoldAdds
<1>3. k[T] = g[T]
  BY <1>1, FoldUnique
<1>4. k[T] \in V
  BY <1>1 DEF FoldsTo
<1>5. QED  BY <1>2, <1>3, <1>4

(* Induction over the subsets of a finite set, G being those it holds of. *)
LEMMA FromEmpty ==
    ASSUME NEW S, IsFiniteSet(S), NEW G,
           {} \in G,
           \A T \in SUBSET S : \A x \in S \ T : T \in G => T \union {x} \in G
    PROVE  S \in G
<1> DEFINE C == {T \in SUBSET S : T \notin G}
<1>1. SUFFICES ASSUME C # {} PROVE FALSE
  OBVIOUS
<1>2. PICK T \in C : \A U \in C : U \subseteq T => U = T
  <2>1. C \in SUBSET SUBSET S
    OBVIOUS
  <2> HIDE DEF C
  <2>2. QED  BY <1>1, <2>1, LeastSubset
<1>3. PICK x : x \in T
  BY <1>2
<1>4. T \ {x} \in SUBSET S /\ x \in S \ (T \ {x}) /\ T \ {x} \notin C /\ (T \ {x}) \union {x} = T
  BY <1>2, <1>3
<1>5. T \ {x} \in G
  BY <1>4
<1>6. QED  BY <1>2, <1>4, <1>5

----------------------------------------------------------------------------
(* Integers. *)

(* A product of integers is one; products of positive numbers are positive. *)
LEMMA Products ==
    ASSUME NEW a \in Int, NEW b \in Int
    PROVE  /\ a * b \in Int
           /\ a > 0 /\ b > 0 => a * b > 0
           /\ a >= 0 /\ b >= 0 => a * b >= 0
           /\ a * b = b * a
  OBVIOUS

LEMMA Regroup ==
    ASSUME NEW a \in Int, NEW b \in Int, NEW c \in Int
    PROVE  /\ (a * b) * c = a * (b * c)
           /\ a * (b + c) = a * b + a * c
           /\ (b + c) * a = b * a + c * a
           /\ a * (b - c) = a * b - a * c
  OBVIOUS

LEMMA Cancels ==
    ASSUME NEW x \in Int, NEW y \in Int, NEW d \in Nat \ {0}, x * d = y * d
    PROVE  x = y
  OBVIOUS

(* d divides n. *)
Divides(d, n) == \E q \in Nat : n = d * q

(* What is left of a division by b. *)
LEMMA Division ==
    ASSUME NEW a \in Nat, NEW b \in Nat \ {0}
    PROVE  /\ a \div b \in Nat /\ a % b \in Nat /\ a % b < b
           /\ a = b * (a \div b) + (a % b)
  OBVIOUS

LEMMA DivisionIs ==
    ASSUME NEW a \in Nat, NEW b \in Nat \ {0}, NEW q \in Nat, NEW r \in Nat, r < b, a = b * q + r
    PROVE  a \div b = q /\ a % b = r
<1>1. /\ a \div b \in Nat /\ a % b \in Nat /\ a % b < b
      /\ a = b * (a \div b) + (a % b)
  BY Division
<1> DEFINE p == a \div b
           t == a % b
<1>2. p \in Nat /\ t \in Nat /\ t < b /\ b * p + t = b * q + r
  BY <1>1
<1> HIDE DEF p, t
<1>3. ASSUME NEW u \in Nat, NEW v \in Nat, u < v, NEW x \in Nat, NEW y \in Nat, x < b, y < b
      PROVE  b * u + x # b * v + y
  <2>1. b * u + b <= b * v
    <3>1. PICK e \in Nat : v = u + 1 + e
      <4>1. v - u - 1 \in Nat /\ v = u + 1 + (v - u - 1)
        BY <1>3
      <4>2. QED  BY <4>1
    <3>2. b * v = b * u + b + b * e /\ b * e \in Nat /\ b * u \in Nat
      BY <3>1
    <3>3. QED  BY <3>2
  <2>2. b * u \in Nat /\ b * v \in Nat
    OBVIOUS
  <2>3. QED  BY <1>3, <2>1, <2>2
<1>4. ~(p < q) /\ ~(q < p)
  BY <1>2, <1>3
<1>5. p = q
  BY <1>2, <1>4
<1>6. t = r
  <2>1. b * p \in Nat /\ b * p = b * q
    BY <1>2, <1>5
  <2>2. QED  BY <1>2, <2>1
<1>7. QED  BY <1>5, <1>6 DEF p, t

(* A common factor k goes through a division. *)
LEMMA ScaledDivision ==
    ASSUME NEW a \in Nat, NEW b \in Nat \ {0}, NEW k \in Nat \ {0}
    PROVE  (k * a) \div (k * b) = a \div b /\ (k * a) % (k * b) = k * (a % b)
<1> DEFINE q == a \div b
           r == a % b
<1>1. q \in Nat /\ r \in Nat /\ r < b /\ a = b * q + r
  BY Division
<1> HIDE DEF q, r
<1>2. k * a \in Nat /\ k * b \in Nat \ {0} /\ k * r \in Nat
  BY <1>1, Products
<1>3. k * r < k * b
  <2>1. b - r \in Nat \ {0}
    BY <1>1
  <2>2. k * (b - r) > 0
    BY <2>1, Products
  <2>3. k * (b - r) = k * b - k * r
    BY <1>1, Regroup
  <2>4. QED  BY <1>2, <2>2, <2>3
<1>4. k * a = (k * b) * q + k * r
  <2>1. b * q \in Int
    BY <1>1, Products
  <2>2. k * a = k * (b * q) + k * r
    BY <1>1, <2>1, Regroup
  <2>3. QED  BY <1>1, <2>2, Regroup
<1> DEFINE ka == k * a
           kb == k * b
           kr == k * r
<1>5. ka \in Nat /\ kb \in Nat \ {0} /\ kr \in Nat /\ kr < kb /\ ka = kb * q + kr
  BY <1>2, <1>3, <1>4
<1> HIDE DEF ka, kb, kr
<1>6. ka \div kb = q /\ ka % kb = kr
  BY <1>1, <1>5, DivisionIs
<1>7. QED  BY <1>6 DEF ka, kb, kr, q, r

----------------------------------------------------------------------------
(* Euclid's algorithm. *)

(* The divisors a and b have in common. *)
Divisors(a, b) == {d \in Nat \ {0} : Divides(d, a) /\ Divides(d, b)}

LEMMA DividesSum ==
    ASSUME NEW d \in Nat \ {0}, NEW a \in Nat, NEW b \in Nat \ {0}
    PROVE  Divides(d, a) /\ Divides(d, b) <=> Divides(d, b) /\ Divides(d, a % b)
<1> DEFINE q == a \div b
           r == a % b
<1>1. q \in Nat /\ r \in Nat /\ r < b /\ a = b * q + r
  BY Division
<1> HIDE DEF q, r
<1>2. ASSUME Divides(d, a), Divides(d, b) PROVE Divides(d, r)
  <2>1. PICK x \in Nat : a = d * x
    BY <1>2 DEF Divides
  <2>2. PICK y \in Nat : b = d * y
    BY <1>2 DEF Divides
  <2>3. y * q \in Int
    BY <1>1, Products
  <2>4. b * q = d * (y * q)
    BY <1>1, <2>2, Regroup
  <2>5. d * (x - y * q) = d * x - d * (y * q)
    BY <2>3, Regroup
  <2>6. b * q \in Int
    BY <1>1, Products
  <2>7. r = d * (x - y * q)
    BY <1>1, <2>1, <2>4, <2>5, <2>6
  <2>8. x - y * q >= 0
    <3>1. SUFFICES ASSUME x - y * q < 0 PROVE FALSE
      BY <2>3
    <3>2. -(x - y * q) > 0 /\ -(x - y * q) \in Int
      BY <2>3, <3>1
    <3>3. d * (-(x - y * q)) > 0
      BY <3>2, Products
    <3>4. d * (-(x - y * q)) = -(d * (x - y * q))
      <4> DEFINE e == x - y * q
      <4>1. e \in Int
        BY <2>3
      <4> HIDE DEF e
      <4>2. d * (-e) = -(d * e)
        BY <4>1
      <4>3. QED  BY <4>2 DEF e
    <3>5. QED  BY <1>1, <2>7, <3>3, <3>4
  <2> DEFINE z == x - y * q
  <2>9. z \in Nat /\ r = d * z
    BY <2>3, <2>7, <2>8
  <2> HIDE DEF z
  <2>10. QED  BY <2>9 DEF Divides
<1>3. ASSUME Divides(d, b), Divides(d, r) PROVE Divides(d, a)
  <2>1. PICK x \in Nat : r = d * x
    BY <1>3 DEF Divides
  <2>2. PICK y \in Nat : b = d * y
    BY <1>3 DEF Divides
  <2>3. y * q \in Nat
    BY <1>1, Products
  <2>4. b * q = d * (y * q)
    BY <1>1, <2>2, Regroup
  <2>5. d * (y * q + x) = d * (y * q) + d * x
    BY <2>3, Regroup
  <2>6. a = d * (y * q + x)
    BY <1>1, <2>1, <2>4, <2>5
  <2> DEFINE z == y * q + x
  <2>7. z \in Nat /\ a = d * z
    BY <2>3, <2>6
  <2> HIDE DEF z
  <2>8. QED  BY <2>7 DEF Divides
<1>4. QED  BY <1>2, <1>3 DEF r

LEMMA DivisorsKept ==
    ASSUME NEW a \in Nat, NEW b \in Nat \ {0}
    PROVE  Divisors(b, a % b) = Divisors(a, b)
  BY DividesSum DEF Divisors

(* The function is defined: greatest common divisors satisfy its equation. *)
IsGcd(g) ==
    g = [p \in Nat \X Nat |-> IF p[2] = 0 THEN p[1] ELSE g[<<p[2], p[1] % p[2]>>]]

Greatest(T) == CHOOSE x \in T : \A y \in T : y <= x

LEMMA GreatestOwn ==
    ASSUME NEW a \in Nat \ {0}
    PROVE  Greatest(Divisors(a, 0)) = a
<1>1. a \in Divisors(a, 0)
  <2>1. a = a * 1 /\ 0 = a * 0
    OBVIOUS
  <2>2. QED  BY <2>1 DEF Divisors, Divides
<1>2. ASSUME NEW d \in Divisors(a, 0) PROVE d <= a
  <2>1. d \in Nat \ {0}
    BY DEF Divisors
  <2>2. PICK q \in Nat : a = d * q
    BY DEF Divisors, Divides
  <2>3. q # 0
    BY <2>1, <2>2
  <2>4. d * q = d + d * (q - 1) /\ d * (q - 1) >= 0 /\ d * (q - 1) \in Int
    BY <2>1, <2>3
  <2>5. QED  BY <2>1, <2>2, <2>4
<1>3. \A x \in Divisors(a, 0) : (\A y \in Divisors(a, 0) : y <= x) => x = a
  <2>1. \A x \in Divisors(a, 0) : x \in Nat
    BY DEF Divisors
  <2>2. QED  BY <1>1, <1>2, <2>1
<1>4. QED  BY <1>1, <1>2, <1>3 DEF Greatest

LEMMA GcdDefined == IsGcd(gcd)
<1> DEFINE g == [p \in Nat \X Nat |->
                    IF p[1] = 0 /\ p[2] = 0 THEN 0 ELSE Greatest(Divisors(p[1], p[2]))]
<1>1. ASSUME NEW p \in Nat \X Nat
      PROVE  g[p] = IF p[2] = 0 THEN p[1] ELSE g[<<p[2], p[1] % p[2]>>]
  <2>1. p[1] \in Nat /\ p[2] \in Nat /\ p = <<p[1], p[2]>>
    OBVIOUS
  <2>2. CASE p[2] = 0 /\ p[1] = 0
    BY <2>2
  <2>3. CASE p[2] = 0 /\ p[1] # 0
    <3>1. g[p] = Greatest(Divisors(p[1], 0))
      BY <2>3
    <3>2. QED  BY <2>1, <2>3, <3>1, GreatestOwn
  <2>4. CASE p[2] # 0
    <3> DEFINE a == p[1]
               b == p[2]
               r == a % b
    <3>1. a \in Nat /\ b \in Nat \ {0} /\ r \in Nat
      BY <2>1, <2>4, Division
    <3>2. g[p] = Greatest(Divisors(a, b))
      BY <2>4
    <3>3. g[<<b, r>>] = Greatest(Divisors(b, r))
      <4> HIDE DEF a, b, r
      <4>1. <<b, r>> \in Nat \X Nat /\ b # 0
        BY <3>1
      <4>2. <<b, r>>[1] = b /\ <<b, r>>[2] = r
        OBVIOUS
      <4>3. QED  BY <4>1, <4>2
    <3>4. Divisors(b, r) = Divisors(a, b)
      <4> HIDE DEF a, b
      <4>1. QED  BY <3>1, DivisorsKept
    <3>5. QED  BY <2>4, <3>2, <3>3, <3>4
  <2>5. QED  BY <2>2, <2>3, <2>4
<1>2. IsGcd(g)
  <2>1. g = [p \in Nat \X Nat |-> g[p]]
    OBVIOUS
  <2> HIDE DEF g
  <2>2. QED  BY <1>1, <2>1 DEF IsGcd
<1>3. gcd = CHOOSE f : IsGcd(f)
  BY DEF gcd, IsGcd
<1>4. QED  BY <1>2, <1>3

LEMMA GcdStep ==
    ASSUME NEW a \in Nat, NEW b \in Nat
    PROVE  gcd[<<a, b>>] = IF b = 0 THEN a ELSE gcd[<<b, a % b>>]
<1>1. <<a, b>> \in Nat \X Nat /\ <<a, b>>[1] = a /\ <<a, b>>[2] = b
  OBVIOUS
<1>2. gcd = [p \in Nat \X Nat |-> IF p[2] = 0 THEN p[1] ELSE gcd[<<p[2], p[1] % p[2]>>]]
  BY GcdDefined DEF IsGcd
<1>3. QED  BY <1>1, <1>2

(* A sum of multiples of a and b. *)
Combines(g, a, b) == \E u, v \in Int : g = u * a + v * b

(* What the algorithm finds: a common divisor, and a combination of both.   *)
Finds(a, b) ==
    LET g == gcd[<<a, b>>]
    IN  /\ g \in Nat
        /\ a > 0 \/ b > 0 => g > 0
        /\ Divides(g, a) /\ Divides(g, b)
        /\ Combines(g, a, b)

LEMMA GcdFinds ==
    ASSUME NEW a \in Nat, NEW b \in Nat
    PROVE  Finds(a, b)
<1> DEFINE T == {n \in Nat : \E m \in Nat : ~Finds(m, n)}
<1>1. SUFFICES ASSUME T # {} PROVE FALSE
  OBVIOUS
<1>2. PICK n \in T : \A j \in T : n <= j
  BY <1>1, LeastNatural
<1>3. PICK m \in Nat : ~Finds(m, n)
  BY <1>2
<1>4. n \in Nat /\ \A j \in Nat : j < n => j \notin T
  BY <1>2
<1>5. CASE n = 0
  <2>1. gcd[<<m, 0>>] = m
    BY GcdStep
  <2>2. m = m * 1 /\ 0 = m * 0 /\ m = 1 * m + 0 * 0
    OBVIOUS
  <2>3. Divides(m, m) /\ Divides(m, 0)
    BY <2>2 DEF Divides
  <2>4. Combines(m, m, 0)
    BY <2>2 DEF Combines
  <2>5. Finds(m, 0)
    BY <2>1, <2>3, <2>4 DEF Finds
  <2>6. QED  BY <1>3, <1>5, <2>5
<1>6. CASE n # 0
  <2> DEFINE q == m \div n
             r == m % n
             g == gcd[<<n, r>>]
  <2>1. q \in Nat /\ r \in Nat /\ r < n /\ m = n * q + r /\ n \in Nat \ {0}
    BY <1>4, <1>6, Division
  <2>2. gcd[<<m, n>>] = g
    BY <1>4, <1>6, GcdStep
  <2>3. Finds(n, r)
    BY <1>4, <2>1
  <2>4. g \in Nat \ {0} /\ Divides(g, n) /\ Divides(g, r)
    BY <2>1, <2>3 DEF Finds
  <2>5. PICK u, v \in Int : g = u * n + v * r
    BY <2>3 DEF Finds, Combines
  <2>6. Divides(g, m)
    <3> DEFINE h == g
    <3>1. h \in Nat \ {0} /\ Divides(h, n) /\ Divides(h, m % n)
      BY <2>4
    <3> HIDE DEF h
    <3>2. Divides(h, m)
      BY <2>1, <3>1, DividesSum
    <3>3. QED  BY <3>2 DEF h
  <2> HIDE DEF q, r, g
  <2>7. g = v * m + (u - v * q) * n
    <3>1. v * q \in Int /\ n * q \in Int /\ v * m \in Int /\ v * r \in Int /\ u * n \in Int
      BY <2>1, Products
    <3>2. v * m = v * (n * q) + v * r
      BY <2>1, <3>1, Regroup
    <3>3. (u - v * q) * n = u * n - (v * q) * n
      <4>1. n * (u - v * q) = n * u - n * (v * q)
        BY <2>1, <3>1, Regroup
      <4>2. n * (u - v * q) = (u - v * q) * n /\ n * u = u * n /\ n * (v * q) = (v * q) * n
        BY <2>1, <3>1, Products
      <4>3. QED  BY <4>1, <4>2
    <3>4. (v * q) * n = v * (n * q)
      <4>1. (v * q) * n = v * (q * n) /\ q * n = n * q
        BY <2>1, Regroup, Products
      <4>2. QED  BY <4>1
    <3>5. v * (n * q) \in Int
      BY <3>1, Products
    <3>6. QED  BY <2>5, <3>1, <3>2, <3>3, <3>4, <3>5
  <2>8. Combines(g, m, n)
    <3>1. v \in Int /\ u - v * q \in Int
      BY <2>1, Products
    <3>2. QED  BY <2>7, <3>1 DEF Combines
  <2>9. Finds(m, n)
    BY <2>2, <2>4, <2>6, <2>8 DEF Finds
  <2>10. QED  BY <1>3, <2>9
<1>7. QED  BY <1>5, <1>6

(* A factor both have in common comes out. *)
LEMMA GcdScales ==
    ASSUME NEW a \in Nat, NEW b \in Nat, NEW k \in Nat \ {0}
    PROVE  gcd[<<k * a, k * b>>] = k * gcd[<<a, b>>]
<1> DEFINE Holds(m, n) == gcd[<<k * m, k * n>>] = k * gcd[<<m, n>>]
           T == {n \in Nat : \E m \in Nat : ~Holds(m, n)}
<1> HIDE DEF Holds
<1>1. SUFFICES ASSUME T # {} PROVE FALSE
  BY DEF Holds
<1>2. PICK n \in T : \A j \in T : n <= j
  BY <1>1, LeastNatural
<1>3. PICK m \in Nat : ~Holds(m, n)
  BY <1>2
<1>4. n \in Nat /\ \A j \in Nat : j < n => j \notin T
  BY <1>2
<1>5. k * m \in Nat /\ k * n \in Nat
  BY <1>4, Products
<1>6. CASE n = 0
  <2>1. gcd[<<m, 0>>] = m /\ gcd[<<k * m, 0>>] = k * m
    BY <1>5, GcdStep
  <2>2. k * 0 = 0
    OBVIOUS
  <2>3. QED  BY <1>3, <1>6, <2>1, <2>2 DEF Holds
<1>7. CASE n # 0
  <2> DEFINE r == m % n
  <2>1. r \in Nat /\ r < n /\ n \in Nat \ {0}
    BY <1>4, <1>7, Division
  <2>2. gcd[<<m, n>>] = gcd[<<n, r>>]
    BY <1>4, <1>7, GcdStep
  <2>3. k * n # 0
    BY <2>1, Products
  <2>4. (k * m) % (k * n) = k * r
    BY <2>1, ScaledDivision
  <2>5. gcd[<<k * m, k * n>>] = gcd[<<k * n, k * r>>]
    BY <1>5, <2>3, <2>4, GcdStep
  <2>6. Holds(n, r)
    BY <1>4, <2>1
  <2>7. QED  BY <1>3, <2>2, <2>5, <2>6 DEF Holds
<1>8. QED  BY <1>6, <1>7

LEMMA DividesFactor ==
    ASSUME NEW d \in Nat \ {0}, NEW n \in Nat, Divides(d, n)
    PROVE  n \div d \in Nat /\ n = d * (n \div d)
<1>1. PICK q \in Nat : n = d * q
  BY DEF Divides
<1>2. n = d * q + 0 /\ 0 < d
  BY <1>1, Products
<1>3. n \div d = q
  BY <1>2, DivisionIs
<1>4. QED  BY <1>1, <1>3

----------------------------------------------------------------------------
(* Fractions in lowest terms. *)

LEMMA SizeType == \A n \in Int : Size(n) \in Nat /\ (Size(n) = 0 <=> n = 0) /\ Size(-n) = Size(n)
  BY DEF Size

LEMMA SizeScales ==
    ASSUME NEW n \in Int, NEW k \in Nat \ {0}
    PROVE  Size(k * n) = k * Size(n) /\ (k * n < 0 <=> n < 0)
<1>1. CASE n >= 0
  <2>1. k * n >= 0
    BY <1>1, Products
  <2>2. QED  BY <1>1, <2>1, Products DEF Size
<1>2. CASE n < 0
  <2>1. k * (-n) > 0 /\ k * (-n) = -(k * n) /\ k * n \in Int
    <3>1. -n > 0 /\ -n \in Int
      BY <1>2
    <3>2. k * (-n) > 0
      BY <3>1, Products
    <3>3. k * (-n) = -(k * n) /\ k * n \in Int
      OBVIOUS
    <3>4. QED  BY <3>2, <3>3
  <2>2. QED  BY <1>2, <2>1 DEF Size
<1>3. QED  BY <1>1, <1>2

(* Nothing is left to cancel. *)
Reduced == {a \in Fraction : gcd[<<Size(a.num), a.den>>] = 1}

(* Ratio cancels the greatest common divisor k. *)
LEMMA RatioCancels ==
    ASSUME NEW n \in Int, NEW d \in Nat \ {0}
    PROVE  /\ Ratio(n, d) \in Reduced
           /\ \E k \in Nat \ {0} : n = k * Ratio(n, d).num /\ d = k * Ratio(n, d).den
<1> DEFINE m == Size(n)
           g == gcd[<<m, d>>]
           p == m \div g
           e == d \div g
<1>1. m \in Nat
  BY SizeType
<1>2. g \in Nat \ {0} /\ Divides(g, m) /\ Divides(g, d)
  <2> HIDE DEF m
  <2>1. Finds(m, d)
    BY <1>1, GcdFinds
  <2>2. QED  BY <1>1, <2>1 DEF Finds
<1>3. p \in Nat /\ m = g * p /\ e \in Nat /\ d = g * e
  <2> HIDE DEF m, g
  <2>1. QED  BY <1>1, <1>2, DividesFactor
<1>4. e # 0
  <2>1. g * 0 = 0
    BY <1>2
  <2>2. QED  BY <1>3, <2>1
<1>5. gcd[<<p, e>>] = 1
  <2>1. g = g * gcd[<<p, e>>]
    <3>1. gcd[<<g * p, g * e>>] = g * gcd[<<p, e>>]
      <4> HIDE DEF g, p, e
      <4>1. QED  BY <1>2, <1>3, GcdScales
    <3>2. QED  BY <1>3, <3>1
  <2>2. gcd[<<p, e>>] \in Nat
    <3> HIDE DEF p, e
    <3>1. QED  BY <1>3, GcdFinds DEF Finds
  <2> DEFINE c == gcd[<<p, e>>]
  <2> HIDE DEF c, g
  <2>3. c \in Int /\ 1 * g = c * g /\ 1 \in Int
    BY <1>2, <2>1, <2>2, Products DEF c
  <2>4. 1 = c
    BY <1>2, <2>3, Cancels
  <2>5. QED  BY <2>4 DEF c
<1>6. Ratio(n, d) = [num |-> IF n < 0 THEN -p ELSE n \div g, den |-> e]
  BY DEF Ratio
<1>7. n >= 0 => m = n
  BY DEF Size
<1>8. n < 0 => m = -n
  BY DEF Size
<1> DEFINE x == IF n < 0 THEN -p ELSE p
<1>9. Ratio(n, d) = [num |-> x, den |-> e]
  BY <1>6, <1>7
<1>10. n = g * x
  <2> HIDE DEF p, g, m
  <2>1. g * (-p) = -(g * p) /\ g * p \in Int
    BY <1>2, <1>3
  <2>2. QED  BY <1>3, <1>7, <1>8, <2>1
<1>11. Size(x) = p /\ x \in Int
  <2> HIDE DEF p
  <2>1. CASE n < 0
    <3>1. n < 0 => p # 0
      <4>1. g * 0 = 0
        BY <1>2
      <4>2. QED  BY <1>3, <1>8, <4>1
    <3>2. QED  BY <1>3, <2>1, <3>1 DEF Size
  <2>2. CASE ~(n < 0)
    BY <1>3, <2>2 DEF Size
  <2>3. QED  BY <2>1, <2>2
<1> HIDE DEF x, e, p, g
<1>12. Ratio(n, d) \in Reduced
  BY <1>3, <1>4, <1>5, <1>9, <1>11 DEF Reduced, Fraction
<1>13. n = g * Ratio(n, d).num /\ d = g * Ratio(n, d).den
  BY <1>3, <1>9, <1>10
<1>14. QED  BY <1>2, <1>12, <1>13

(* Reduced fractions are written in one way only. *)
LEMMA OneForm ==
    ASSUME NEW a \in Reduced, NEW b \in Reduced, Same(a, b)
    PROVE  a = b
<1>1. /\ a \in Fraction /\ b \in Fraction
      /\ a.num \in Int /\ a.den \in Nat \ {0} /\ b.num \in Int /\ b.den \in Nat \ {0}
  BY DEF Reduced, Fraction
<1> DEFINE m == Size(a.num)
           n == Size(b.num)
           d == a.den
           e == b.den
<1>2. m \in Nat /\ n \in Nat /\ d \in Nat \ {0} /\ e \in Nat \ {0}
  BY <1>1, SizeType
<1>3. gcd[<<m, d>>] = 1 /\ gcd[<<n, e>>] = 1
  BY DEF Reduced
<1>4. e * m = d * n
  <2>1. a.num * e = e * a.num /\ b.num * d = d * b.num
    BY <1>1, Products
  <2>2. e * a.num = d * b.num
    BY <2>1 DEF Same
  <2>3. Size(e * a.num) = e * m /\ Size(d * b.num) = d * n
    BY <1>1, SizeScales
  <2>4. QED  BY <2>2, <2>3
<1>5. d = e
  <2> HIDE DEF m, n, d, e
  <2>1. gcd[<<e * m, e * d>>] = e * gcd[<<m, d>>]
    BY <1>2, GcdScales
  <2>2. gcd[<<d * n, d * e>>] = d * gcd[<<n, e>>]
    BY <1>2, GcdScales
  <2>3. e * d = d * e /\ e * 1 = e /\ d * 1 = d
    BY <1>2
  <2>4. QED  BY <1>3, <1>4, <2>1, <2>2, <2>3
<1>6. a.num = b.num
  <2>1. a.num * d = b.num * d
    BY <1>5 DEF Same
  <2>2. QED  BY <1>1, <2>1, Cancels
<1>7. QED  BY <1>1, <1>5, <1>6 DEF Fraction

LEMMA Parts == \A a \in Fraction : a.num \in Int /\ a.den \in Int /\ a.den > 0 /\ a.den \in Nat \ {0}
  BY DEF Fraction

LEMMA ReducedParts == \A a \in Reduced : a \in Fraction
  BY DEF Reduced

(* The reduced form of a fraction. *)
Norm(a) == Ratio(a.num, a.den)

LEMMA NormSame ==
    ASSUME NEW a \in Fraction
    PROVE  Norm(a) \in Reduced /\ Norm(a) \in Fraction /\ Same(Norm(a), a)
<1>1. a.num \in Int /\ a.den \in Nat \ {0}
  BY Parts
<1> DEFINE r == Ratio(a.num, a.den)
<1>2. r \in Reduced
  BY <1>1, RatioCancels
<1>3. PICK k \in Nat \ {0} : a.num = k * r.num /\ a.den = k * r.den
  BY <1>1, RatioCancels
<1>4. r \in Fraction /\ r.num \in Int /\ r.den \in Int
  BY <1>2, ReducedParts, Parts
<1> HIDE DEF r
<1>5. r.num * (k * r.den) = (k * r.num) * r.den
  <2> DEFINE p == r.num
             q == r.den
  <2>1. p \in Int /\ q \in Int
    BY <1>4
  <2> HIDE DEF p, q
  <2>2. p * (k * q) = (k * p) * q
    BY <2>1
  <2>3. QED  BY <2>2 DEF p, q
<1>6. Same(r, a)
  BY <1>3, <1>5 DEF Same
<1>7. QED  BY <1>2, <1>4, <1>6 DEF Norm, r

LEMMA SameSymmetric == ASSUME NEW a, NEW b, Same(a, b) PROVE Same(b, a)
  BY DEF Same

LEMMA SameTransitive ==
    ASSUME NEW a \in Fraction, NEW b \in Fraction, NEW c \in Fraction,
           Same(a, b), Same(b, c)
    PROVE  Same(a, c)
<1>1. /\ a.num \in Int /\ b.num \in Int /\ c.num \in Int
      /\ a.den \in Nat \ {0} /\ b.den \in Nat \ {0} /\ c.den \in Nat \ {0}
  BY DEF Fraction
<1>2. a.num * b.den = b.num * a.den /\ b.num * c.den = c.num * b.den
  BY DEF Same
<1> DEFINE x == a.num * c.den
           y == c.num * a.den
<1>3. x \in Int /\ y \in Int
  BY <1>1
<1>4. x * b.den = (a.num * b.den) * c.den /\ y * b.den = (c.num * b.den) * a.den
  BY <1>1
<1>5. (b.num * a.den) * c.den = (b.num * c.den) * a.den
  BY <1>1
<1>6. x * b.den = y * b.den
  BY <1>2, <1>4, <1>5
<1> HIDE DEF x, y
<1>7. x = y
  BY <1>1, <1>3, <1>6, Cancels
<1>8. QED  BY <1>7 DEF x, y, Same

LEMMA NormOne ==
    ASSUME NEW a \in Fraction, NEW b \in Fraction, Same(a, b)
    PROVE  Norm(a) = Norm(b)
<1>1. /\ Norm(a) \in Reduced /\ Norm(a) \in Fraction /\ Same(Norm(a), a)
      /\ Norm(b) \in Reduced /\ Norm(b) \in Fraction /\ Same(Norm(b), b)
  BY NormSame
<1>2. Same(Norm(a), b)
  BY <1>1, SameTransitive
<1>3. Same(Norm(a), Norm(b))
  <2>1. Same(b, Norm(b))
    BY <1>1, SameSymmetric
  <2>2. QED  BY <1>1, <1>2, <2>1, SameTransitive
<1>4. QED  BY <1>1, <1>3, OneForm

LEMMA NormOwn == ASSUME NEW a \in Reduced PROVE Norm(a) = a
  BY NormSame, OneForm, ReducedParts

(* Products. *)
Times(a, b) == [num |-> a.num * b.num, den |-> a.den * b.den]

LEMMA FractionTypes ==
    ASSUME NEW a \in Fraction, NEW b \in Fraction
    PROVE  Plus(a, b) \in Fraction /\ Times(a, b) \in Fraction
<1>1. /\ a.num \in Int /\ b.num \in Int /\ a.den \in Int /\ b.den \in Int
      /\ a.den > 0 /\ b.den > 0
  BY Parts
<1>2. /\ a.num * b.num \in Int /\ a.num * b.den \in Int /\ b.num * a.den \in Int
      /\ a.den * b.den \in Int /\ a.den * b.den > 0
  BY <1>1, Products
<1>3. a.den * b.den \in Nat \ {0} /\ a.num * b.den + b.num * a.den \in Int
  BY <1>2
<1>4. QED  BY <1>2, <1>3 DEF Plus, Times, Fraction

LEMMA SameTimes ==
    ASSUME NEW a \in Fraction, NEW b \in Fraction, NEW c \in Fraction, Same(a, b)
    PROVE  Same(Times(a, c), Times(b, c)) /\ Same(Times(c, a), Times(c, b))
<1> DEFINE p == a.num
           q == b.num
           r == c.num
           x == a.den
           y == b.den
           z == c.den
<1>1. p \in Int /\ q \in Int /\ r \in Int /\ x \in Int /\ y \in Int /\ z \in Int
  BY Parts
<1>2. p * y = q * x
  BY DEF Same
<1> HIDE DEF p, q, r, x, y, z
<1>3. (p * r) * (y * z) = (p * y) * (r * z) /\ (q * r) * (x * z) = (q * x) * (r * z)
  BY <1>1
<1>4. (r * p) * (z * y) = (p * y) * (r * z) /\ (r * q) * (z * x) = (q * x) * (r * z)
  BY <1>1
<1>5. (p * r) * (y * z) = (q * r) * (x * z) /\ (r * p) * (z * y) = (r * q) * (z * x)
  BY <1>2, <1>3, <1>4
<1>6. QED  BY <1>5 DEF Same, Times, p, q, r, x, y, z

LEMMA SameSums ==
    ASSUME NEW a \in Fraction, NEW b \in Fraction, NEW c \in Fraction, Same(a, b)
    PROVE  Same(Plus(a, c), Plus(b, c)) /\ Same(Plus(c, a), Plus(c, b))
<1> DEFINE p == a.num
           q == b.num
           r == c.num
           x == a.den
           y == b.den
           z == c.den
<1>1. p \in Int /\ q \in Int /\ r \in Int /\ x \in Int /\ y \in Int /\ z \in Int
  BY Parts
<1>2. p * y = q * x
  BY DEF Same
<1> HIDE DEF p, q, r, x, y, z
<1>3. (p * z + r * x) * (y * z) = (p * y) * (z * z) + (r * z) * (x * y)
  <2>1. (p * z + r * x) * (y * z) = (p * z) * (y * z) + (r * x) * (y * z)
    BY <1>1
  <2>2. (p * z) * (y * z) = (p * y) * (z * z) /\ (r * x) * (y * z) = (r * z) * (x * y)
    BY <1>1
  <2>3. QED  BY <2>1, <2>2
<1>4. (q * z + r * y) * (x * z) = (q * x) * (z * z) + (r * z) * (x * y)
  <2>1. (q * z + r * y) * (x * z) = (q * z) * (x * z) + (r * y) * (x * z)
    BY <1>1
  <2>2. (q * z) * (x * z) = (q * x) * (z * z) /\ (r * y) * (x * z) = (r * z) * (x * y)
    BY <1>1
  <2>3. QED  BY <2>1, <2>2
<1>5. /\ r * x + p * z = p * z + r * x /\ z * y = y * z
      /\ r * y + q * z = q * z + r * y /\ z * x = x * z
  BY <1>1
<1>6. (p * z + r * x) * (y * z) = (q * z + r * y) * (x * z)
  BY <1>2, <1>3, <1>4
<1>7. (r * x + p * z) * (z * y) = (r * y + q * z) * (z * x)
  BY <1>5, <1>6
<1>8. QED  BY <1>6, <1>7 DEF Same, Plus, p, q, r, x, y, z

(* A sum may be taken of the reduced forms. *)
LEMMA NormSum ==
    ASSUME NEW a \in Fraction, NEW b \in Fraction
    PROVE  Norm(Plus(Norm(a), b)) = Norm(Plus(a, b)) /\ Norm(Plus(b, Norm(a))) = Norm(Plus(b, a))
<1>1. Norm(a) \in Fraction /\ Same(Norm(a), a)
  BY NormSame
<1>2. /\ Plus(Norm(a), b) \in Fraction /\ Plus(a, b) \in Fraction
      /\ Plus(b, Norm(a)) \in Fraction /\ Plus(b, a) \in Fraction
  BY <1>1, FractionTypes
<1>3. Same(Plus(Norm(a), b), Plus(a, b)) /\ Same(Plus(b, Norm(a)), Plus(b, a))
  BY <1>1, SameSums
<1>4. QED  BY <1>2, <1>3, NormOne

LEMMA NormProduct ==
    ASSUME NEW a \in Fraction, NEW b \in Fraction
    PROVE  Norm(Times(Norm(a), b)) = Norm(Times(a, b)) /\ Norm(Times(b, Norm(a))) = Norm(Times(b, a))
<1>1. Norm(a) \in Fraction /\ Same(Norm(a), a)
  BY NormSame
<1>2. /\ Times(Norm(a), b) \in Fraction /\ Times(a, b) \in Fraction
      /\ Times(b, Norm(a)) \in Fraction /\ Times(b, a) \in Fraction
  BY <1>1, FractionTypes
<1>3. Same(Times(Norm(a), b), Times(a, b)) /\ Same(Times(b, Norm(a)), Times(b, a))
  BY <1>1, SameTimes
<1>4. QED  BY <1>2, <1>3, NormOne

(* Add is the reduced form of the sum. *)
LEMMA AddIs ==
    ASSUME NEW a \in Fraction, NEW b \in Fraction
    PROVE  Add(a, b) = Norm(Plus(a, b))
<1> DEFINE g == gcd[<<a.den, b.den>>]
           p == b.den \div g
           q == a.den \div g
           s == [num |-> a.num * p + b.num * q, den |-> a.den * p]
<1>1. /\ a.num \in Int /\ b.num \in Int /\ a.den \in Nat \ {0} /\ b.den \in Nat \ {0}
  BY Parts
<1>2. g \in Nat \ {0} /\ Divides(g, a.den) /\ Divides(g, b.den)
  <2>1. Finds(a.den, b.den)
    BY <1>1, GcdFinds
  <2>2. QED  BY <1>1, <2>1 DEF Finds
<1>3. p \in Nat /\ b.den = g * p /\ q \in Nat /\ a.den = g * q
  <2> DEFINE x == a.den
             y == b.den
  <2>1. x \in Nat /\ y \in Nat /\ g \in Nat \ {0} /\ Divides(g, x) /\ Divides(g, y)
    BY <1>1, <1>2
  <2> HIDE DEF g, x, y
  <2>2. x \div g \in Nat /\ x = g * (x \div g) /\ y \div g \in Nat /\ y = g * (y \div g)
    BY <2>1, DividesFactor
  <2>3. QED  BY <2>2 DEF x, y
<1> HIDE DEF p, q, g
<1>4. p # 0
  <2>1. g * 0 = 0
    BY <1>2
  <2>2. QED  BY <1>1, <1>3, <2>1
<1>5. s \in Fraction
  <2>1. /\ a.num * p \in Int /\ b.num * q \in Int /\ a.den * p \in Int /\ a.den * p > 0
    BY <1>1, <1>3, <1>4, Products
  <2>2. QED  BY <2>1 DEF Fraction
<1>6. Same(s, Plus(a, b))
  <2> DEFINE m == a.num
             n == b.num
             d == a.den
             e == b.den
  <2>1. m \in Int /\ n \in Int /\ d \in Int /\ e \in Int /\ p \in Int /\ q \in Int /\ g \in Int
        /\ e = g * p /\ d = g * q
    BY <1>1, <1>2, <1>3
  <2> HIDE DEF m, n, d, e
  <2>2. (m * p + n * q) * (d * e) = (m * e + n * d) * (d * p)
    <3>1. m * e = g * (m * p) /\ n * d = g * (n * q)
      BY <2>1
    <3> DEFINE t == m * p + n * q
               u == m * p
               v == n * q
    <3>2. u \in Int /\ v \in Int /\ t = u + v
      BY <2>1, Products
    <3> HIDE DEF t, u, v
    <3>3. m * e + n * d = g * t
      <4>1. g * t = g * u + g * v
        BY <2>1, <3>2, Regroup
      <4>2. QED  BY <3>1, <4>1 DEF u, v
    <3>4. t * (d * (g * p)) = (g * t) * (d * p)
      BY <2>1, <3>2
    <3>5. t * (d * e) = (m * e + n * d) * (d * p)
      BY <2>1, <3>3, <3>4
    <3>6. QED  BY <3>5 DEF t
  <2>3. QED  BY <2>2 DEF Same, Plus, m, n, d, e
<1>7. Add(a, b) = Norm(s)
  BY DEF Add, Norm, g, p, q
<1>8. QED  BY <1>5, <1>6, <1>7, NormOne, FractionTypes

(* Being in lowest terms, by a combination that gives 1.                    *)
LEMMA ReducedCombines ==
    ASSUME NEW a \in Fraction
    PROVE  a \in Reduced <=> Combines(1, a.num, a.den)
<1> DEFINE n == a.num
           d == a.den
           m == Size(n)
           g == gcd[<<m, d>>]
<1>1. n \in Int /\ d \in Nat \ {0} /\ m \in Nat
  BY Parts, SizeType
<1>2. g \in Nat \ {0} /\ Divides(g, m) /\ Divides(g, d) /\ Combines(g, m, d)
  <2> HIDE DEF m, d
  <2>1. QED  BY <1>1, GcdFinds DEF Finds
<1>3. a \in Reduced <=> g = 1
  BY DEF Reduced
<1>4. m = n \/ m = -n
  BY DEF Size
<1> HIDE DEF n, d, m, g
<1>5. ASSUME g = 1 PROVE Combines(1, n, d)
  <2>1. PICK u, v \in Int : 1 = u * m + v * d
    BY <1>2, <1>5 DEF Combines
  <2>2. CASE m = n
    BY <2>1, <2>2 DEF Combines
  <2>3. CASE m = -n
    <3>1. u * (-n) = (-u) * n /\ -u \in Int
      BY <1>1, <2>1
    <3>2. 1 = (-u) * n + v * d
      BY <2>1, <2>3, <3>1
    <3>3. QED  BY <2>1, <3>1, <3>2 DEF Combines
  <2>4. QED  BY <1>4, <2>2, <2>3
<1>6. ASSUME Combines(1, n, d) PROVE g = 1
  <2>1. PICK u, v \in Int : 1 = u * n + v * d
    BY <1>6 DEF Combines
  <2>2. PICK x \in Nat : m = g * x
    BY <1>2 DEF Divides
  <2>3. PICK y \in Nat : d = g * y
    BY <1>2 DEF Divides
  <2>4. PICK z \in Int : n = g * z
    <3>1. CASE m = n
      BY <2>2, <3>1
    <3>2. CASE m = -n
      <4>1. n = g * (-x) /\ -x \in Int
        BY <1>1, <1>2, <2>2, <3>2
      <4>2. QED  BY <4>1
    <3>3. QED  BY <1>4, <3>1, <3>2
  <2> DEFINE w == u * z + v * y
  <2>5. w \in Int /\ u * z \in Int /\ v * y \in Int
    BY <2>1, <2>2, <2>3, <2>4, Products
  <2>6. 1 = g * w
    <3>1. u * n = g * (u * z) /\ v * d = g * (v * y)
      BY <1>2, <2>1, <2>3, <2>4
    <3>2. g * w = g * (u * z) + g * (v * y)
      BY <1>2, <2>5, Regroup
    <3>3. QED  BY <2>1, <3>1, <3>2
  <2> HIDE DEF w
  <2>7. w > 0
    <3>1. SUFFICES ASSUME w <= 0 PROVE FALSE
      BY <2>5
    <3>2. -w >= 0 /\ -w \in Int
      BY <2>5, <3>1
    <3>3. g * (-w) >= 0
      BY <1>2, <3>2, Products
    <3>4. g * (-w) = -(g * w) /\ g * w \in Int
      BY <1>2, <2>5
    <3>5. QED  BY <2>6, <3>3, <3>4
  <2>8. g * w = g + g * (w - 1) /\ g * (w - 1) >= 0 /\ g * (w - 1) \in Int
    <3>1. w - 1 >= 0 /\ w - 1 \in Int /\ g \in Int
      BY <1>2, <2>5, <2>7
    <3>2. g * (w - 1) >= 0 /\ g * (w - 1) \in Int
      BY <1>2, <3>1, Products
    <3>3. g * (w - 1) = g * w - g * 1
      BY <2>5, <3>1, Regroup
    <3>4. g * w \in Int /\ g * 1 = g
      BY <2>5, <3>1, Products
    <3>5. QED  BY <3>1, <3>2, <3>3, <3>4
  <2>9. QED  BY <1>2, <2>6, <2>8
<1>7. QED  BY <1>3, <1>5, <1>6 DEF n, d

LEMMA CombinesFactors ==
    ASSUME NEW n \in Int, NEW d \in Int, NEW k \in Int, NEW l \in Int, Combines(1, k * n, l * d)
    PROVE  Combines(1, n, d)
<1>1. PICK u, v \in Int : 1 = u * (k * n) + v * (l * d)
  BY DEF Combines
<1>2. u * (k * n) = (u * k) * n /\ v * (l * d) = (v * l) * d
  BY <1>1
<1>3. u * k \in Int /\ v * l \in Int
  BY <1>1, Products
<1>4. 1 = (u * k) * n + (v * l) * d
  BY <1>1, <1>2
<1>5. QED  BY <1>3, <1>4 DEF Combines

LEMMA CombinesTurned ==
    ASSUME NEW n \in Int, NEW d \in Int, Combines(1, n, d)
    PROVE  Combines(1, d, n)
<1>1. PICK u, v \in Int : 1 = u * n + v * d
  BY DEF Combines
<1>2. u * n \in Int /\ v * d \in Int
  BY <1>1, Products
<1>3. 1 = v * d + u * n
  BY <1>1, <1>2
<1>4. QED  BY <1>1, <1>3 DEF Combines

LEMMA CombinesProduct ==
    ASSUME NEW n \in Int, NEW d \in Int, NEW e \in Int, Combines(1, n, d), Combines(1, n, e)
    PROVE  Combines(1, n, d * e)
<1>1. PICK u, v \in Int : 1 = u * n + v * d
  BY DEF Combines
<1>2. PICK x, y \in Int : 1 = x * n + y * e
  BY DEF Combines
<1> DEFINE p == x * n + y * e
           r == v * d
<1>3. /\ u * n \in Int /\ v * d \in Int /\ x * n \in Int /\ y * e \in Int
      /\ v * y \in Int /\ d * e \in Int /\ r * x \in Int /\ r \in Int /\ u + r * x \in Int
      /\ (r * x) * n \in Int /\ (v * y) * (d * e) \in Int
  BY <1>1, <1>2, Products
<1>4. r = r * (x * n) + r * (y * e)
  <2>1. r * p = r * (x * n) + r * (y * e)
    BY <1>3, Regroup
  <2>2. r * 1 = r /\ p = 1
    BY <1>2, <1>3
  <2>3. QED  BY <2>1, <2>2
<1>5. r * (x * n) = (r * x) * n
  BY <1>2, <1>3, Regroup
<1>6. r * (y * e) = (v * y) * (d * e)
  <2>1. (v * d) * (y * e) = (v * y) * (d * e)
    BY <1>1, <1>2
  <2>2. QED  BY <2>1
<1>7. (u + r * x) * n = u * n + (r * x) * n
  <2> DEFINE t == r * x
  <2>1. t \in Int
    BY <1>3
  <2> HIDE DEF t
  <2>2. (u + t) * n = u * n + t * n
    BY <1>1, <2>1, Regroup
  <2>3. QED  BY <2>2 DEF t
<1> DEFINE w == u + r * x
           z == v * y
<1>8. 1 = w * n + z * (d * e)
  <2> HIDE DEF r
  <2>1. 1 = u * n + r
    BY <1>1 DEF r
  <2>2. QED  BY <1>3, <1>4, <1>5, <1>6, <1>7, <2>1
<1>9. w \in Int /\ z \in Int
  BY <1>3
<1> HIDE DEF w, z
<1>10. QED  BY <1>8, <1>9 DEF Combines

(* Mul is the reduced form of the product. *)
LEMMA MulIs ==
    ASSUME NEW a \in Reduced, NEW b \in Reduced
    PROVE  Mul(a, b) \in Reduced /\ Mul(a, b) = Norm(Times(a, b))
<1> DEFINE x == Ratio(a.num, b.den)
           y == Ratio(b.num, a.den)
           p == x.num
           q == x.den
           r == y.num
           s == y.den
           m == [num |-> p * r, den |-> q * s]
<1>1. /\ a \in Fraction /\ a.num \in Int /\ a.den \in Nat \ {0}
      /\ b \in Fraction /\ b.num \in Int /\ b.den \in Nat \ {0}
  BY ReducedParts, Parts
<1>2. x \in Reduced /\ y \in Reduced
  BY <1>1, RatioCancels
<1>3. PICK k \in Nat \ {0} : a.num = k * x.num /\ b.den = k * x.den
  BY <1>1, RatioCancels
<1>4. PICK l \in Nat \ {0} : b.num = l * y.num /\ a.den = l * y.den
  BY <1>1, RatioCancels
<1>5. p \in Int /\ q \in Nat \ {0} /\ r \in Int /\ s \in Nat \ {0}
  BY <1>2, ReducedParts, Parts
<1>6. Combines(1, p, q) /\ Combines(1, r, s)
  BY <1>2, ReducedParts, ReducedCombines
<1>7. Combines(1, k * p, l * s) /\ Combines(1, l * r, k * q)
  BY <1>1, <1>3, <1>4, ReducedCombines
<1>8. Mul(a, b) = m
  BY DEF Mul
<1>9. a.num = k * p /\ b.den = k * q /\ b.num = l * r /\ a.den = l * s
  BY <1>3, <1>4
<1> HIDE DEF x, y, p, q, r, s
<1>10. Combines(1, p, s) /\ Combines(1, r, q)
  <2>1. p \in Int /\ q \in Int /\ r \in Int /\ s \in Int /\ k \in Int /\ l \in Int
    BY <1>5
  <2>2. Combines(1, p, s)
    BY <1>7, <2>1, CombinesFactors
  <2>3. Combines(1, r, q)
    BY <1>7, <2>1, CombinesFactors
  <2>4. QED  BY <2>2, <2>3
<1>11. p * r \in Int /\ q * s \in Int /\ q * s > 0
  BY <1>5, Products
<1>12. Combines(1, p * r, q * s)
  <2>1. Combines(1, q, p) /\ Combines(1, q, r) /\ Combines(1, s, p) /\ Combines(1, s, r)
    BY <1>5, <1>6, <1>10, CombinesTurned
  <2>2. Combines(1, q, p * r) /\ Combines(1, s, p * r)
    BY <1>5, <2>1, CombinesProduct
  <2> DEFINE n == p * r
  <2>3. n \in Int /\ Combines(1, q, n) /\ Combines(1, s, n)
    BY <1>11, <2>2
  <2> HIDE DEF n
  <2>4. Combines(1, n, q) /\ Combines(1, n, s)
    BY <1>5, <2>3, CombinesTurned
  <2>5. Combines(1, n, q * s)
    BY <1>5, <2>3, <2>4, CombinesProduct
  <2>6. QED  BY <2>5 DEF n
<1>13. m \in Fraction /\ m.num = p * r /\ m.den = q * s
  BY <1>11 DEF Fraction
<1>14. m \in Reduced
  BY <1>12, <1>13, ReducedCombines
<1>15. Same(m, Times(a, b))
  <2>1. (p * r) * ((l * s) * (k * q)) = ((k * p) * (l * r)) * (q * s)
    BY <1>5
  <2>2. QED  BY <1>9, <2>1 DEF Same, Times
<1>16. Times(a, b) \in Fraction
  BY <1>1, FractionTypes
<1>17. m = Norm(Times(a, b))
  <2>1. Norm(m) = Norm(Times(a, b))
    BY <1>13, <1>15, <1>16, NormOne
  <2>2. QED  BY <1>14, <2>1, NormOwn
<1>18. QED  BY <1>8, <1>14, <1>17

----------------------------------------------------------------------------
(* Over a common denominator: what is linear in fractions is linear in the  *)
(* integers above it.                                                       *)

Nths(n, d) == [num |-> n, den |-> d]

LEMMA NthsType ==
    ASSUME NEW n \in Int, NEW d \in Nat \ {0}
    PROVE  /\ Nths(n, d) \in Fraction
           /\ Nths(n, d).num = n /\ Nths(n, d).den = d
           /\ Ratio(n, d) = Norm(Nths(n, d))
  BY DEF Nths, Norm, Fraction

LEMMA SameSign ==
    ASSUME NEW a \in Fraction, NEW b \in Fraction, Same(a, b)
    PROVE  (a.num > 0 <=> b.num > 0) /\ (a.num < 0 <=> b.num < 0)
<1> DEFINE m == a.num
           n == b.num
           d == a.den
           e == b.den
<1>1. m \in Int /\ n \in Int /\ d \in Nat \ {0} /\ e \in Nat \ {0}
  BY Parts
<1>2. m * e = n * d
  BY DEF Same
<1> HIDE DEF m, n, d, e
<1>3. ASSUME NEW x \in Int, NEW y \in Nat \ {0}
      PROVE  (x * y > 0 <=> x > 0) /\ (x * y < 0 <=> x < 0)
  <2>1. CASE x > 0
    BY <2>1, Products
  <2>2. CASE x = 0
    <3>1. 0 * y = 0
      OBVIOUS
    <3>2. QED  BY <2>2, <3>1
  <2>3. CASE x < 0
    <3>1. -x > 0 /\ -x \in Int
      BY <2>3
    <3>2. (-x) * y > 0
      BY <3>1, Products
    <3>3. (-x) * y = -(x * y) /\ x * y \in Int
      OBVIOUS
    <3>4. QED  BY <2>3, <3>2, <3>3
  <2>4. QED  BY <2>1, <2>2, <2>3
<1>4. (m * e > 0 <=> m > 0) /\ (m * e < 0 <=> m < 0) /\ (n * d > 0 <=> n > 0) /\ (n * d < 0 <=> n < 0)
  BY <1>1, <1>3
<1>5. (m > 0 <=> n > 0) /\ (m < 0 <=> n < 0)
  BY <1>2, <1>4
<1>6. QED  BY <1>5 DEF m, n

LEMMA RatioSign ==
    ASSUME NEW n \in Int, NEW d \in Nat \ {0}
    PROVE  /\ Ratio(n, d) \in Reduced
           /\ Ratio(n, d).num > 0 <=> n > 0
           /\ Ratio(n, d).num < 0 <=> n < 0
           /\ Ratio(n, d).num <= 0 <=> n <= 0
           /\ Ratio(n, d).num >= 0 <=> n >= 0
           /\ Ratio(n, d).num = 0 <=> n = 0
<1>1. Nths(n, d) \in Fraction /\ Nths(n, d).num = n /\ Ratio(n, d) = Norm(Nths(n, d))
  BY NthsType
<1> DEFINE f == Nths(n, d)
           r == Ratio(n, d)
<1>2. r \in Reduced /\ r \in Fraction /\ Same(r, f) /\ f \in Fraction /\ f.num = n
  BY <1>1, NormSame
<1> HIDE DEF f, r
<1>3. (r.num > 0 <=> f.num > 0) /\ (r.num < 0 <=> f.num < 0) /\ r.num \in Int
  BY <1>2, SameSign, Parts
<1>4. QED  BY <1>2, <1>3 DEF r

LEMMA RatioSame ==
    ASSUME NEW m \in Int, NEW n \in Int, NEW d \in Nat \ {0}, NEW e \in Nat \ {0}, m * e = n * d
    PROVE  Ratio(m, d) = Ratio(n, e)
<1>1. Nths(m, d) \in Fraction /\ Nths(n, e) \in Fraction
  BY NthsType
<1>2. Same(Nths(m, d), Nths(n, e))
  BY DEF Nths, Same
<1>3. Norm(Nths(m, d)) = Norm(Nths(n, e))
  BY <1>1, <1>2, NormOne
<1>4. QED  BY <1>3, NthsType

LEMMA RatioAdd ==
    ASSUME NEW m \in Int, NEW n \in Int, NEW d \in Nat \ {0}
    PROVE  Add(Ratio(m, d), Ratio(n, d)) = Ratio(m + n, d)
<1> DEFINE f == Nths(m, d)
           h == Nths(n, d)
           s == Nths(m + n, d)
<1>1. /\ f \in Fraction /\ h \in Fraction /\ s \in Fraction
      /\ Ratio(m, d) = Norm(f) /\ Ratio(n, d) = Norm(h) /\ Ratio(m + n, d) = Norm(s)
  BY NthsType
<1>2. f.num = m /\ f.den = d /\ h.num = n /\ h.den = d /\ s.num = m + n /\ s.den = d
  BY NthsType
<1> HIDE DEF f, h, s
<1>3. Norm(f) \in Fraction /\ Norm(h) \in Fraction
  BY <1>1, NormSame
<1>4. Add(Norm(f), Norm(h)) = Norm(Plus(Norm(f), Norm(h)))
  BY <1>3, AddIs
<1>5. Norm(Plus(Norm(f), Norm(h))) = Norm(Plus(f, h))
  <2>1. Norm(Plus(Norm(f), Norm(h))) = Norm(Plus(f, Norm(h)))
    BY <1>1, <1>3, NormSum
  <2>2. Norm(Plus(f, Norm(h))) = Norm(Plus(f, h))
    BY <1>1, NormSum
  <2>3. QED  BY <2>1, <2>2
<1>6. Same(Plus(f, h), s)
  <2>1. (m * d + n * d) * d = (m + n) * (d * d)
    OBVIOUS
  <2>2. QED  BY <1>2, <2>1 DEF Same, Plus
<1>7. Norm(Plus(f, h)) = Norm(s)
  BY <1>1, <1>6, FractionTypes, NormOne
<1>8. QED  BY <1>1, <1>4, <1>5, <1>7

LEMMA RatioNeg ==
    ASSUME NEW m \in Int, NEW d \in Nat \ {0}
    PROVE  Neg(Ratio(m, d)) = Ratio(-m, d)
<1> DEFINE r == Ratio(m, d)
           p == r.num
           q == r.den
           t == [num |-> -p, den |-> q]
<1>1. r \in Reduced /\ r \in Fraction /\ p \in Int /\ q \in Nat \ {0} /\ r = [num |-> p, den |-> q]
  <2>1. r \in Reduced
    BY RatioSign
  <2>2. QED  BY <2>1, ReducedParts, Parts DEF Fraction
<1>2. Neg(r) = t
  BY <1>1 DEF Neg
<1>3. t \in Fraction
  BY <1>1 DEF Fraction
<1>4. t \in Reduced
  BY <1>1, <1>3, SizeType DEF Reduced
<1>5. Same(t, Nths(-m, d))
  <2>1. p * d = m * q
    <3>1. Same(r, Nths(m, d))
      BY NthsType, NormSame
    <3>2. QED  BY <3>1 DEF Same, Nths
  <2> HIDE DEF p, q
  <2>2. (-p) * d = -(p * d) /\ (-m) * q = -(m * q)
    BY <1>1
  <2>3. QED  BY <2>1, <2>2 DEF Same, Nths
<1>6. Nths(-m, d) \in Fraction /\ Ratio(-m, d) = Norm(Nths(-m, d))
  BY NthsType
<1>7. t = Ratio(-m, d)
  <2>1. Norm(t) = Norm(Nths(-m, d))
    BY <1>3, <1>5, <1>6, NormOne
  <2>2. QED  BY <1>4, <1>6, <2>1, NormOwn
<1>8. QED  BY <1>2, <1>7

LEMMA RatioSub ==
    ASSUME NEW m \in Int, NEW n \in Int, NEW d \in Nat \ {0}
    PROVE  Sub(Ratio(m, d), Ratio(n, d)) = Ratio(m - n, d)
<1>1. -n \in Int /\ m + (-n) = m - n
  OBVIOUS
<1>2. Add(Ratio(m, d), Ratio(-n, d)) = Ratio(m + (-n), d)
  BY <1>1, RatioAdd
<1>3. QED  BY <1>1, <1>2, RatioNeg DEF Sub

LEMMA RatioOrder ==
    ASSUME NEW m \in Int, NEW n \in Int, NEW d \in Nat \ {0}
    PROVE  /\ Leq(Ratio(m, d), Ratio(n, d)) <=> m <= n
           /\ Ratio(m, d) = Ratio(n, d) <=> m = n
<1>1. Sub(Ratio(m, d), Ratio(n, d)) = Ratio(m - n, d) /\ m - n \in Int
  BY RatioSub
<1>2. Leq(Ratio(m, d), Ratio(n, d)) <=> m - n <= 0
  BY <1>1, RatioSign DEF Leq
<1>3. ASSUME Ratio(m, d) = Ratio(n, d) PROVE m = n
  <2>1. Ratio(m - n, d) = Ratio(n - n, d)
    BY <1>1, <1>3, RatioSub
  <2>2. n - n = 0 /\ 0 \in Int
    OBVIOUS
  <2>3. Ratio(0, d).num = 0
    BY <2>2, RatioSign
  <2>4. m - n = 0
    BY <1>1, <2>1, <2>2, <2>3, RatioSign
  <2>5. QED  BY <2>4
<1>4. QED  BY <1>2, <1>3

(* a is a number of d-ths. *)
In(a, d) == \E n \in Int : a = Ratio(n, d)

LEMMA InLarger ==
    ASSUME NEW d \in Nat \ {0}, NEW e \in Nat \ {0}, NEW a, In(a, d)
    PROVE  In(a, d * e)
<1>1. PICK n \in Int : a = Ratio(n, d)
  BY DEF In
<1>2. n * e \in Int /\ d * e \in Int /\ d * e > 0
  BY <1>1, Products
<1>3. n * (d * e) = (n * e) * d
  BY <1>1
<1>4. Ratio(n, d) = Ratio(n * e, d * e)
  BY <1>1, <1>2, <1>3, RatioSame
<1>5. QED  BY <1>1, <1>2, <1>4 DEF In

LEMMA InOwn ==
    ASSUME NEW a \in Reduced
    PROVE  In(a, a.den) /\ a.den \in Nat \ {0}
<1>1. Norm(a) = a
  BY NormOwn
<1>2. QED  BY <1>1, ReducedParts, Parts DEF Norm, In

LEMMA SharedMore ==
    ASSUME NEW d \in Nat \ {0}, NEW a \in Reduced
    PROVE  \E e \in Nat \ {0} : In(a, e) /\ \A b : In(b, d) => In(b, e)
<1>1. In(a, a.den) /\ a.den \in Nat \ {0}
  BY InOwn
<1> DEFINE f == a.den
<1>2. f \in Nat \ {0} /\ In(a, f)
  BY <1>1
<1> HIDE DEF f
<1>3. f * d = d * f /\ d * f \in Int /\ d * f > 0
  BY <1>2, Products
<1>4. In(a, d * f)
  BY <1>2, <1>3, InLarger
<1>5. \A b : In(b, d) => In(b, d * f)
  BY <1>2, InLarger
<1>6. QED  BY <1>3, <1>4, <1>5

(* Six fractions have a common denominator. *)
LEMMA ShareDenominator ==
    ASSUME NEW a \in Reduced, NEW b \in Reduced, NEW c \in Reduced,
           NEW x \in Reduced, NEW y \in Reduced, NEW z \in Reduced
    PROVE  \E d \in Nat \ {0} :
              In(a, d) /\ In(b, d) /\ In(c, d) /\ In(x, d) /\ In(y, d) /\ In(z, d)
<1>1. In(a, a.den) /\ a.den \in Nat \ {0}
  BY InOwn
<1>2. PICK d2 \in Nat \ {0} : In(b, d2) /\ \A t : In(t, a.den) => In(t, d2)
  BY <1>1, SharedMore
<1>3. PICK d3 \in Nat \ {0} : In(c, d3) /\ \A t : In(t, d2) => In(t, d3)
  BY SharedMore
<1>4. PICK d4 \in Nat \ {0} : In(x, d4) /\ \A t : In(t, d3) => In(t, d4)
  BY SharedMore
<1>5. PICK d5 \in Nat \ {0} : In(y, d5) /\ \A t : In(t, d4) => In(t, d5)
  BY SharedMore
<1>6. PICK d6 \in Nat \ {0} : In(z, d6) /\ \A t : In(t, d5) => In(t, d6)
  BY SharedMore
<1>7. In(a, d6) /\ In(b, d6) /\ In(c, d6) /\ In(x, d6) /\ In(y, d6) /\ In(z, d6)
  BY <1>1, <1>2, <1>3, <1>4, <1>5, <1>6
<1>8. QED  BY <1>7

LEMMA ZeroIn ==
    ASSUME NEW d \in Nat \ {0}
    PROVE  Zero = Ratio(0, d)
<1>1. Zero \in Fraction /\ Zero.num = 0 /\ Zero.den = 1
  BY DEF Zero, Whole, Fraction
<1>2. 1 = 0 * 0 + 1 * 1
  OBVIOUS
<1>3. Combines(1, Zero.num, Zero.den)
  BY <1>1, <1>2 DEF Combines
<1>4. Zero \in Reduced
  BY <1>1, <1>3, ReducedCombines
<1>5. Zero = Ratio(0, 1)
  BY <1>1, <1>4, NormOwn DEF Norm
<1>6. 0 * d = 0 * 1
  OBVIOUS
<1>7. QED  BY <1>5, <1>6, RatioSame

(* Sums. *)
LEMMA Sums ==
    ASSUME NEW a \in Reduced, NEW b \in Reduced, NEW c \in Reduced
    PROVE  /\ Add(a, b) \in Reduced /\ Neg(a) \in Reduced /\ Sub(a, b) \in Reduced
           /\ Add(a, b) = Add(b, a)
           /\ Add(a, Add(b, c)) = Add(Add(a, b), c)
           /\ Add(a, Add(b, c)) = Add(b, Add(a, c))
           /\ Add(a, Zero) = a /\ Add(Zero, a) = a /\ Sub(a, Zero) = a
           /\ Sub(a, a) = Zero
<1>1. PICK d \in Nat \ {0} : In(a, d) /\ In(b, d) /\ In(c, d)
  BY ShareDenominator
<1>2. PICK x \in Int : a = Ratio(x, d)
  BY <1>1 DEF In
<1>3. PICK y \in Int : b = Ratio(y, d)
  BY <1>1 DEF In
<1>4. PICK z \in Int : c = Ratio(z, d)
  BY <1>1 DEF In
<1>5. Zero = Ratio(0, d) /\ 0 \in Int
  BY ZeroIn
<1>6. Add(a, b) = Ratio(x + y, d) /\ x + y \in Int /\ Add(b, a) = Ratio(y + x, d)
  BY <1>2, <1>3, RatioAdd
<1>7. Add(b, c) = Ratio(y + z, d) /\ y + z \in Int /\ Add(a, c) = Ratio(x + z, d) /\ x + z \in Int
  BY <1>2, <1>3, <1>4, RatioAdd
<1>8. Neg(a) = Ratio(-x, d) /\ -x \in Int /\ Sub(a, b) = Ratio(x - y, d) /\ x - y \in Int
  BY <1>2, <1>3, RatioNeg, RatioSub
<1>9. Add(a, Add(b, c)) = Ratio(x + (y + z), d)
  BY <1>2, <1>7, RatioAdd
<1>10. Add(Add(a, b), c) = Ratio((x + y) + z, d)
  BY <1>4, <1>6, RatioAdd
<1>11. Add(b, Add(a, c)) = Ratio(y + (x + z), d)
  BY <1>3, <1>7, RatioAdd
<1>12. /\ x + y = y + x /\ x + (y + z) = (x + y) + z /\ y + (x + z) = (x + y) + z
       /\ x + 0 = x /\ 0 + x = x /\ x - 0 = x /\ x - x = 0
  OBVIOUS
<1>13. /\ Add(a, Zero) = Ratio(x + 0, d) /\ Add(Zero, a) = Ratio(0 + x, d)
       /\ Sub(a, Zero) = Ratio(x - 0, d) /\ Sub(a, a) = Ratio(x - x, d)
  BY <1>2, <1>5, RatioAdd, RatioSub
<1>14. /\ Add(a, b) \in Reduced /\ Neg(a) \in Reduced /\ Sub(a, b) \in Reduced
  BY <1>6, <1>8, RatioSign
<1>15. QED  BY <1>2, <1>5, <1>6, <1>9, <1>10, <1>11, <1>12, <1>13, <1>14

(* Products. *)
LEMMA TimesLaws ==
    ASSUME NEW a \in Fraction, NEW b \in Fraction, NEW c \in Fraction
    PROVE  /\ Times(a, b) = Times(b, a)
           /\ Times(a, Times(b, c)) = Times(Times(a, b), c)
           /\ Same(Times(a, Plus(b, c)), Plus(Times(a, b), Times(a, c)))
<1> DEFINE p == a.num
           q == b.num
           r == c.num
           x == a.den
           y == b.den
           z == c.den
<1>1. p \in Int /\ q \in Int /\ r \in Int /\ x \in Int /\ y \in Int /\ z \in Int
  BY Parts
<1> HIDE DEF p, q, r, x, y, z
<1>2. p * q = q * p /\ x * y = y * x /\ p * (q * r) = (p * q) * r /\ x * (y * z) = (x * y) * z
  BY <1>1
<1>3. (p * (q * z + r * y)) * ((x * y) * (x * z)) = ((p * q) * (x * z) + (p * r) * (x * y)) * (x * (y * z))
  <2> DEFINE k == q * z
             l == r * y
             u == x * y
             v == x * z
  <2>1. k \in Int /\ l \in Int /\ u \in Int /\ v \in Int /\ u * v \in Int /\ p * (k + l) \in Int
    BY <1>1, Products
  <2>2. (p * q) * v + (p * r) * u = x * (p * (k + l))
    <3>1. (p * q) * v = x * (p * k) /\ (p * r) * u = x * (p * l)
      BY <1>1
    <3> HIDE DEF k, l, u, v
    <3>2. p * (k + l) = p * k + p * l /\ p * k \in Int /\ p * l \in Int
      BY <1>1, <2>1, Regroup, Products
    <3>3. x * (p * k + p * l) = x * (p * k) + x * (p * l)
      BY <1>1, <3>2, Regroup
    <3>4. QED  BY <3>1, <3>2, <3>3
  <2>3. u * v = x * (x * (y * z))
    BY <1>1
  <2>4. x * (y * z) \in Int
    BY <1>1, Products
  <2> DEFINE t == p * (k + l)
             w == x * (y * z)
  <2>5. t \in Int /\ w \in Int /\ u * v = x * w
    BY <2>1, <2>3, <2>4
  <2> HIDE DEF k, l, u, v, t, w
  <2>6. t * (u * v) = (x * t) * w
    <3>1. t * (x * w) = (x * t) * w
      BY <1>1, <2>5
    <3>2. QED  BY <2>5, <3>1
  <2>7. QED  BY <2>2, <2>6 DEF k, l, u, v, t, w
<1>4. Times(a, b) = Times(b, a) /\ Times(a, Times(b, c)) = Times(Times(a, b), c)
  BY <1>2 DEF Times, p, q, r, x, y, z
<1>5. Same(Times(a, Plus(b, c)), Plus(Times(a, b), Times(a, c)))
  BY <1>3 DEF Same, Times, Plus, p, q, r, x, y, z
<1>6. QED  BY <1>4, <1>5

LEMMA MulLaws ==
    ASSUME NEW a \in Reduced, NEW b \in Reduced, NEW c \in Reduced
    PROVE  /\ Mul(a, b) \in Reduced
           /\ Mul(a, b) = Mul(b, a)
           /\ Mul(a, Mul(b, c)) = Mul(Mul(a, b), c)
           /\ Mul(a, Add(b, c)) = Add(Mul(a, b), Mul(a, c))
<1>1. a \in Fraction /\ b \in Fraction /\ c \in Fraction
  BY ReducedParts
<1>2. /\ Times(a, b) \in Fraction /\ Times(b, c) \in Fraction /\ Times(a, c) \in Fraction
      /\ Plus(b, c) \in Fraction
  BY <1>1, FractionTypes
<1>3. /\ Mul(a, b) \in Reduced /\ Mul(a, b) = Norm(Times(a, b))
      /\ Mul(b, a) = Norm(Times(b, a))
      /\ Mul(b, c) \in Reduced /\ Mul(b, c) = Norm(Times(b, c))
      /\ Mul(a, c) \in Reduced /\ Mul(a, c) = Norm(Times(a, c))
  BY MulIs
<1>4. Mul(a, Mul(b, c)) = Norm(Times(a, Times(b, c)))
  BY <1>1, <1>2, <1>3, MulIs, NormProduct
<1>5. Mul(Mul(a, b), c) = Norm(Times(Times(a, b), c))
  BY <1>1, <1>2, <1>3, MulIs, NormProduct
<1>6. Mul(a, Add(b, c)) = Norm(Times(a, Plus(b, c)))
  <2>1. Add(b, c) = Norm(Plus(b, c)) /\ Add(b, c) \in Reduced
    BY <1>1, AddIs, Sums
  <2>2. Mul(a, Add(b, c)) = Norm(Times(a, Norm(Plus(b, c))))
    BY <2>1, MulIs
  <2>3. QED  BY <1>1, <1>2, <2>2, NormProduct
<1>7. Add(Mul(a, b), Mul(a, c)) = Norm(Plus(Times(a, b), Times(a, c)))
  <2> DEFINE f == Times(a, b)
             h == Times(a, c)
  <2>1. f \in Fraction /\ h \in Fraction /\ Mul(a, b) = Norm(f) /\ Mul(a, c) = Norm(h)
    BY <1>2, <1>3
  <2> HIDE DEF f, h
  <2>2. Norm(f) \in Fraction /\ Norm(h) \in Fraction
    BY <2>1, NormSame
  <2>3. Add(Norm(f), Norm(h)) = Norm(Plus(Norm(f), Norm(h)))
    BY <2>2, AddIs
  <2>4. Norm(Plus(Norm(f), Norm(h))) = Norm(Plus(f, Norm(h)))
    BY <2>1, <2>2, NormSum
  <2>5. Norm(Plus(f, Norm(h))) = Norm(Plus(f, h))
    BY <2>1, NormSum
  <2>6. QED  BY <2>1, <2>3, <2>4, <2>5 DEF f, h
<1>8. Norm(Times(a, Plus(b, c))) = Norm(Plus(Times(a, b), Times(a, c)))
  <2>1. Times(a, Plus(b, c)) \in Fraction /\ Plus(Times(a, b), Times(a, c)) \in Fraction
    BY <1>1, <1>2, FractionTypes
  <2>2. QED  BY <1>1, <2>1, TimesLaws, NormOne
<1>9. QED  BY <1>1, <1>3, <1>4, <1>5, <1>6, <1>7, <1>8, TimesLaws

LEMMA MulSign ==
    ASSUME NEW a \in Reduced, NEW b \in Reduced
    PROVE  /\ a.num > 0 /\ b.num > 0 => Mul(a, b).num > 0
           /\ a.num >= 0 /\ b.num >= 0 => Mul(a, b).num >= 0
           /\ a.num < 0 /\ b.num > 0 => Mul(a, b).num < 0
           /\ a.num = 0 \/ b.num = 0 => Mul(a, b) = Zero
<1> DEFINE p == a.num
           q == b.num
           t == Times(a, b)
           m == Mul(a, b)
<1>1. a \in Fraction /\ b \in Fraction /\ p \in Int /\ q \in Int
  BY ReducedParts, Parts
<1>2. t \in Fraction /\ t.num = p * q
  BY <1>1, FractionTypes DEF Times
<1>3. m \in Reduced /\ m \in Fraction /\ Same(m, t)
  BY <1>2, MulIs, NormSame, ReducedParts
<1> HIDE DEF p, q, t, m
<1>4. m.num \in Int /\ (m.num > 0 <=> p * q > 0) /\ (m.num < 0 <=> p * q < 0)
  BY <1>2, <1>3, SameSign, Parts
<1>5. p * q \in Int /\ (p > 0 /\ q > 0 => p * q > 0) /\ (p >= 0 /\ q >= 0 => p * q >= 0)
  BY <1>1, Products
<1>6. ASSUME p < 0, q > 0 PROVE p * q < 0
  <2>1. -p > 0 /\ -p \in Int
    BY <1>1, <1>6
  <2>2. (-p) * q > 0
    BY <1>1, <1>6, <2>1, Products
  <2>3. (-p) * q = -(p * q)
    BY <1>1
  <2>4. QED  BY <1>5, <2>2, <2>3
<1>7. ASSUME p = 0 \/ q = 0 PROVE m = Zero
  <2>1. p * q = 0
    BY <1>1, <1>7
  <2>2. m.num = 0
    BY <1>4, <2>1
  <2>3. m = Norm(m) /\ m.den \in Nat \ {0}
    BY <1>3, NormOwn, Parts
  <2>4. m = Ratio(0, m.den)
    BY <2>2, <2>3 DEF Norm
  <2>5. QED  BY <2>3, <2>4, ZeroIn
<1>8. QED  BY <1>4, <1>5, <1>6, <1>7 DEF p, q, m

LEMMA WholeReduced ==
    ASSUME NEW n \in Int
    PROVE  Whole(n) \in Reduced /\ Whole(n) = Ratio(n, 1) /\ Whole(n).num = n
<1>1. Whole(n) \in Fraction /\ Whole(n).num = n /\ Whole(n).den = 1
  BY DEF Whole, Fraction
<1>2. 1 = 0 * n + 1 * 1
  OBVIOUS
<1>3. Combines(1, n, 1)
  BY <1>2 DEF Combines
<1>4. Whole(n) \in Reduced
  BY <1>1, <1>3, ReducedCombines
<1>5. QED  BY <1>1, <1>4, NormOwn DEF Norm

LEMMA RatioMul ==
    ASSUME NEW m \in Int, NEW n \in Int, NEW d \in Nat \ {0}, NEW e \in Nat \ {0}
    PROVE  Mul(Ratio(m, d), Ratio(n, e)) = Ratio(m * n, d * e)
<1> DEFINE f == Nths(m, d)
           h == Nths(n, e)
           s == Nths(m * n, d * e)
<1>1. m * n \in Int /\ d * e \in Int /\ d * e > 0
  BY Products
<1>2. /\ f \in Fraction /\ h \in Fraction /\ s \in Fraction
      /\ Ratio(m, d) = Norm(f) /\ Ratio(n, e) = Norm(h) /\ Ratio(m * n, d * e) = Norm(s)
  BY <1>1, NthsType
<1>3. Times(f, h) = s
  BY DEF Times, Nths
<1> HIDE DEF f, h, s
<1>4. Norm(f) \in Reduced /\ Norm(h) \in Reduced /\ Norm(f) \in Fraction /\ Norm(h) \in Fraction
  BY <1>2, NormSame
<1>5. Mul(Norm(f), Norm(h)) = Norm(Times(Norm(f), Norm(h)))
  BY <1>4, MulIs
<1>6. Norm(Times(Norm(f), Norm(h))) = Norm(Times(f, Norm(h)))
  BY <1>2, <1>4, NormProduct
<1>7. Norm(Times(f, Norm(h))) = Norm(Times(f, h))
  BY <1>2, NormProduct
<1>8. QED  BY <1>2, <1>3, <1>5, <1>6, <1>7

----------------------------------------------------------------------------
LEMMA WholeProduct ==
    ASSUME NEW m \in Int, NEW n \in Int
    PROVE  Mul(Whole(m), Whole(n)) = Whole(m * n)
<1> DEFINE one == 1
           mn == m * n
<1>1. one \in Nat \ {0} /\ one * one = one /\ mn \in Int
  BY Products
<1>2. Whole(m) = Ratio(m, one) /\ Whole(n) = Ratio(n, one) /\ Whole(mn) = Ratio(mn, one)
  BY <1>1, WholeReduced
<1> HIDE DEF one
<1>3. Mul(Ratio(m, one), Ratio(n, one)) = Ratio(m * n, one * one)
  BY <1>1, RatioMul
<1>4. QED  BY <1>1, <1>2, <1>3

LEMMA AddType ==
    ASSUME NEW a \in Reduced, NEW b \in Reduced
    PROVE  Add(a, b) \in Reduced
<1> DEFINE c == a
<1>1. c \in Reduced
  OBVIOUS
<1> HIDE DEF c
<1>2. QED  BY <1>1, Sums

LEMMA AddGroups ==
    ASSUME NEW a \in Reduced, NEW b \in Reduced, NEW c \in Reduced
    PROVE  Add(a, Add(b, c)) = Add(Add(a, b), c)
  BY Sums

LEMMA AddSwaps ==
    ASSUME NEW a \in Reduced, NEW b \in Reduced, NEW c \in Reduced
    PROVE  Add(a, Add(b, c)) = Add(b, Add(a, c))
  BY Sums

LEMMA AddZero ==
    ASSUME NEW a \in Reduced
    PROVE  Add(a, Zero) = a /\ Add(Zero, a) = a
  BY Sums

LEMMA AddPairs ==
    ASSUME NEW a \in Reduced, NEW b \in Reduced, NEW p \in Reduced, NEW q \in Reduced
    PROVE  Add(Add(a, b), Add(p, q)) = Add(Add(a, p), Add(b, q))
<1> DEFINE r == Add(p, q)
           t == Add(b, q)
<1>1. r \in Reduced /\ t \in Reduced
  BY AddType
<1>2. Add(b, r) = Add(p, t)
  BY AddSwaps
<1> HIDE DEF r, t
<1>3. Add(Add(a, b), r) = Add(a, Add(b, r)) /\ Add(a, Add(p, t)) = Add(Add(a, p), t)
  BY <1>1, AddGroups
<1>4. QED  BY <1>2, <1>3 DEF r, t

LEMMA MulType ==
    ASSUME NEW a \in Reduced, NEW b \in Reduced
    PROVE  Mul(a, b) \in Reduced /\ Mul(a, b) = Mul(b, a)
  BY MulLaws

LEMMA MulGroups ==
    ASSUME NEW a \in Reduced, NEW b \in Reduced, NEW c \in Reduced
    PROVE  Mul(a, Mul(b, c)) = Mul(Mul(a, b), c)
  BY MulLaws

LEMMA MulSpreads ==
    ASSUME NEW a \in Reduced, NEW b \in Reduced, NEW c \in Reduced
    PROVE  Mul(a, Add(b, c)) = Add(Mul(a, b), Mul(a, c))
  BY MulLaws

LEMMA AddSign ==
    ASSUME NEW a \in Reduced, NEW b \in Reduced
    PROVE  /\ a.num >= 0 /\ b.num >= 0 => Add(a, b).num >= 0
           /\ a.num > 0 /\ b.num >= 0 => Add(a, b).num > 0
           /\ a.num <= 0 /\ b.num <= 0 => Add(a, b).num <= 0
<1>1. PICK d \in Nat \ {0} : In(a, d) /\ In(b, d)
  BY ShareDenominator
<1>2. PICK x \in Int : a = Ratio(x, d)
  BY <1>1 DEF In
<1>3. PICK y \in Int : b = Ratio(y, d)
  BY <1>1 DEF In
<1>4. Add(a, b) = Ratio(x + y, d) /\ x + y \in Int
  BY <1>2, <1>3, RatioAdd
<1>5. /\ a.num >= 0 <=> x >= 0
      /\ a.num > 0 <=> x > 0
      /\ b.num >= 0 <=> y >= 0
      /\ b.num > 0 <=> y > 0
      /\ Add(a, b).num > 0 <=> x + y > 0
      /\ Add(a, b).num >= 0 <=> x + y >= 0
      /\ a.num \in Int /\ b.num \in Int /\ Add(a, b).num \in Int
  BY <1>2, <1>3, <1>4, RatioSign, ReducedParts, Parts
<1>6. QED  BY <1>5

LEMMA ZeroReduced == Zero \in Reduced /\ Zero.num = 0
  BY WholeReduced DEF Zero

(* A factor of one, and factors that cancel. *)

One == Whole(1)

LEMMA OneReduced == One \in Reduced /\ One.num = 1 /\ One = Ratio(1, 1)
  BY WholeReduced DEF One

LEMMA MulOne ==
    ASSUME NEW a \in Reduced
    PROVE  Mul(a, One) = a /\ Mul(One, a) = a
<1>1. a = Norm(a) /\ a.num \in Int /\ a.den \in Nat \ {0}
  BY NormOwn, ReducedParts, Parts
<1>2. Mul(Ratio(a.num, a.den), Ratio(1, 1)) = Ratio(a.num * 1, a.den * 1)
  BY <1>1, RatioMul
<1>3. Mul(a, One) = a
  BY <1>1, <1>2, OneReduced DEF Norm
<1>4. QED  BY <1>3, OneReduced, MulType

LEMMA MulSwaps ==
    ASSUME NEW a \in Reduced, NEW b \in Reduced, NEW c \in Reduced
    PROVE  Mul(a, Mul(b, c)) = Mul(b, Mul(a, c))
<1>1. Mul(a, Mul(b, c)) = Mul(Mul(a, b), c) /\ Mul(b, Mul(a, c)) = Mul(Mul(b, a), c)
  BY MulGroups
<1>2. QED  BY <1>1, MulType

LEMMA MulPairs ==
    ASSUME NEW a \in Reduced, NEW b \in Reduced, NEW p \in Reduced, NEW q \in Reduced
    PROVE  Mul(Mul(a, b), Mul(p, q)) = Mul(Mul(a, p), Mul(b, q))
<1> DEFINE r == Mul(p, q)
           t == Mul(b, q)
<1>1. r \in Reduced /\ t \in Reduced
  BY MulType
<1>2. Mul(b, r) = Mul(p, t)
  BY MulSwaps
<1> HIDE DEF r, t
<1>3. Mul(Mul(a, b), r) = Mul(a, Mul(b, r)) /\ Mul(a, Mul(p, t)) = Mul(Mul(a, p), t)
  BY <1>1, MulGroups
<1>4. QED  BY <1>2, <1>3 DEF r, t

(* What is owed and what was paid cancel. *)
LEMMA Reciprocals ==
    ASSUME NEW n \in Nat \ {0}, NEW d \in Nat \ {0}
    PROVE  Mul(Ratio(n, d), Ratio(d, n)) = One /\ Ratio(n, n) = One
<1>1. Mul(Ratio(n, d), Ratio(d, n)) = Ratio(n * d, d * n)
  BY RatioMul
<1>2. n * d \in Nat \ {0} /\ d * n = n * d
  BY Products
<1>3. \A m \in Nat \ {0} : Ratio(m, m) = Ratio(1, 1)
  <2>1. ASSUME NEW m \in Nat \ {0} PROVE Ratio(m, m) = Ratio(1, 1)
    <3>1. m * 1 = 1 * m
      OBVIOUS
    <3>2. QED  BY <3>1, RatioSame
  <2>2. QED  BY <2>1
<1>4. QED  BY <1>1, <1>2, <1>3, OneReduced

----------------------------------------------------------------------------
(* Rounding. *)

(* Rounding to a multiple moves a number by at most half of it. *)
LEMMA RoundedClose ==
    ASSUME NEW n \in Int, NEW d \in Nat \ {0}
    PROVE  /\ Rounded(n, d) \in Int
           /\ 2 * (Rounded(n, d) * d - n) <= d
           /\ 2 * (n - Rounded(n, d) * d) <= d
<1> DEFINE q == n \div d
           r == n % d
<1>1. q \in Int /\ r \in 0..(d - 1) /\ n = d * q + r
  OBVIOUS
<1>2. d * q = q * d /\ (q + 1) * d = q * d + d
  BY <1>1
<1>3. CASE Rounded(n, d) = q
  <2>1. 2 * r <= d
    BY <1>1, <1>3 DEF Rounded
  <2>2. QED  BY <1>1, <1>2, <1>3, <2>1
<1>4. CASE Rounded(n, d) = q + 1
  <2>1. 2 * r >= d
    BY <1>1, <1>4 DEF Rounded
  <2>2. QED  BY <1>1, <1>2, <1>4, <2>1
<1>5. QED  BY <1>3, <1>4 DEF Rounded

(* A product rounded is off by half the other factor at most. *)
LEMMA TurnoverKept ==
    ASSUME NEW price \in Reduced, price.num >= 0, NEW v \in Reduced
    PROVE  LET gap == Sub(Mul(price, Whole(Rounded(v.num, v.den))), Mul(price, v))
           IN  Size(2 * gap.num) * price.den <= price.num * gap.den
<1> DEFINE p == price.num
           q == price.den
           n == v.num
           e == v.den
           j == Rounded(n, e)
           off == j * e - n
           gap == Sub(Mul(price, Whole(j)), Mul(price, v))
<1>1. p \in Nat /\ q \in Nat \ {0} /\ n \in Int /\ e \in Nat \ {0}
      /\ price = Ratio(p, q) /\ v = Ratio(n, e)
  BY ReducedParts, Parts, NormOwn DEF Norm
<1>2. j \in Int /\ 2 * (j * e - n) <= e /\ 2 * (n - j * e) <= e
  BY <1>1, RoundedClose
<1>3. Whole(j) = Ratio(j, 1)
  BY <1>2, WholeReduced
<1> HIDE DEF p, q, n, e, j
<1>4. j * e \in Int /\ off \in Int /\ 2 * off <= e /\ 2 * (-off) <= e
  BY <1>1, <1>2, Products
<1>5. p * j \in Int /\ p * n \in Int /\ q * e \in Nat \ {0} /\ p * off \in Int
  BY <1>1, <1>2, <1>4, Products
<1>6. Mul(price, Whole(j)) = Ratio(p * j, q * 1) /\ Mul(price, v) = Ratio(p * n, q * e)
  BY <1>1, <1>2, <1>3, RatioMul
<1>7. Ratio(p * j, q * 1) = Ratio((p * j) * e, q * e)
  <2>1. (p * j) * e \in Int /\ q * 1 \in Nat \ {0} /\ q * 1 = q
    BY <1>1, <1>5, Products
  <2>2. (p * j) * (q * e) = ((p * j) * e) * q
    <3> DEFINE w == p * j
    <3>1. w \in Int
      BY <1>5
    <3> HIDE DEF w
    <3>2. w * (e * q) = (w * e) * q /\ q * e = e * q
      BY <1>1, <3>1, Regroup, Products
    <3>3. QED  BY <3>2 DEF w
  <2>3. QED  BY <1>5, <2>1, <2>2, RatioSame
<1>8. gap = Ratio((p * j) * e - p * n, q * e)
  <2> DEFINE x == (p * j) * e
             y == p * n
             z == q * e
  <2>1. x \in Int /\ y \in Int /\ z \in Nat \ {0}
    BY <1>1, <1>5, Products
  <2>2. gap = Sub(Ratio(x, z), Ratio(y, z))
    BY <1>6, <1>7
  <2> HIDE DEF x, y, z, gap
  <2>3. Sub(Ratio(x, z), Ratio(y, z)) = Ratio(x - y, z)
    BY <2>1, RatioSub
  <2>4. QED  BY <2>2, <2>3 DEF x, y, z
<1>9. (p * j) * e - p * n = p * off
  <2>1. p * (j * e - n) = p * (j * e) - p * n
    BY <1>1, <1>4, Regroup
  <2>2. (p * j) * e = p * (j * e)
    BY <1>1, <1>2, Regroup
  <2>3. QED  BY <2>1, <2>2
<1>10. PICK k \in Nat \ {0} : p * off = k * gap.num /\ q * e = k * gap.den
  BY <1>5, <1>8, <1>9, RatioCancels
<1>11. gap \in Reduced /\ gap.num \in Int /\ gap.den \in Nat \ {0}
  <2>1. gap \in Reduced
    BY <1>5, <1>8, <1>9, RatioCancels
  <2>2. QED  BY <2>1, ReducedParts, Parts
<1> HIDE DEF gap, off
<1> DEFINE twice == 2 * gap.num
           size == Size(twice)
<1>12. size \in Nat /\ k * size <= p * e
  <2>1. twice \in Int /\ size \in Nat
    BY <1>11, SizeType
  <2>2. k * size = Size(k * twice)
    BY <2>1, SizeScales
  <2>3. k * twice = p * (2 * off)
    <3>1. k * twice = 2 * (k * gap.num)
      BY <1>11
    <3>2. p * (2 * off) = 2 * (p * off)
      BY <1>1, <1>4
    <3>3. QED  BY <1>10, <3>1, <3>2
  <2>4. p * (2 * off) <= p * e /\ -(p * (2 * off)) <= p * e
    <3> DEFINE o == 2 * off
               up == e - o
               down == e + o
    <3>1. o \in Int /\ up \in Int /\ up >= 0 /\ down \in Int /\ down >= 0
      BY <1>1, <1>4
    <3>2. p * up >= 0 /\ p * down >= 0
      <4> HIDE DEF up, down
      <4>1. QED  BY <1>1, <3>1, Products
    <3> HIDE DEF o
    <3>3. p * (e - o) = p * e - p * o /\ p * (e + o) = p * e + p * o
      BY <1>1, <3>1, Regroup
    <3>4. p * e \in Int /\ p * o \in Int
      BY <1>1, <3>1, Products
    <3> DEFINE pe == p * e
               po == p * o
               pu == p * (e - o)
               pd == p * (e + o)
    <3>5. pe \in Int /\ po \in Int /\ pu = pe - po /\ pd = pe + po /\ pu >= 0 /\ pd >= 0
      BY <3>2, <3>3, <3>4
    <3> HIDE DEF pe, po, pu, pd
    <3>6. po <= pe /\ -po <= pe
      BY <3>5
    <3>7. QED  BY <3>6 DEF pe, po, o
  <2> HIDE DEF size, twice
  <2>5. Size(k * twice) <= p * e
    BY <2>3, <2>4 DEF Size
  <2>6. QED  BY <2>1, <2>2, <2>5
<1> HIDE DEF size, twice
<1>13. size * q <= p * gap.den
  <2> DEFINE x == size * q
             y == p * gap.den
  <2>1. x \in Int /\ y \in Int
    BY <1>1, <1>11, <1>12, Products
  <2>2. k * x = (k * size) * q /\ k * y = (p * e) * q
    <3>1. k * (size * q) = (k * size) * q
      BY <1>1, <1>12, Regroup
    <3>2. k * (p * gap.den) = p * (k * gap.den)
      BY <1>1, <1>11
    <3>3. p * (e * q) = (p * e) * q /\ q * e = e * q
      BY <1>1, Regroup, Products
    <3>4. QED  BY <1>10, <3>1, <3>2, <3>3
  <2>3. (k * size) * q <= (p * e) * q
    <3> DEFINE a == k * size
               b == p * e
    <3>1. a \in Int /\ b \in Int /\ a <= b
      BY <1>1, <1>12, Products
    <3> HIDE DEF a, b
    <3>2. (b - a) * q >= 0
      BY <1>1, <3>1, Products
    <3>3. q * (b - a) = q * b - q * a /\ (b - a) * q = q * (b - a) /\ b * q = q * b /\ a * q = q * a
      BY <1>1, <3>1, Regroup, Products
    <3>4. b * q \in Int /\ a * q \in Int
      BY <1>1, <3>1, Products
    <3>5. a * q <= b * q
      BY <3>2, <3>3, <3>4
    <3>6. QED  BY <3>5 DEF a, b
  <2> HIDE DEF x, y
  <2>4. k * x <= k * y
    BY <2>2, <2>3
  <2>5. ASSUME y < x PROVE FALSE
    <3>1. k * (x - y) > 0 /\ k * (x - y) = k * x - k * y
      BY <2>1, <2>5, Products, Regroup
    <3>2. k * x \in Int /\ k * y \in Int
      BY <2>1, Products
    <3>3. QED  BY <2>4, <3>1, <3>2
  <2>6. x <= y
    BY <2>1, <2>5
  <2>7. QED  BY <2>6 DEF x, y
<1>14. QED  BY <1>13 DEF size, twice, gap, p, q, n, e, j
=============================================================================
