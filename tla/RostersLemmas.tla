---------------------------- MODULE RostersLemmas ----------------------------
(*****************************************************************************)
(* What the operators of Rosters, PresenceIndex and UserAccounts return    *)
(* and keep: the folds they use, the index of presences, the accounts and  *)
(* the events that tell of them, and what the worker makes of one line.    *)
(*****************************************************************************)
EXTENDS Rosters, TLAPS, WellFoundedInduction, FiniteSetTheorems, FunctionTheorems

(***************************************************************************)
(* Induction over the subsets of a finite set, as its least counterexample, *)
(* and what it says of the folds the model uses.                            *)
(***************************************************************************)
LEMMA LeastSubset ==
  ASSUME NEW S, IsFiniteSet(S), NEW T, T \subseteq SUBSET S, T # {}
  PROVE  \E x \in T : \A y \in T : ~(y \subseteq x /\ y # x)
<1>1. T \subseteq FiniteSubsetsOf(S)
  BY FS_Subset DEF FiniteSubsetsOf
<1>2. \E x \in T : \A y \in T : <<y, x>> \notin StrictSubsetOrdering(S)
  BY <1>1, WFMin, FS_StrictSubsetOrderingWellFounded
<1> QED BY <1>2 DEF StrictSubsetOrdering

(* A fold over the subsets of S that takes the element pick gives first.    *)
Folds(g, S, b, pick, F) ==
    g = [s \in SUBSET S |-> IF s = {} THEN b ELSE F[<<pick[s], g[s \ {pick[s]}]>>]]

Picks(pick, S) == \A s \in SUBSET S : s # {} => pick[s] \in s

(* A fold that picks an element first: one step.                           *)
LEMMA FoldStep ==
  ASSUME NEW S, NEW b, NEW pick, NEW F, NEW g, Folds(g, S, b, pick, F)
  PROVE  /\ g[{}] = b
         /\ \A s \in SUBSET S : s # {} => g[s] = F[<<pick[s], g[s \ {pick[s]}]>>]
<1> DEFINE v(s) == IF s = {} THEN b ELSE F[<<pick[s], g[s \ {pick[s]}]>>]
<1>1. g = [s \in SUBSET S |-> v(s)]
  BY DEF Folds
<1>2. \A s \in SUBSET S : g[s] = v(s)
  BY <1>1
<1> QED BY <1>2

(* What holds of the start and is kept by every step holds of the fold.     *)
LEMMA StepsKeep ==
  ASSUME NEW S, IsFiniteSet(S), NEW pick, Picks(pick, S), NEW g, NEW Good,
         <<{}, g[{}]>> \in Good,
         \A s \in SUBSET S :
            s # {} /\ <<s \ {pick[s]}, g[s \ {pick[s]}]>> \in Good => <<s, g[s]>> \in Good
  PROVE  \A s \in SUBSET S : <<s, g[s]>> \in Good
<1> DEFINE Bad == {s \in SUBSET S : <<s, g[s]>> \notin Good}
<1>1. SUFFICES ASSUME Bad # {} PROVE FALSE
  OBVIOUS
<1>2. PICK s \in Bad : \A y \in Bad : ~(y \subseteq s /\ y # s)
  <2>1. Bad \subseteq SUBSET S
    OBVIOUS
  <2> HIDE DEF Bad
  <2> QED BY <1>1, <2>1, LeastSubset
<1>3. s # {}
  BY <1>2
<1>4. pick[s] \in s
  BY <1>3 DEF Picks
<1>5. s \ {pick[s]} \notin Bad
  <2>1. s \ {pick[s]} \subseteq s /\ s \ {pick[s]} # s
    BY <1>4
  <2> HIDE DEF Bad
  <2> QED BY <1>2, <2>1
<1> QED BY <1>2, <1>3, <1>5

(* Two functions that fold the same way agree on every subset.             *)
LEMMA FoldsAgree ==
  ASSUME NEW S, IsFiniteSet(S), NEW b, NEW pick, Picks(pick, S), NEW F,
         NEW t \in SUBSET S, NEW u \in SUBSET S, NEW g, NEW h,
         Folds(g, t, b, pick, F), Folds(h, u, b, pick, F)
  PROVE  \A s \in SUBSET (t \intersect u) : g[s] = h[s]
<1> DEFINE Bad == {s \in SUBSET (t \intersect u) : g[s] # h[s]}
<1>1. SUFFICES ASSUME Bad # {} PROVE FALSE
  OBVIOUS
<1>2. PICK s \in Bad : \A y \in Bad : ~(y \subseteq s /\ y # s)
  <2>1. Bad \subseteq SUBSET S
    OBVIOUS
  <2> HIDE DEF Bad
  <2> QED BY <1>1, <2>1, LeastSubset
<1>3. s # {}
  <2>1. g[{}] = b /\ h[{}] = b
    BY FoldStep
  <2> QED BY <1>2, <2>1
<1>4. pick[s] \in s
  BY <1>3 DEF Picks
<1>5. s \ {pick[s]} \notin Bad
  <2>1. s \ {pick[s]} \subseteq s /\ s \ {pick[s]} # s
    BY <1>4
  <2> HIDE DEF Bad
  <2> QED BY <1>2, <2>1
<1>6. g[s \ {pick[s]}] = h[s \ {pick[s]}]
  BY <1>5
<1>7. g[s] = F[<<pick[s], g[s \ {pick[s]}]>>] /\ h[s] = F[<<pick[s], h[s \ {pick[s]}]>>]
  BY <1>3, FoldStep
<1> QED BY <1>6, <1>7

(* There is a function that folds: by its least counterexample.            *)
LEMMA FoldExists ==
  ASSUME NEW S, IsFiniteSet(S), NEW b, NEW pick, Picks(pick, S), NEW F
  PROVE  \E g : Folds(g, S, b, pick, F)
<1> DEFINE Has(t) == \E g : Folds(g, t, b, pick, F)
           Bad == {t \in SUBSET S : ~Has(t)}
<1>1. SUFFICES ASSUME Bad # {} PROVE FALSE
  BY <1>1
<1>2. PICK t \in Bad : \A y \in Bad : ~(y \subseteq t /\ y # t)
  <2>1. Bad \subseteq SUBSET S
    OBVIOUS
  <2> HIDE DEF Bad
  <2> QED BY <1>1, <2>1, LeastSubset
<1>3. \A s \in SUBSET t : s # t => Has(s)
  BY <1>2
<1> DEFINE G(s) == (CHOOSE g : Folds(g, s, b, pick, F))[s]
           N(s) == IF s = {} THEN b ELSE F[<<pick[s], G(s \ {pick[s]})>>]
           new == [s \in SUBSET t |-> N(s)]
<1>4. ASSUME NEW s \in SUBSET t, s # t PROVE G(s) = N(s)
  <2> DEFINE g == CHOOSE g : Folds(g, s, b, pick, F)
  <2>1. Folds(g, s, b, pick, F)
    BY <1>3, <1>4
  <2> HIDE DEF g
  <2>2. CASE s = {}
    <3>1. g[{}] = b
      BY <2>1, FoldStep
    <3> QED BY <2>2, <3>1 DEF g
  <2>3. CASE s # {}
    <3>1. pick[s] \in s
      BY <2>3 DEF Picks
    <3> DEFINE r == s \ {pick[s]}
    <3>2. r \in SUBSET s /\ r \in SUBSET S /\ r \in SUBSET t /\ r # t /\ s \in SUBSET S
      BY <3>1
    <3> DEFINE h == CHOOSE h : Folds(h, r, b, pick, F)
    <3>3. Folds(h, r, b, pick, F)
      BY <1>3, <3>2
    <3> HIDE DEF h
    <3>4. g[r] = h[r]
      <4>1. r \in SUBSET (s \intersect r)
        BY <3>2
      <4> HIDE DEF r
      <4> QED BY <2>1, <3>2, <3>3, <4>1, FoldsAgree
    <3>5. h[r] = G(r)
      BY DEF h
    <3>6. g[s] = F[<<pick[s], g[r]>>]
      BY <2>1, <2>3, FoldStep
    <3>7. g[s] = G(s)
      BY DEF g
    <3> QED BY <2>3, <3>4, <3>5, <3>6, <3>7
  <2> QED BY <2>2, <2>3
<1>5. ASSUME NEW s \in SUBSET t
      PROVE  N(s) = IF s = {} THEN b ELSE F[<<pick[s], new[s \ {pick[s]}]>>]
  <2>1. CASE s = {}
    BY <2>1
  <2>2. CASE s # {}
    <3>1. pick[s] \in s
      BY <1>2, <2>2 DEF Picks
    <3>2. s \ {pick[s]} \in SUBSET t /\ s \ {pick[s]} # t
      BY <3>1
    <3>3. new[s \ {pick[s]}] = N(s \ {pick[s]})
      BY <3>2
    <3>4. G(s \ {pick[s]}) = N(s \ {pick[s]})
      BY <1>4, <3>2
    <3>5. N(s) = F[<<pick[s], G(s \ {pick[s]})>>]
      BY <2>2
    <3> HIDE DEF G, N, new
    <3> QED BY <2>2, <3>3, <3>4, <3>5
  <2> QED BY <2>1, <2>2
<1>6. Folds(new, t, b, pick, F)
  <2> DEFINE M(s) == IF s = {} THEN b ELSE F[<<pick[s], new[s \ {pick[s]}]>>]
  <2>1. \A s \in SUBSET t : N(s) = M(s)
    BY <1>5
  <2>2. [s \in SUBSET t |-> N(s)] = [s \in SUBSET t |-> M(s)]
    <3> HIDE DEF N, M
    <3> QED BY <2>1
  <2>3. new = [s \in SUBSET t |-> M(s)]
    BY <2>2
  <2> HIDE DEF N
  <2> HIDE DEF new
  <2> QED BY <2>3 DEF Folds
<1>7. Has(t)
  <2> HIDE DEF new
  <2> QED BY <1>6
<1> QED BY <1>2, <1>7

(* The element FoldSet takes of a set, and the index FoldLeft takes.        *)
AnyOf(S) == [s \in SUBSET S |-> IF s = {} THEN {} ELSE CHOOSE x \in s : TRUE]

LastOf(n) == [s \in SUBSET (1..n) |-> IF s = {} THEN {} ELSE Max(s)]

LEMMA AnyOfPicks ==
  ASSUME NEW S
  PROVE  Picks(AnyOf(S), S)
BY DEF AnyOf, Picks

LEMMA Greatest ==
  ASSUME NEW n \in Nat, NEW s \in SUBSET (1..n), s # {}
  PROVE  Max(s) \in s /\ \A y \in s : y <= Max(s)
<1> DEFINE U == {x..n : x \in s}
<1>1. IsFiniteSet(1..n) /\ U \subseteq SUBSET (1..n) /\ U # {}
  <2>1. \A x \in s : x..n \in SUBSET (1..n)
    OBVIOUS
  <2>2. IsFiniteSet(1..n)
    BY FS_Interval
  <2>3. U # {}
    OBVIOUS
  <2> QED BY <2>1, <2>2, <2>3
<1>2. PICK x \in s : \A y \in U : ~(y \subseteq x..n /\ y # x..n)
  <2> HIDE DEF U
  <2>1. PICK u \in U : \A y \in U : ~(y \subseteq u /\ y # u)
    <3> DEFINE I == 1..n
    <3>1. IsFiniteSet(I) /\ U \subseteq SUBSET I /\ U # {}
      BY <1>1
    <3> HIDE DEF I
    <3> QED BY <3>1, LeastSubset
  <2> QED BY <2>1 DEF U
<1>3. ASSUME NEW y \in s PROVE x >= y
  <2>1. SUFFICES ASSUME y > x PROVE FALSE
    OBVIOUS
  <2>2. y..n \in U /\ y..n \subseteq x..n /\ x \in x..n /\ x \notin y..n
    BY <2>1
  <2> QED BY <1>2, <2>2
<1>4. Max(s) = CHOOSE z \in s : \A y \in s : z >= y
  BY DEF Max
<1>5. Max(s) \in s /\ \A y \in s : Max(s) >= y
  BY <1>3, <1>4
<1> QED BY <1>5

LEMMA LastOfPicks ==
  ASSUME NEW n \in Nat
  PROVE  Picks(LastOf(n), 1..n) /\ IsFiniteSet(1..n)
<1>1. ASSUME NEW s \in SUBSET (1..n), s # {} PROVE LastOf(n)[s] \in s
  <2>1. LastOf(n)[s] = Max(s)
    BY <1>1 DEF LastOf
  <2> QED BY <1>1, <2>1, Greatest
<1>2. IsFiniteSet(1..n)
  BY FS_Interval
<1> QED BY <1>1, <1>2 DEF Picks

(* Counting up: what holds at 0 and is kept by each step holds at the end.  *)
LEMMA CountUp ==
  ASSUME NEW n \in Nat, NEW I, 0 \in I, \A k \in 1..n : k - 1 \in I => k \in I
  PROVE  \A k \in 0..n : k \in I
<1> DEFINE Bad == {k \in 0..n : k \notin I}
           U == {1..k : k \in Bad}
<1>1. SUFFICES ASSUME Bad # {} PROVE FALSE
  OBVIOUS
<1>2. IsFiniteSet(1..n) /\ U \subseteq SUBSET (1..n) /\ U # {}
  <2>1. \A k \in Bad : 1..k \in SUBSET (1..n)
    OBVIOUS
  <2>2. IsFiniteSet(1..n)
    BY FS_Interval
  <2> HIDE DEF Bad
  <2>3. U # {}
    BY <1>1
  <2> QED BY <2>1, <2>2, <2>3
<1>3. PICK k \in Bad : \A y \in U : ~(y \subseteq 1..k /\ y # 1..k)
  <2>1. PICK u \in U : \A y \in U : ~(y \subseteq u /\ y # u)
    <3> DEFINE J == 1..n
    <3>1. IsFiniteSet(J) /\ U \subseteq SUBSET J /\ U # {}
      BY <1>2
    <3> HIDE DEF J, U, Bad
    <3> QED BY <3>1, LeastSubset
  <2> HIDE DEF Bad
  <2> QED BY <2>1
<1>4. k \in 1..n /\ k - 1 \in Bad
  OBVIOUS
<1>5. 1..(k - 1) \in U /\ 1..(k - 1) \subseteq 1..k /\ k \in 1..k /\ k \notin 1..(k - 1)
  <2> HIDE DEF Bad
  <2> QED BY <1>4
<1> QED BY <1>3, <1>5

(* A name, so that provers do not look into it.                            *)
UpTo(n) == 1..n

Lefts(h, n, D, m, F) ==
    /\ h = [s \in SUBSET UpTo(n) |-> IF s = {} THEN m ELSE F[<<Max(s), h[s \ {Max(s)}]>>]]
    /\ \A s \in SUBSET UpTo(n) : h[s] \in D

LEMMA LeftExists ==
  ASSUME NEW n \in Nat, NEW D, NEW m \in D, NEW F \in [UpTo(n) \X D -> D]
  PROVE  \E h : Lefts(h, n, D, m, F)
<1> DEFINE J == UpTo(n)
           pick == LastOf(n)
<1>1. IsFiniteSet(J) /\ Picks(pick, J) /\ \A s \in SUBSET J : s # {} => pick[s] = Max(s)
  BY LastOfPicks DEF LastOf, UpTo
<1>2. F \in [J \X D -> D]
  OBVIOUS
<1> HIDE DEF pick, J
<1>3. PICK h : Folds(h, J, m, pick, F)
  BY <1>1, FoldExists
<1>4. /\ h[{}] = m
      /\ \A s \in SUBSET J : s # {} => h[s] = F[<<pick[s], h[s \ {pick[s]}]>>]
  BY <1>3, FoldStep
<1>5. \A s \in SUBSET J : <<s, h[s]>> \in (SUBSET J) \X D
  <2> DEFINE Good == (SUBSET J) \X D
  <2>1. <<{}, h[{}]>> \in Good
    BY <1>4
  <2>2. ASSUME NEW s \in SUBSET J, s # {}, <<s \ {pick[s]}, h[s \ {pick[s]}]>> \in Good
        PROVE  <<s, h[s]>> \in Good
    <3>1. h[s \ {pick[s]}] \in D /\ pick[s] \in J
      BY <1>1, <2>2 DEF Picks
    <3>2. h[s] \in D
      BY <1>2, <1>4, <2>2, <3>1
    <3> QED BY <3>2
  <2> HIDE DEF Good
  <2>3. \A s \in SUBSET J : <<s, h[s]>> \in Good
    BY <1>1, <2>1, <2>2, StepsKeep, SMTT(30)
  <2> QED BY <2>3 DEF Good
<1>6. h = [s \in SUBSET J |-> IF s = {} THEN m ELSE F[<<Max(s), h[s \ {Max(s)}]>>]]
  <2> DEFINE V(s) == IF s = {} THEN m ELSE F[<<pick[s], h[s \ {pick[s]}]>>]
             W(s) == IF s = {} THEN m ELSE F[<<Max(s), h[s \ {Max(s)}]>>]
  <2>1. \A s \in SUBSET J : V(s) = W(s)
    BY <1>1
  <2>2. h = [s \in SUBSET J |-> V(s)]
    BY <1>3 DEF Folds
  <2>3. [s \in SUBSET J |-> V(s)] = [s \in SUBSET J |-> W(s)]
    <3> HIDE DEF V, W
    <3> QED BY <2>1
  <2> HIDE DEF V
  <2> QED BY <2>2, <2>3
<1> QED BY <1>5, <1>6 DEF J, Lefts

(* The values a fold over a sequence of n elements goes through.            *)
Values(r, n, D, m, F) ==
    /\ r \in [0..n -> D] /\ r[0] = m
    /\ \A k \in 1..n : r[k] = F[<<k, r[k - 1]>>]

FoldsLeft(g, n, D, m, F) ==
    /\ g[{}] = m
    /\ \A s \in SUBSET UpTo(n) : s # {} /\ g[s \ {Max(s)}] \in D
                                   => g[s] = F[<<Max(s), g[s \ {Max(s)}]>>]

Reached(v, n, D, m, F) == \E r : Values(r, n, D, m, F) /\ r[n] = v

(* What FoldLeft returns is reached step by step.                          *)
LEMMA LeftValues ==
  ASSUME NEW n \in Nat, NEW D, NEW m \in D, NEW F \in [UpTo(n) \X D -> D],
         NEW g, FoldsLeft(g, n, D, m, F)
  PROVE  Reached(g[UpTo(n)], n, D, m, F)
<1> DEFINE r == [k \in 0..n |-> g[1..k]]
           I == {k \in 0..n : g[1..k] \in D}
<1>1. ASSUME NEW k \in 1..n PROVE Max(1..k) = k /\ (1..k) \ {k} = 1..(k - 1) /\ 1..k # {}
                                  /\ 1..k \in SUBSET (1..n) /\ k - 1 \in 0..n
  <2>1. 1..k \in SUBSET (1..n) /\ k \in 1..k /\ 1..k # {}
    OBVIOUS
  <2>2. Max(1..k) \in 1..k /\ k <= Max(1..k)
    BY <2>1, Greatest
  <2>3. Max(1..k) = k
    BY <2>2
  <2> QED BY <2>1, <2>3
<1>0. UpTo(n) = 1..n
  BY DEF UpTo
<1>2. ASSUME NEW k \in 1..n, g[1..(k - 1)] \in D
      PROVE  g[1..k] = F[<<k, g[1..(k - 1)]>>] /\ g[1..k] \in D
  <2>1. g[1..k] = F[<<k, g[1..(k - 1)]>>]
    BY <1>0, <1>1, <1>2 DEF FoldsLeft
  <2>2. <<k, g[1..(k - 1)]>> \in (1..n) \X D
    BY <1>2
  <2> QED BY <1>0, <2>1, <2>2
<1>3. \A k \in 0..n : k \in I
  <2>1. 0 \in I
    <3>1. 1..0 = {}
      OBVIOUS
    <3> QED BY <3>1 DEF FoldsLeft
  <2>2. ASSUME NEW k \in 1..n, k - 1 \in I PROVE k \in I
    <3>1. k \in 0..n /\ g[1..(k - 1)] \in D
      BY <2>2
    <3>2. g[1..k] \in D
      BY <1>2, <3>1
    <3> QED BY <3>1, <3>2
  <2> HIDE DEF I
  <2> QED BY <2>1, <2>2, CountUp
<1>4. r \in [0..n -> D]
  BY <1>3
<1>5. r[0] = m
  <2>1. 1..0 = {}
    OBVIOUS
  <2> QED BY <2>1 DEF FoldsLeft
<1>6. \A k \in 1..n : r[k] = F[<<k, r[k - 1]>>]
  <2> TAKE k \in 1..n
  <2>1. k - 1 \in 0..n /\ k \in 0..n
    OBVIOUS
  <2>2. g[1..(k - 1)] \in D
    BY <1>3, <2>1
  <2> QED BY <1>2, <2>1, <2>2
<1>7. r[n] = g[UpTo(n)]
  BY <1>0
<1> HIDE DEF r
<1> QED BY <1>4, <1>5, <1>6, <1>7 DEF Values, Reached

LEMMA ValuesAgree ==
  ASSUME NEW n \in Nat, NEW k \in Nat, n <= k, NEW D, NEW m \in D, NEW F, NEW G,
         NEW r, NEW q, Values(r, n, D, m, F), Values(q, k, D, m, G),
         \A i \in 1..n, v \in D : F[<<i, v>>] = G[<<i, v>>]
  PROVE  \A i \in 0..n : r[i] = q[i]
<1> DEFINE I == {i \in 0..n : r[i] = q[i]}
<1>1. 0 \in I
  BY DEF Values
<1>2. ASSUME NEW i \in 1..n, i - 1 \in I PROVE i \in I
  <2>1. r[i] = F[<<i, r[i - 1]>>] /\ q[i] = G[<<i, q[i - 1]>>] /\ r[i - 1] \in D
    BY <1>2 DEF Values
  <2> QED BY <1>2, <2>1
<1>3. \A i \in 0..n : i \in I
  <2> HIDE DEF I
  <2> QED BY <1>1, <1>2, CountUp
<1> QED BY <1>3

(* The values a fold over a set goes through, one element after the other.  *)
SetFolded(v, S, D, b, F) ==
    \E g : /\ v = g[S] /\ g[{}] = b
           /\ \A s \in SUBSET S : g[s] \in D
           /\ \A s \in SUBSET S : s # {} => \E x \in s : g[s] = F[<<x, g[s \ {x}]>>]

AnyIn(s) == CHOOSE x \in s : TRUE

Overs(g, S, D, b, F) ==
    /\ g = [s \in SUBSET S |-> IF s = {} THEN b ELSE F[<<AnyIn(s), g[s \ {AnyIn(s)}]>>]]
    /\ \A s \in SUBSET S : g[s] \in D

LEMMA OverExists ==
  ASSUME NEW S, IsFiniteSet(S), NEW D, NEW b \in D, NEW F \in [S \X D -> D]
  PROVE  \E g : Overs(g, S, D, b, F)
<1> DEFINE pick == AnyOf(S)
<1>1. Picks(pick, S) /\ \A s \in SUBSET S : s # {} => pick[s] = AnyIn(s)
  BY AnyOfPicks DEF AnyOf, AnyIn
<1> HIDE DEF pick
<1>2. PICK g : Folds(g, S, b, pick, F)
  BY <1>1, FoldExists
<1>3. /\ g[{}] = b
      /\ \A s \in SUBSET S : s # {} => g[s] = F[<<pick[s], g[s \ {pick[s]}]>>]
  BY <1>2, FoldStep
<1>4. \A s \in SUBSET S : <<s, g[s]>> \in (SUBSET S) \X D
  <2> DEFINE Good == (SUBSET S) \X D
  <2>1. <<{}, g[{}]>> \in Good
    BY <1>3
  <2>2. ASSUME NEW s \in SUBSET S, s # {}, <<s \ {pick[s]}, g[s \ {pick[s]}]>> \in Good
        PROVE  <<s, g[s]>> \in Good
    <3>1. g[s \ {pick[s]}] \in D /\ pick[s] \in S
      BY <1>1, <2>2 DEF Picks
    <3>2. g[s] \in D
      BY <1>3, <2>2, <3>1
    <3> QED BY <3>2
  <2> HIDE DEF Good
  <2>3. \A s \in SUBSET S : <<s, g[s]>> \in Good
    BY <1>1, <2>1, <2>2, StepsKeep, SMTT(30)
  <2> QED BY <2>3 DEF Good
<1>5. g = [s \in SUBSET S |-> IF s = {} THEN b ELSE F[<<AnyIn(s), g[s \ {AnyIn(s)}]>>]]
  <2> DEFINE V(s) == IF s = {} THEN b ELSE F[<<pick[s], g[s \ {pick[s]}]>>]
             W(s) == IF s = {} THEN b ELSE F[<<AnyIn(s), g[s \ {AnyIn(s)}]>>]
  <2>1. \A s \in SUBSET S : V(s) = W(s)
    BY <1>1
  <2>2. g = [s \in SUBSET S |-> V(s)]
    BY <1>2 DEF Folds
  <2>3. [s \in SUBSET S |-> V(s)] = [s \in SUBSET S |-> W(s)]
    <3> HIDE DEF V, W
    <3> QED BY <2>1
  <2> HIDE DEF V
  <2> QED BY <2>2, <2>3
<1> QED BY <1>4, <1>5 DEF Overs

FoldsOver(g, S, D, b, F) ==
    /\ g[{}] = b
    /\ \A s \in SUBSET S : s # {} /\ g[s \ {AnyIn(s)}] \in D
                          => g[s] = F[<<AnyIn(s), g[s \ {AnyIn(s)}]>>]

(* What FoldSet returns is reached by taking the elements one by one.      *)
LEMMA OverFolds ==
  ASSUME NEW S, IsFiniteSet(S), NEW D, NEW b \in D, NEW F \in [S \X D -> D],
         NEW g, FoldsOver(g, S, D, b, F)
  PROVE  SetFolded(g[S], S, D, b, F)
<1> DEFINE pick == AnyOf(S)
<1>1. Picks(pick, S) /\ \A s \in SUBSET S : s # {} => pick[s] = AnyIn(s)
  BY AnyOfPicks DEF AnyOf, AnyIn
<1> HIDE DEF pick
<1>2. \A s \in SUBSET S : <<s, g[s]>> \in (SUBSET S) \X D
  <2> DEFINE Good == (SUBSET S) \X D
  <2>1. <<{}, g[{}]>> \in Good
    BY DEF FoldsOver
  <2>2. ASSUME NEW s \in SUBSET S, s # {}, <<s \ {pick[s]}, g[s \ {pick[s]}]>> \in Good
        PROVE  <<s, g[s]>> \in Good
    <3>1. g[s \ {pick[s]}] \in D /\ pick[s] \in S
      BY <1>1, <2>2 DEF Picks
    <3>2. g[s] = F[<<pick[s], g[s \ {pick[s]}]>>]
      BY <1>1, <2>2, <3>1 DEF FoldsOver
    <3> QED BY <3>1, <3>2
  <2> HIDE DEF Good
  <2>3. \A s \in SUBSET S : <<s, g[s]>> \in Good
    BY <1>1, <2>1, <2>2, StepsKeep, ZenonT(30)
  <2> QED BY <2>3 DEF Good
<1>3. \A s \in SUBSET S : s # {} => \E x \in s : g[s] = F[<<x, g[s \ {x}]>>]
  <2> TAKE s \in SUBSET S
  <2> HAVE s # {}
  <2>1. pick[s] \in s /\ pick[s] = AnyIn(s)
    BY <1>1 DEF Picks
  <2>2. g[s \ {AnyIn(s)}] \in D
    BY <1>2
  <2> QED BY <2>1, <2>2 DEF FoldsOver
<1> DEFINE v == g[S]
<1>4. /\ v = g[S] /\ g[{}] = b
      /\ \A s \in SUBSET S : g[s] \in D
      /\ \A s \in SUBSET S : s # {} => \E x \in s : g[s] = F[<<x, g[s \ {x}]>>]
  BY <1>2, <1>3 DEF FoldsOver
<1> HIDE DEF v
<1>5. SetFolded(v, S, D, b, F)
  BY <1>4 DEF SetFolded
<1> QED BY <1>5 DEF v

(* What is true of the start, and for each element kept whatever was done   *)
(* before, is true at the end.                                              *)
LEMMA SetFoldKeeps ==
  ASSUME NEW S, IsFiniteSet(S), NEW D, NEW b \in D, NEW F, NEW v, SetFolded(v, S, D, b, F),
         NEW Good, <<{}, b>> \in Good,
         \A s \in SUBSET S, x \in S, w \in D :
            x \notin s /\ <<s, w>> \in Good => <<s \union {x}, F[<<x, w>>]>> \in Good
  PROVE  <<S, v>> \in Good /\ v \in D
<1>1. PICK g : /\ v = g[S] /\ g[{}] = b
               /\ \A s \in SUBSET S : g[s] \in D
               /\ \A s \in SUBSET S : s # {} => \E x \in s : g[s] = F[<<x, g[s \ {x}]>>]
  BY DEF SetFolded
<1> DEFINE Bad == {s \in SUBSET S : <<s, g[s]>> \notin Good}
<1>2. SUFFICES ASSUME Bad # {} PROVE FALSE
  BY <1>1
<1>3. PICK s \in Bad : \A y \in Bad : ~(y \subseteq s /\ y # s)
  <2>1. Bad \subseteq SUBSET S
    OBVIOUS
  <2> HIDE DEF Bad
  <2> QED BY <1>2, <2>1, LeastSubset
<1>4. s # {}
  BY <1>1, <1>3
<1>5. PICK x \in s : g[s] = F[<<x, g[s \ {x}]>>]
  BY <1>1, <1>4
<1>6. s \ {x} \notin Bad
  <2>1. s \ {x} \subseteq s /\ s \ {x} # s
    OBVIOUS
  <2> HIDE DEF Bad
  <2> QED BY <1>3, <2>1
<1>7. <<s \ {x}, g[s \ {x}]>> \in Good /\ s \ {x} \in SUBSET S /\ x \notin s \ {x}
      /\ g[s \ {x}] \in D /\ x \in S /\ (s \ {x}) \union {x} = s
  BY <1>1, <1>6
<1>8. <<(s \ {x}) \union {x}, F[<<x, g[s \ {x}]>>]>> \in Good
  BY <1>7
<1> QED BY <1>3, <1>5, <1>7, <1>8

(***************************************************************************)
(* Accounts: every change of what is known is told.                         *)
(***************************************************************************)
AccountEvents ==
    [kind : {"account"}, nick : Nicks, account : Logins \union {A!LoggedOut}, real : BOOLEAN]
    \union [kind : {"forgotten"}, nick : Nicks]

Mirrors == [Nicks -> A!Entries]

LEMMA MirrorStep ==
  ASSUME NEW m \in Mirrors, NEW e \in AccountEvents
  PROVE  A!Mirrored(m, e) \in Mirrors
BY DEF Mirrors, AccountEvents, A!Mirrored, A!Entries, A!Unknown

Mirroring(q) == [p \in (1..Len(q)) \X Mirrors |-> A!Mirrored(p[2], q[p[1]])]

LEMMA MirrorValues ==
  ASSUME NEW m \in Mirrors, NEW q \in Seq(AccountEvents)
  PROVE  Reached(FoldLeft(A!Mirrored, m, q), Len(q), Mirrors, m, Mirroring(q))
<1> DEFINE g[s \in SUBSET DOMAIN q] ==
              IF s = {} THEN m ELSE LET x == Max(s) IN A!Mirrored(g[s \ {x}], q[x])
           n == Len(q)
           F == Mirroring(q)
           Body(h) == [s \in SUBSET DOMAIN q |->
                         IF s = {} THEN m ELSE LET x == Max(s) IN A!Mirrored(h[s \ {x}], q[x])]
<1>1. n \in Nat /\ DOMAIN q = UpTo(n)
  BY DEF UpTo
<1>2. FoldLeft(A!Mirrored, m, q) = g[DOMAIN q]
  BY DEF FoldLeft, MapThenFoldSet
<1>3. F \in [UpTo(n) \X Mirrors -> Mirrors]
  <2>0. UpTo(n) = 1..n
    BY DEF UpTo
  <2>1. \A p \in UpTo(n) \X Mirrors : A!Mirrored(p[2], q[p[1]]) \in Mirrors
    BY <2>0, MirrorStep
  <2> QED BY <2>0, <2>1 DEF Mirroring
<1>4. \A k \in UpTo(n), v \in Mirrors : F[<<k, v>>] = A!Mirrored(v, q[k])
  BY DEF Mirroring, UpTo
<1> HIDE DEF n, F
<1>5. PICK h : Lefts(h, n, Mirrors, m, F)
  BY <1>1, <1>3, LeftExists
<1>6. \A s \in SUBSET UpTo(n) : s # {} => Max(s) \in UpTo(n) /\ s \ {Max(s)} \in SUBSET UpTo(n)
  BY <1>1, Greatest DEF UpTo
<1>7. h = Body(h)
  <2> DEFINE V(s) == IF s = {} THEN m ELSE F[<<Max(s), h[s \ {Max(s)}]>>]
             W(s) == IF s = {} THEN m ELSE A!Mirrored(h[s \ {Max(s)}], q[Max(s)])
  <2>1. \A s \in SUBSET UpTo(n) : V(s) = W(s)
    BY <1>4, <1>5, <1>6 DEF Lefts
  <2>2. h = [s \in SUBSET UpTo(n) |-> V(s)]
    BY <1>5 DEF Lefts
  <2>3. [s \in SUBSET UpTo(n) |-> V(s)] = [s \in SUBSET UpTo(n) |-> W(s)]
    <3> HIDE DEF V, W
    <3> QED BY <2>1
  <2> HIDE DEF V
  <2> QED BY <1>1, <2>2, <2>3
<1>8. g = Body(g)
  <2>1. (\E h_1 : h_1 = Body(h_1)) => g = Body(g)
    OBVIOUS
  <2> QED BY <1>7, <2>1
<1> HIDE DEF g
<1>9. g[{}] = m /\ \A s \in SUBSET UpTo(n) :
                      s # {} => g[s] = A!Mirrored(g[s \ {Max(s)}], q[Max(s)])
  BY <1>1, <1>8
<1>10. \A s \in SUBSET UpTo(n) : s # {} /\ g[s \ {Max(s)}] \in Mirrors
                                 => g[s] = F[<<Max(s), g[s \ {Max(s)}]>>]
  BY <1>4, <1>6, <1>9
<1>11. FoldsLeft(g, n, Mirrors, m, F)
  BY <1>9, <1>10 DEF FoldsLeft
<1>12. Reached(g[UpTo(n)], n, Mirrors, m, F)
  BY <1>1, <1>3, <1>11, LeftValues
<1> QED BY <1>1, <1>2, <1>12 DEF n, F

(* A queue without a channel is a queue.                                   *)
LEMMA WithoutType ==
  ASSUME NEW q \in Seq(Channels), NEW c
  PROVE  A!Without(q, c) \in Seq(Channels)
<1> DEFINE Keep(k, d) == IF d = c THEN k ELSE Append(k, d)
           D == Seq(Channels)
           m == <<>>
           g[s \in SUBSET DOMAIN q] ==
              IF s = {} THEN m ELSE LET x == Max(s) IN Keep(g[s \ {x}], q[x])
           n == Len(q)
           F == [p \in (1..Len(q)) \X D |-> Keep(p[2], q[p[1]])]
           Body(h) == [s \in SUBSET DOMAIN q |->
                         IF s = {} THEN m ELSE LET x == Max(s) IN Keep(h[s \ {x}], q[x])]
<1>0. m \in D /\ \A v \in D, k \in 1..Len(q) : Keep(v, q[k]) \in D
  OBVIOUS
<1>1. n \in Nat /\ DOMAIN q = UpTo(n)
  BY DEF UpTo
<1>2. A!Without(q, c) = g[DOMAIN q]
  BY DEF A!Without, A!FoldLeft, A!MapThenFoldSet, A!Max, Max
<1>3. F \in [UpTo(n) \X D -> D]
  <2>0. UpTo(n) = 1..n
    BY DEF UpTo
  <2>1. \A p \in UpTo(n) \X D : Keep(p[2], q[p[1]]) \in D
    BY <1>0, <2>0
  <2> QED BY <2>0, <2>1
<1>4. \A k \in UpTo(n), v \in D : F[<<k, v>>] = Keep(v, q[k])
  BY DEF UpTo
<1> HIDE DEF n, F, D, m, Keep
<1>5. PICK h : Lefts(h, n, D, m, F)
  BY <1>0, <1>1, <1>3, LeftExists
<1>6. \A s \in SUBSET UpTo(n) : s # {} => Max(s) \in UpTo(n) /\ s \ {Max(s)} \in SUBSET UpTo(n)
  BY <1>1, Greatest DEF UpTo
<1>7. h = Body(h)
  <2> DEFINE V(s) == IF s = {} THEN m ELSE F[<<Max(s), h[s \ {Max(s)}]>>]
             W(s) == IF s = {} THEN m ELSE Keep(h[s \ {Max(s)}], q[Max(s)])
  <2>1. \A s \in SUBSET UpTo(n) : V(s) = W(s)
    BY <1>4, <1>5, <1>6 DEF Lefts
  <2>2. h = [s \in SUBSET UpTo(n) |-> V(s)]
    BY <1>5 DEF Lefts
  <2>3. [s \in SUBSET UpTo(n) |-> V(s)] = [s \in SUBSET UpTo(n) |-> W(s)]
    <3> HIDE DEF V, W
    <3> QED BY <2>1
  <2> HIDE DEF V
  <2> QED BY <1>1, <2>2, <2>3
<1>8. g = Body(g)
  <2>1. (\E h_1 : h_1 = Body(h_1)) => g = Body(g)
    OBVIOUS
  <2> QED BY <1>7, <2>1
<1> HIDE DEF g
<1>9. g[{}] = m /\ \A s \in SUBSET UpTo(n) :
                      s # {} => g[s] = Keep(g[s \ {Max(s)}], q[Max(s)])
  BY <1>1, <1>8
<1>10. \A s \in SUBSET UpTo(n) : s # {} /\ g[s \ {Max(s)}] \in D
                                 => g[s] = F[<<Max(s), g[s \ {Max(s)}]>>]
  BY <1>4, <1>6, <1>9
<1>11. FoldsLeft(g, n, D, m, F)
  BY <1>9, <1>10 DEF FoldsLeft
<1>12. Reached(g[UpTo(n)], n, D, m, F)
  BY <1>0, <1>1, <1>3, <1>11, LeftValues
<1>13. g[UpTo(n)] \in D
  BY <1>1, <1>12 DEF Reached, Values
<1> QED BY <1>1, <1>2, <1>13 DEF D

(* A mirror that takes one more event.                                     *)
LEMMA MirrorAppend ==
  ASSUME NEW m \in Mirrors, NEW q \in Seq(AccountEvents)
  PROVE  /\ FoldLeft(A!Mirrored, m, q) \in Mirrors
         /\ q = <<>> => FoldLeft(A!Mirrored, m, q) = m
         /\ \A e \in AccountEvents :
               /\ Append(q, e) \in Seq(AccountEvents)
               /\ FoldLeft(A!Mirrored, m, Append(q, e))
                     = A!Mirrored(FoldLeft(A!Mirrored, m, q), e)
<1> DEFINE n == Len(q)
<1>0. n \in Nat
  OBVIOUS
<1>1. PICK r : Values(r, n, Mirrors, m, Mirroring(q))
               /\ FoldLeft(A!Mirrored, m, q) = r[n]
  BY MirrorValues DEF Reached
<1>2. r \in [0..n -> Mirrors] /\ r[0] = m
  BY <1>1 DEF Values
<1>3. FoldLeft(A!Mirrored, m, q) \in Mirrors
  BY <1>0, <1>1, <1>2
<1>4. q = <<>> => FoldLeft(A!Mirrored, m, q) = m
  BY <1>1, <1>2
<1>5. ASSUME NEW e \in AccountEvents
      PROVE  /\ Append(q, e) \in Seq(AccountEvents)
             /\ FoldLeft(A!Mirrored, m, Append(q, e))
                   = A!Mirrored(FoldLeft(A!Mirrored, m, q), e)
  <2> DEFINE p == Append(q, e)
  <2>1. p \in Seq(AccountEvents) /\ Len(p) = n + 1 /\ p[n + 1] = e
        /\ \A i \in 1..n : p[i] = q[i]
    OBVIOUS
  <2> HIDE DEF p
  <2>2. PICK s : Values(s, n + 1, Mirrors, m, Mirroring(p))
                 /\ FoldLeft(A!Mirrored, m, p) = s[n + 1]
    BY <2>1, MirrorValues DEF Reached
  <2>3. \A i \in 1..n, v \in Mirrors : Mirroring(q)[<<i, v>>] = Mirroring(p)[<<i, v>>]
    BY <1>0, <2>1 DEF Mirroring
  <2> HIDE DEF n
  <2>4. \A i \in 0..n : r[i] = s[i]
    <3> DEFINE G == Mirroring(p)
               H == Mirroring(q)
               k == n + 1
    <3>1. k \in Nat /\ n <= k
      BY <1>0
    <3>2. Values(r, n, Mirrors, m, H) /\ Values(s, k, Mirrors, m, G)
          /\ \A i \in 1..n, v \in Mirrors : H[<<i, v>>] = G[<<i, v>>]
      BY <1>1, <2>2, <2>3
    <3> HIDE DEF G, H, k
    <3> QED BY <1>0, <3>1, <3>2, ValuesAgree
  <2>5. s[n + 1] = Mirroring(p)[<<n + 1, s[n]>>] /\ s[n] = r[n]
    <3>1. n + 1 \in 1..(n + 1) /\ (n + 1) - 1 = n /\ n \in 0..n
      BY <1>0
    <3> QED BY <2>2, <2>4, <3>1 DEF Values
  <2>6. Mirroring(p)[<<n + 1, s[n]>>] = A!Mirrored(s[n], e)
    <3>1. n + 1 \in 1..Len(p) /\ s[n] \in Mirrors
      BY <1>0, <1>1, <1>3, <2>1, <2>5
    <3> QED BY <2>1, <3>1 DEF Mirroring
  <2> QED BY <1>1, <2>1, <2>2, <2>5, <2>6 DEF p
<1> QED BY <1>3, <1>4, <1>5

(* The record the worker keeps, of whatever queue and query.                *)
Accounts(a) ==
    a \in [users : Mirrors, queue : {a.queue}, query : {a.query}, token : {a.token},
           events : Seq(AccountEvents)]

Plain(users) == [n \in Nicks |-> [users[n] EXCEPT !.channels = {}]]

(* What the window holds once it has taken the events.                      *)
Told(m, a) == Accounts(a) /\ FoldLeft(A!Mirrored, m, a.events) = Plain(a.users)

LEMMA PlainIsMirror ==
  ASSUME NEW u \in Mirrors
  PROVE  Plain(u) \in Mirrors
BY DEF Plain, Mirrors, A!Entries

Bare(entry) == [account |-> entry.account, real |-> entry.real, channels |-> {}]

LEMMA PlainEntries ==
  ASSUME NEW u \in Mirrors
  PROVE  \A n \in Nicks : /\ Plain(u)[n] = Bare(u[n])
                           /\ u[n] \in A!Entries
                           /\ u[n] = [account |-> u[n].account, real |-> u[n].real,
                                      channels |-> u[n].channels]
BY DEF Plain, Bare, Mirrors, A!Entries

LEMMA PlainOne ==
  ASSUME NEW u \in Mirrors, NEW n \in Nicks, NEW x \in A!Entries
  PROVE  /\ [u EXCEPT ![n] = x] \in Mirrors
         /\ Plain([u EXCEPT ![n] = x]) = [Plain(u) EXCEPT ![n] = Bare(x)]
         /\ Bare(x) = Bare(u[n]) => Plain([u EXCEPT ![n] = x]) = Plain(u)
<1> DEFINE v == [u EXCEPT ![n] = x]
<1>1. v \in Mirrors
  BY DEF Mirrors
<1>2. v = [k \in Nicks |-> IF k = n THEN x ELSE u[k]]
  BY DEF Mirrors
<1> HIDE DEF v
<1>3. \A k \in Nicks : Plain(v)[k] = IF k = n THEN Bare(x) ELSE Plain(u)[k]
  BY <1>1, <1>2, PlainEntries, ZenonT(30)
<1>4. Plain(v) = [k \in Nicks |-> Plain(v)[k]] /\ Plain(u) = [k \in Nicks |-> Plain(u)[k]]
  BY DEF Plain
<1>5. Plain(v) = [Plain(u) EXCEPT ![n] = Bare(x)]
  BY <1>3, <1>4
<1>6. Bare(x) = Bare(u[n]) => Plain(v) = Plain(u)
  BY <1>3, <1>4, PlainEntries
<1> QED BY <1>1, <1>5, <1>6 DEF v

LEMMA TellsOne ==
  ASSUME NEW m \in Mirrors, NEW a, Accounts(a), NEW b, Accounts(b), NEW e \in AccountEvents,
         b.events = Append(a.events, e),
         Plain(b.users) = A!Mirrored(Plain(a.users), e), Told(m, a)
  PROVE  Told(m, b)
<1>1. a.events \in Seq(AccountEvents)
  BY DEF Accounts
<1>2. FoldLeft(A!Mirrored, m, Append(a.events, e))
        = A!Mirrored(FoldLeft(A!Mirrored, m, a.events), e)
  BY <1>1, MirrorAppend
<1> QED BY <1>2 DEF Told

Queries == {A!NoQuery} \union [channel : Channels, token : 1..999, departed : SUBSET Nicks]

AsksOK(a) == a.queue \in Seq(Channels) /\ a.query \in Queries /\ a.token \in 0..999

(* From a to b, whatever changed was told.                                  *)
Follows(a, b) ==
    /\ Accounts(b)
    /\ \A m \in Mirrors : Told(m, a) => Told(m, b)
    /\ AsksOK(a) => AsksOK(b)

LEMMA FollowsOn ==
  ASSUME NEW a, NEW b, NEW c, Follows(a, b), Follows(b, c)
  PROVE  Follows(a, c)
BY DEF Follows

LEMMA SamePlain ==
  ASSUME NEW a, NEW b, Accounts(a), Accounts(b), b.events = a.events,
         Plain(b.users) = Plain(a.users), AsksOK(a) => AsksOK(b)
  PROVE  Follows(a, b)
BY DEF Follows, Told

SameAsks(a, b) == b.queue = a.queue /\ b.query = a.query /\ b.token = a.token

(* Forgetting a nickname is told.                                          *)
LEMMA ForgetUserFollows ==
  ASSUME NEW a, Accounts(a), NEW n \in Nicks
  PROVE  /\ Follows(a, A!ForgetUser(a, n))
         /\ SameAsks(a, A!ForgetUser(a, n))
         /\ A!ForgetUser(a, n).users = [a.users EXCEPT ![n] = A!Unknown]
<1> DEFINE e == [kind |-> "forgotten", nick |-> n]
           b == [a EXCEPT !.users[n] = A!Unknown, !.events = Append(@, e)]
<1>1. CASE ~A!IsKnown(a, n)
  <2>1. A!ForgetUser(a, n) = a /\ a.users[n] = A!Unknown
    BY <1>1 DEF A!ForgetUser, A!IsKnown
  <2>2. a.users \in Mirrors
    BY DEF Accounts
  <2>3. a.users = [a.users EXCEPT ![n] = A!Unknown]
    BY <2>1, <2>2 DEF Mirrors
  <2> QED BY <2>1, <2>3 DEF Follows, SameAsks
<1>2. CASE A!IsKnown(a, n)
  <2>1. A!ForgetUser(a, n) = b
    BY <1>2 DEF A!ForgetUser
  <2>2. e \in AccountEvents /\ A!Unknown \in A!Entries
    BY DEF AccountEvents, A!Unknown, A!Entries
  <2>3. /\ b.users = [a.users EXCEPT ![n] = A!Unknown] /\ b.queue = a.queue
        /\ b.query = a.query /\ b.token = a.token /\ b.events = Append(a.events, e)
        /\ b \in [users : {b.users}, queue : {b.queue}, query : {b.query},
                  token : {b.token}, events : {b.events}]
    BY DEF Accounts
  <2> HIDE DEF b
  <2>a. a.users \in Mirrors /\ a.events \in Seq(AccountEvents)
    BY DEF Accounts
  <2>b. b.users \in Mirrors
    BY <2>2, <2>3, <2>a DEF Mirrors
  <2>c. b.events \in Seq(AccountEvents)
    BY <2>2, <2>3, <2>a
  <2>4. Accounts(b)
    BY <2>3, <2>b, <2>c DEF Accounts
  <2>5. Plain(b.users) = A!Mirrored(Plain(a.users), e)
    <3>1. Bare(A!Unknown) = A!Unknown
      BY DEF Bare, A!Unknown
    <3>2. Plain(b.users) = [Plain(a.users) EXCEPT ![n] = A!Unknown]
      BY <2>2, <2>3, <2>a, <3>1, PlainOne
    <3> QED BY <3>2 DEF A!Mirrored
  <2>6. \A m \in Mirrors : Told(m, a) => Told(m, b)
    BY <2>2, <2>3, <2>4, <2>5, TellsOne
  <2>7. AsksOK(a) => AsksOK(b)
    BY <2>3 DEF AsksOK
  <2> QED BY <2>1, <2>3, <2>4, <2>6, <2>7 DEF Follows, SameAsks
<1> QED BY <1>1, <1>2

(* A change of one user's entry.                                           *)
LEMMA EntryChange ==
  ASSUME NEW a, Accounts(a), NEW n \in Nicks, NEW x \in A!Entries
  PROVE  LET b == [a EXCEPT !.users[n] = x]
             c == A!Said(b, n, x)
         IN /\ Accounts(b) /\ b.users = [a.users EXCEPT ![n] = x] /\ b.events = a.events
            /\ Bare(x) = Bare(a.users[n]) => Follows(a, b)
            /\ Follows(a, c)
            /\ SameAsks(a, b) /\ SameAsks(a, c) /\ c.users = b.users
<1> DEFINE b == [a EXCEPT !.users[n] = x]
           e == [kind |-> "account", nick |-> n, account |-> x.account, real |-> x.real]
           c == [b EXCEPT !.events = Append(@, e)]
<1>1. a.users \in Mirrors /\ a.events \in Seq(AccountEvents) /\ e \in AccountEvents
      /\ e.account = x.account /\ e.real = x.real /\ e.kind = "account" /\ e.nick = n
  BY DEF Accounts, AccountEvents, A!Entries
<1>2. /\ b.users = [a.users EXCEPT ![n] = x] /\ b.queue = a.queue
      /\ b.query = a.query /\ b.token = a.token /\ b.events = a.events
      /\ b \in [users : {b.users}, queue : {b.queue}, query : {b.query},
                token : {b.token}, events : {b.events}]
  BY DEF Accounts
<1>3. A!Said(b, n, x) = c
  BY DEF A!Said
<1> HIDE DEF b, e
<1>4. /\ c.users = b.users /\ c.queue = b.queue
      /\ c.query = b.query /\ c.token = b.token /\ c.events = Append(b.events, e)
      /\ c \in [users : {c.users}, queue : {c.queue}, query : {c.query},
                token : {c.token}, events : {c.events}]
  BY <1>2
<1> HIDE DEF c
<1>5. b.users \in Mirrors /\ Plain(b.users) = [Plain(a.users) EXCEPT ![n] = Bare(x)]
      /\ (Bare(x) = Bare(a.users[n]) => Plain(b.users) = Plain(a.users))
  <2> DEFINE u == a.users
  <2>1. u \in Mirrors
    BY <1>1
  <2> HIDE DEF u
  <2>2. /\ [u EXCEPT ![n] = x] \in Mirrors
        /\ Plain([u EXCEPT ![n] = x]) = [Plain(u) EXCEPT ![n] = Bare(x)]
        /\ Bare(x) = Bare(u[n]) => Plain([u EXCEPT ![n] = x]) = Plain(u)
    BY <2>1, PlainOne
  <2> QED BY <1>2, <2>2 DEF u
<1>6. c.events \in Seq(AccountEvents)
  BY <1>1, <1>2, <1>4
<1>7. Accounts(b)
  BY <1>1, <1>2, <1>5 DEF Accounts
<1>8. Accounts(c)
  BY <1>4, <1>5, <1>6 DEF Accounts
<1>9. Plain(c.users) = A!Mirrored(Plain(a.users), e)
  BY <1>1, <1>4, <1>5 DEF A!Mirrored, Bare
<1>12. AsksOK(a) => AsksOK(c)
  BY <1>2, <1>4 DEF AsksOK
<1>10. Follows(a, c)
  BY <1>1, <1>2, <1>4, <1>8, <1>9, <1>12, TellsOne, SMTT(30) DEF Follows
<1>11. Bare(x) = Bare(a.users[n]) => Follows(a, b)
  BY <1>2, <1>5, <1>7, SamePlain DEF AsksOK
<1>13. SameAsks(a, b) /\ SameAsks(a, c)
  BY <1>2, <1>4 DEF SameAsks
<1> QED BY <1>2, <1>3, <1>4, <1>7, <1>10, <1>11, <1>13 DEF b

(* What is learned of a nickname is told.                                  *)
LEMMA LearnFollows ==
  ASSUME NEW a, Accounts(a), NEW n \in Nicks,
         NEW account \in Logins \union {A!LoggedOut, A!Unsaid}, NEW real \in BOOLEAN,
         NEW channels \in SUBSET Channels
  PROVE  Follows(a, A!Learn(a, n, account, real, channels))
<1> DEFINE before == a.users[n]
           after == [account |-> IF account = A!Unsaid THEN before.account ELSE account,
                     real |-> before.real \/ real,
                     channels |-> before.channels \union channels]
           saved == [a EXCEPT !.users[n] = after]
<1>1. before \in A!Entries
  BY DEF Accounts, Mirrors
<1>2. after \in A!Entries
  BY <1>1 DEF A!Entries, A!Unsaid, A!LoggedOut
<1>3. A!Learn(a, n, account, real, channels) =
        IF ~A!IsKnown(a, n) /\ channels = {} THEN a
        ELSE IF ~A!Keeps(after) THEN A!ForgetUser(a, n)
        ELSE IF before.account = after.account /\ before.real = after.real THEN saved
        ELSE A!Said(saved, n, after)
  BY DEF A!Learn
<1> HIDE DEF after
<1>4. before.account = after.account /\ before.real = after.real
        => Bare(after) = Bare(a.users[n])
  BY DEF Bare
<1>5. /\ Bare(after) = Bare(a.users[n]) => Follows(a, saved)
      /\ Follows(a, A!Said(saved, n, after))
  BY <1>2, EntryChange
<1>6. Follows(a, a) /\ Follows(a, A!ForgetUser(a, n))
  BY ForgetUserFollows DEF Follows
<1> QED BY <1>3, <1>4, <1>5, <1>6

Left(entry, c) ==
    IF entry.channels \subseteq {c} THEN A!Unknown
    ELSE [entry EXCEPT !.channels = @ \ {c}]

LEMMA LeaveChannelFollows ==
  ASSUME NEW a, Accounts(a), NEW n \in Nicks, NEW c
  PROVE  /\ Follows(a, A!LeaveChannel(a, n, c))
         /\ SameAsks(a, A!LeaveChannel(a, n, c))
         /\ A!LeaveChannel(a, n, c).users = [a.users EXCEPT ![n] = Left(a.users[n], c)]
         /\ Left(a.users[n], c) \in A!Entries
<1> DEFINE x == [a.users[n] EXCEPT !.channels = @ \ {c}]
<1>1. x \in A!Entries /\ Bare(x) = Bare(a.users[n]) /\ A!Unknown \in A!Entries
  <2>1. a.users[n] \in A!Entries
    BY DEF Accounts, Mirrors
  <2> QED BY <2>1 DEF A!Entries, Bare, A!Unknown
<1>2. A!LeaveChannel(a, n, c) = IF a.users[n].channels \subseteq {c} THEN A!ForgetUser(a, n)
                                ELSE [a EXCEPT !.users[n] = x]
  BY DEF A!LeaveChannel
<1>5. Left(a.users[n], c) = IF a.users[n].channels \subseteq {c} THEN A!Unknown ELSE x
  BY DEF Left
<1> HIDE DEF x
<1>3. /\ Follows(a, [a EXCEPT !.users[n] = x]) /\ SameAsks(a, [a EXCEPT !.users[n] = x])
      /\ [a EXCEPT !.users[n] = x].users = [a.users EXCEPT ![n] = x]
  BY <1>1, EntryChange, ZenonT(30)
<1>4. /\ Follows(a, A!ForgetUser(a, n)) /\ SameAsks(a, A!ForgetUser(a, n))
      /\ A!ForgetUser(a, n).users = [a.users EXCEPT ![n] = A!Unknown]
  BY ForgetUserFollows
<1> QED BY <1>1, <1>2, <1>3, <1>4, <1>5

(* What only changes the queue or the query.                               *)
LEMMA SameUsers ==
  ASSUME NEW a, Accounts(a), NEW b,
         b \in [users : {a.users}, queue : {b.queue}, query : {b.query}, token : {b.token},
                events : {a.events}],
         AsksOK(a) => AsksOK(b)
  PROVE  Follows(a, b)
<1>1. b.users = a.users /\ b.events = a.events
  OBVIOUS
<1>2. Accounts(b)
  BY <1>1 DEF Accounts
<1> QED BY <1>1, <1>2, SamePlain

LEMMA AsksFollow ==
  ASSUME NEW a, Accounts(a)
  PROVE  /\ \A n \in Nicks, channels \in SUBSET Channels :
               /\ Follows(a, A!Departed(a, n, channels))
               /\ Follows(a, A!Returned(a, n, channels))
               /\ A!Departed(a, n, channels).users = a.users
               /\ A!Returned(a, n, channels).users = a.users
         /\ \A c \in Channels : Follows(a, A!Joined(a, c))
         /\ \A c : Follows(a, A!WhoEnd(a, c))
         /\ \A expired \in BOOLEAN : Follows(a, A!NextWho(a, expired))
<1>0. Follows(a, a)
  BY DEF Follows
<1>1. ASSUME NEW q, AsksOK(a) => q \in Queries
      PROVE  Follows(a, [a EXCEPT !.query = q]) /\ [a EXCEPT !.query = q].users = a.users
  <2> DEFINE b == [a EXCEPT !.query = q]
  <2>1. b \in [users : {a.users}, queue : {b.queue}, query : {b.query}, token : {b.token},
                events : {a.events}]
    BY DEF Accounts
  <2>2. b.queue = a.queue /\ b.query = q /\ b.token = a.token
    BY DEF Accounts
  <2>3. AsksOK(a) => AsksOK(b)
    BY <1>1, <2>2 DEF AsksOK
  <2> QED BY <2>1, <2>3, SameUsers
<1>2. ASSUME NEW n \in Nicks, NEW channels \in SUBSET Channels
      PROVE  /\ Follows(a, A!Departed(a, n, channels)) /\ Follows(a, A!Returned(a, n, channels))
             /\ A!Departed(a, n, channels).users = a.users
             /\ A!Returned(a, n, channels).users = a.users
  <2> DEFINE q1 == [a.query EXCEPT !.departed = @ \union {n}]
             q2 == [a.query EXCEPT !.departed = @ \ {n}]
  <2>1. AsksOK(a) => q2 \in Queries
    <3>1. SUFFICES ASSUME AsksOK(a) PROVE q2 \in Queries
      OBVIOUS
    <3>2. CASE a.query = A!NoQuery
      BY <3>2 DEF Queries, A!NoQuery
    <3>3. CASE a.query # A!NoQuery
      <4>1. a.query \in [channel : Channels, token : 1..999, departed : SUBSET Nicks]
        BY <3>1, <3>3 DEF AsksOK, Queries
      <4> QED BY <4>1 DEF Queries
    <3> QED BY <3>2, <3>3
  <2>2. AsksOK(a) /\ a.query # A!NoQuery => q1 \in Queries
    <3>1. SUFFICES ASSUME AsksOK(a), a.query # A!NoQuery PROVE q1 \in Queries
      OBVIOUS
    <3>2. a.query \in [channel : Channels, token : 1..999, departed : SUBSET Nicks]
      BY <3>1 DEF AsksOK, Queries
    <3> QED BY <3>2 DEF Queries
  <2>3. a.query.channel \in channels => a.query # A!NoQuery
    BY RostersAssumption DEF A!NoQuery, NoNick, P!NoNick
  <2>4. Follows(a, [a EXCEPT !.query = q2]) /\ [a EXCEPT !.query = q2].users = a.users
    BY <1>1, <2>1
  <2>5. a.query # A!NoQuery => /\ Follows(a, [a EXCEPT !.query = q1])
                              /\ [a EXCEPT !.query = q1].users = a.users
    BY <1>1, <2>2
  <2>6. A!Returned(a, n, channels) \in {a, [a EXCEPT !.query = q2]}
    BY DEF A!Returned
  <2>7. A!Departed(a, n, channels) =
          IF a.query.channel \in channels THEN [a EXCEPT !.query = q1] ELSE a
    BY DEF A!Departed
  <2> HIDE DEF q1, q2
  <2> QED BY <1>0, <2>3, <2>4, <2>5, <2>6, <2>7
<1>3. ASSUME NEW c PROVE Follows(a, A!WhoEnd(a, c))
  BY <1>0, <1>1 DEF A!WhoEnd, Queries
<1>5. ASSUME NEW c \in Channels PROVE Follows(a, A!Joined(a, c))
  <2> DEFINE b == [a EXCEPT !.queue = Append(@, c)]
  <2>1. b \in [users : {a.users}, queue : {b.queue}, query : {b.query}, token : {b.token},
                events : {a.events}]
    BY DEF Accounts
  <2>3. b.queue = Append(a.queue, c) /\ b.query = a.query /\ b.token = a.token
    BY DEF Accounts
  <2>4. AsksOK(a) => AsksOK(b)
    BY <2>3 DEF AsksOK
  <2>2. Follows(a, b)
    BY <2>1, <2>4, SameUsers
  <2> QED BY <1>0, <2>2 DEF A!Joined
<1>4. ASSUME NEW expired \in BOOLEAN PROVE Follows(a, A!NextWho(a, expired))
  <2> DEFINE free == IF expired THEN [a EXCEPT !.query = A!NoQuery] ELSE a
             b == A!NextWho(a, expired)
  <2>1. Follows(a, free)
    BY <1>0, <1>1 DEF Queries
  <2>2. Accounts(free) /\ free.queue = a.queue /\ free.token = a.token
    BY <2>1 DEF Follows, Accounts
  <2>3. CASE ~A!AsksNext(a, expired)
    BY <2>1, <2>3 DEF A!NextWho
  <2>4. CASE A!AsksNext(a, expired)
    <3> DEFINE token == (a.token % 999) + 1
               q == [channel |-> Head(a.queue), token |-> token, departed |-> {}]
    <3>1. b = [free EXCEPT !.queue = Tail(@), !.token = token, !.query = q]
      BY <2>4 DEF A!NextWho
    <3> HIDE DEF b, token, q, free
    <3>2. b \in [users : {free.users}, queue : {b.queue}, query : {b.query},
                  token : {b.token}, events : {free.events}]
      BY <2>2, <3>1 DEF Accounts
    <3>5. b.queue = Tail(a.queue) /\ b.token = token /\ b.query = q
      BY <2>2, <3>1 DEF Accounts
    <3>6. AsksOK(free) => AsksOK(b)
      <4>1. SUFFICES ASSUME AsksOK(free) PROVE AsksOK(b)
        OBVIOUS
      <4>2. Tail(a.queue) \in Seq(Channels)
        BY <2>2, <2>4, <4>1 DEF AsksOK, A!AsksNext
      <4>3. token \in 1..999
        <5>1. a.token \in 0..999
          BY <2>2, <4>1 DEF AsksOK
        <5> QED BY <5>1 DEF token
      <4>4. Head(a.queue) \in Channels
        BY <2>2, <2>4, <4>1 DEF AsksOK, A!AsksNext
      <4>5. q \in Queries
        BY <4>3, <4>4 DEF q, Queries
      <4> QED BY <3>5, <4>2, <4>3, <4>5 DEF AsksOK
    <3>3. Follows(free, b)
      BY <2>2, <3>2, <3>6, SameUsers
    <3> QED BY <2>1, <3>3, FollowsOn DEF b
  <2> QED BY <2>3, <2>4
<1> QED BY <1>2, <1>3, <1>4, <1>5

(* The lines about somebody else.                                          *)
LEMMA JoinFollows ==
  ASSUME NEW a, Accounts(a), NEW n \in Nicks, NEW c \in Channels,
         NEW account \in Logins \union {A!LoggedOut, A!Unsaid}
  PROVE  Follows(a, A!SomeoneJoined(a, n, c, account))
<1> DEFINE b == A!Returned(a, n, {c})
           x == [b.users[n] EXCEPT !.channels = @ \union {c}]
<1>1. Follows(a, b) /\ Accounts(b)
  BY AsksFollow DEF Follows
<1> HIDE DEF b
<1>2. Follows(b, A!Learn(b, n, account, TRUE, {c}))
  BY <1>1, LearnFollows
<1>3. x \in A!Entries /\ Bare(x) = Bare(b.users[n])
  <2>1. b.users[n] \in A!Entries
    BY <1>1 DEF Accounts, Mirrors
  <2> QED BY <2>1 DEF A!Entries, Bare
<1>4. A!SomeoneJoined(a, n, c, account) =
         IF account # A!Unsaid THEN A!Learn(b, n, account, TRUE, {c})
         ELSE IF A!IsKnown(b, n) THEN [b EXCEPT !.users[n] = x] ELSE b
  BY DEF A!SomeoneJoined, b
<1> HIDE DEF x
<1>5. Follows(b, [b EXCEPT !.users[n] = x])
  BY <1>1, <1>3, EntryChange
<1>6. Follows(b, b)
  BY <1>1 DEF Follows
<1>7. Follows(b, A!SomeoneJoined(a, n, c, account))
  BY <1>2, <1>4, <1>5, <1>6
<1> QED BY <1>1, <1>7, FollowsOn

LEMMA GoneFollows ==
  ASSUME NEW a, Accounts(a), NEW n \in Nicks, NEW c \in Channels
  PROVE  Follows(a, A!SomeoneLeft(a, n, c)) /\ Follows(a, A!SomeoneQuit(a, n))
<1>1. ASSUME NEW channels \in SUBSET Channels
      PROVE  Follows(a, A!Departed(a, n, channels)) /\ Accounts(A!Departed(a, n, channels))
  BY AsksFollow DEF Follows
<1>2. Follows(a, A!SomeoneLeft(a, n, c))
  BY <1>1, LeaveChannelFollows, FollowsOn DEF A!SomeoneLeft
<1>3. Follows(a, A!SomeoneQuit(a, n))
  BY <1>1, ForgetUserFollows, FollowsOn DEF A!SomeoneQuit
<1> QED BY <1>2, <1>3

LEMMA WhoFollows ==
  ASSUME NEW a, Accounts(a), AsksOK(a), NEW n \in Nicks,
         NEW account \in Logins \union {A!LoggedOut}, NEW token \in 1..999
  PROVE  Follows(a, A!WhoLine(a, token, n, account))
<1>1. Follows(a, a)
  BY DEF Follows
<1>2. token = a.query.token => {a.query.channel} \in SUBSET Channels
  <2>1. CASE a.query = A!NoQuery
    BY <2>1 DEF A!NoQuery
  <2>2. CASE a.query # A!NoQuery
    <3>1. a.query \in [channel : Channels, token : 1..999, departed : SUBSET Nicks]
      BY <2>2 DEF AsksOK, Queries
    <3> QED BY <3>1
  <2> QED BY <2>1, <2>2
<1> QED BY <1>1, <1>2, LearnFollows DEF A!WhoLine

LEMMA TwoFields ==
  ASSUME NEW u, NEW q, NEW y, NEW t, NEW v, NEW r,
         r = [users |-> u, queue |-> q, query |-> y, token |-> t, events |-> v],
         NEW x, NEW w
  PROVE  /\ [r EXCEPT !.users = x]
                = [users |-> x, queue |-> q, query |-> y, token |-> t, events |-> v]
         /\ [r EXCEPT !.users = x, !.events = w]
                = [users |-> x, queue |-> q, query |-> y, token |-> t, events |-> w]
         /\ r.users = u /\ r.events = v
<1> DEFINE s == [r EXCEPT !.users = x]
<1>1. s = [users |-> x, queue |-> q, query |-> y, token |-> t, events |-> v]
  OBVIOUS
<1> HIDE DEF s
<1>2. [s EXCEPT !.events = w]
        = [users |-> x, queue |-> q, query |-> y, token |-> t, events |-> w]
  BY <1>1
<1>3. r.users = u /\ r.events = v
  OBVIOUS
<1> QED BY <1>1, <1>2, <1>3 DEF s

(* A NICK is told: both nicknames are, in the order that leaves the same.  *)
LEMMA RenameFollows ==
  ASSUME NEW a, Accounts(a), NEW old \in Nicks, NEW new \in Nicks
  PROVE  Follows(a, A!SomeoneRenamed(a, old, new))
<1> DEFINE d == A!Departed(a, old, Channels)
           b == A!Returned(d, new, Channels)
           moved == a.users[old]
           taken == [b EXCEPT !.users[old] = A!Unknown]
           c == A!ForgetUser(taken, new)
           e == [kind |-> "forgotten", nick |-> old]
           after == [c EXCEPT !.users[new] = moved, !.events = Append(@, e)]
<1>1. Follows(a, b) /\ Accounts(b) /\ b.users = a.users
  <2>1. Follows(a, d) /\ Accounts(d) /\ d.users = a.users
    BY AsksFollow DEF Follows
  <2> HIDE DEF d
  <2>2. Follows(d, b) /\ b.users = d.users
    BY <2>1, AsksFollow
  <2> HIDE DEF b
  <2>3. Follows(a, b)
    BY <2>1, <2>2, FollowsOn
  <2> QED BY <2>1, <2>2, <2>3 DEF Follows
<1>2. A!SomeoneRenamed(a, old, new) =
        IF ~A!IsKnown(a, old) THEN c ELSE A!Said(after, new, moved)
  BY DEF A!SomeoneRenamed
<1>3. CASE ~A!IsKnown(a, old)
  <2>1. A!Unknown \in A!Entries
    BY DEF A!Unknown, A!Entries
  <2>2. Bare(A!Unknown) = Bare(b.users[old])
    BY <1>1, <1>3 DEF A!IsKnown
  <2> HIDE DEF b
  <2>3. Follows(b, taken) /\ Accounts(taken)
    BY <1>1, <2>1, <2>2, EntryChange
  <2> HIDE DEF taken
  <2>4. Follows(taken, c)
    BY <2>3, ForgetUserFollows
  <2> HIDE DEF c
  <2> QED BY <1>1, <1>2, <1>3, <2>3, <2>4, FollowsOn
<1>4. CASE A!IsKnown(a, old)
  <2> DEFINE f1 == A!ForgetUser(b, new)
             f2 == IF old = new THEN f1 ELSE A!ForgetUser(f1, old)
             g == [f2 EXCEPT !.users[new] = moved]
  <2>1. moved \in A!Entries /\ b.users[old] = moved /\ moved # A!Unknown
    BY <1>1, <1>4 DEF A!IsKnown, Accounts, Mirrors
  <2>2. Follows(b, f2) /\ Accounts(f2)
    <3> HIDE DEF b
    <3>1. Follows(b, f1) /\ Accounts(f1)
      BY <1>1, ForgetUserFollows DEF Follows
    <3> HIDE DEF f1
    <3>2. Follows(f1, A!ForgetUser(f1, old))
      BY <3>1, ForgetUserFollows
    <3>3. Follows(b, A!ForgetUser(f1, old))
      BY <3>1, <3>2, FollowsOn
    <3> QED BY <3>1, <3>2, <3>3 DEF Follows
  <2>3. after = g
    <3> HIDE DEF b, moved
    <3> DEFINE u == b.users
               q == b.queue
               y == b.query
               t == b.token
               v == b.events
    <3>1. u \in Mirrors /\ v \in Seq(AccountEvents)
      BY <1>1 DEF Accounts
    <3>2. b = [users |-> u, queue |-> q, query |-> y, token |-> t, events |-> v]
      BY <1>1 DEF Accounts
    <3>3. u[old] # A!Unknown
      BY <2>1
    <3> HIDE DEF u, q, y, t, v
    <3>4. taken = [users |-> [u EXCEPT ![old] = A!Unknown], queue |-> q, query |-> y,
                   token |-> t, events |-> v]
      BY <3>2
    <3> HIDE DEF taken
    <3>5. CASE old = new
      <4> DEFINE X == [[u EXCEPT ![old] = A!Unknown] EXCEPT ![new] = moved]
                 W == Append(v, e)
      <4>1. c = taken
        BY <3>1, <3>4, <3>5 DEF A!ForgetUser, A!IsKnown, Mirrors
      <4>2. f2 = [users |-> [u EXCEPT ![old] = A!Unknown], queue |-> q, query |-> y,
                  token |-> t, events |-> Append(v, e)]
        BY <3>2, <3>3, <3>5 DEF A!ForgetUser, A!IsKnown
      <4> HIDE DEF c, f2, e
      <4>8. after = [users |-> X, queue |-> q, query |-> y, token |-> t, events |-> W]
        <5>1. c = [users |-> [u EXCEPT ![old] = A!Unknown], queue |-> q, query |-> y, token |-> t, events |-> v]
          BY <3>4, <4>1
        <5>2. c.users = [u EXCEPT ![old] = A!Unknown] /\ c.events = v
          BY <5>1
        <5>3. after = [c EXCEPT !.users = X, !.events = W]
          BY <5>2, Zenon DEF X, W
        <5> HIDE DEF X, W, after
        <5> QED BY <5>1, <5>3, TwoFields
      <4>9. g = [users |-> X, queue |-> q, query |-> y, token |-> t, events |-> W]
        <5>1. f2 = [users |-> [u EXCEPT ![old] = A!Unknown], queue |-> q, query |-> y, token |-> t, events |-> W]
          BY <4>2
        <5>2. f2.users = [u EXCEPT ![old] = A!Unknown]
          BY <5>1
        <5>3. g = [f2 EXCEPT !.users = X]
          BY <5>2, Zenon DEF X
        <5> HIDE DEF X, W, g
        <5> QED BY <5>1, <5>3, TwoFields
      <4> QED BY <4>8, <4>9
    <3>6. CASE old # new /\ u[new] = A!Unknown
      <4> DEFINE X == [[u EXCEPT ![old] = A!Unknown] EXCEPT ![new] = moved]
                 W == Append(v, e)
      <4>1. c = taken
        BY <3>1, <3>4, <3>6 DEF A!ForgetUser, A!IsKnown, Mirrors
      <4>2. f1 = b
        BY <3>2, <3>6 DEF A!ForgetUser, A!IsKnown
      <4> HIDE DEF f1
      <4>3. f2 = [users |-> [u EXCEPT ![old] = A!Unknown], queue |-> q, query |-> y,
                  token |-> t, events |-> Append(v, e)]
        BY <3>2, <3>3, <3>6, <4>2 DEF A!ForgetUser, A!IsKnown
      <4> HIDE DEF c, f2, e
      <4>8. after = [users |-> X, queue |-> q, query |-> y, token |-> t, events |-> W]
        <5>1. c = [users |-> [u EXCEPT ![old] = A!Unknown], queue |-> q, query |-> y, token |-> t, events |-> v]
          BY <3>4, <4>1
        <5>2. c.users = [u EXCEPT ![old] = A!Unknown] /\ c.events = v
          BY <5>1
        <5>3. after = [c EXCEPT !.users = X, !.events = W]
          BY <5>2, Zenon DEF X, W
        <5> HIDE DEF X, W, after
        <5> QED BY <5>1, <5>3, TwoFields
      <4>9. g = [users |-> X, queue |-> q, query |-> y, token |-> t, events |-> W]
        <5>1. f2 = [users |-> [u EXCEPT ![old] = A!Unknown], queue |-> q, query |-> y, token |-> t, events |-> W]
          BY <4>3
        <5>2. f2.users = [u EXCEPT ![old] = A!Unknown]
          BY <5>1
        <5>3. g = [f2 EXCEPT !.users = X]
          BY <5>2, Zenon DEF X
        <5> HIDE DEF X, W, g
        <5> QED BY <5>1, <5>3, TwoFields
      <4> QED BY <4>8, <4>9
    <3>7. CASE old # new /\ u[new] # A!Unknown
      <4> DEFINE w == Append(v, [kind |-> "forgotten", nick |-> new])
                 o == [[u EXCEPT ![old] = A!Unknown] EXCEPT ![new] = A!Unknown]
                 X == [o EXCEPT ![new] = moved]
                 W == Append(w, e)
      <4>1. c = [users |-> o, queue |-> q, query |-> y, token |-> t, events |-> w]
        BY <3>1, <3>4, <3>7 DEF A!ForgetUser, A!IsKnown, Mirrors
      <4>2. f1 = [users |-> [u EXCEPT ![new] = A!Unknown], queue |-> q, query |-> y,
                  token |-> t, events |-> w]
        BY <3>2, <3>7 DEF A!ForgetUser, A!IsKnown
      <4> HIDE DEF f1, w
      <4>3. f2 = [users |-> [[u EXCEPT ![new] = A!Unknown] EXCEPT ![old] = A!Unknown],
                  queue |-> q, query |-> y, token |-> t, events |-> Append(w, e)]
        BY <3>1, <3>3, <3>7, <4>2 DEF A!ForgetUser, A!IsKnown, Mirrors
      <4>4. [[u EXCEPT ![new] = A!Unknown] EXCEPT ![old] = A!Unknown] = o
        BY <3>1 DEF Mirrors
      <4> HIDE DEF c, f2, e, o
      <4>8. after = [users |-> X, queue |-> q, query |-> y, token |-> t, events |-> W]
        <5>1. c = [users |-> o, queue |-> q, query |-> y, token |-> t, events |-> w]
          BY <4>1
        <5>2. c.users = o /\ c.events = w
          BY <5>1
        <5>3. after = [c EXCEPT !.users = X, !.events = W]
          BY <5>2, Zenon DEF X, W
        <5> HIDE DEF X, W, after
        <5> QED BY <5>1, <5>3, TwoFields
      <4>9. g = [users |-> X, queue |-> q, query |-> y, token |-> t, events |-> W]
        <5>1. f2 = [users |-> o, queue |-> q, query |-> y, token |-> t, events |-> W]
          BY <4>3, <4>4
        <5>2. f2.users = o
          BY <5>1
        <5>3. g = [f2 EXCEPT !.users = X]
          BY <5>2, Zenon DEF X
        <5> HIDE DEF X, W, g
        <5> QED BY <5>1, <5>3, TwoFields
      <4> QED BY <4>8, <4>9
    <3> QED BY <3>5, <3>6, <3>7
  <2> HIDE DEF f2, b, moved, after
  <2>4. Follows(f2, A!Said(g, new, moved))
    BY <2>1, <2>2, EntryChange
  <2> HIDE DEF g
  <2>5. Follows(b, A!Said(after, new, moved))
    BY <2>2, <2>3, <2>4, FollowsOn
  <2>6. Follows(a, A!Said(after, new, moved))
    BY <1>1, <2>5, FollowsOn
  <2> QED BY <1>2, <1>4, <2>6
<1> QED BY <1>3, <1>4

(* Everybody of a set loses a channel.                                     *)
LEMMA LeaveAllFollows ==
  ASSUME NEW a, Accounts(a), NEW nicks \in SUBSET Nicks, NEW c
  PROVE  /\ Follows(a, A!LeaveAll(a, nicks, c))
         /\ SameAsks(a, A!LeaveAll(a, nicks, c))
         /\ A!LeaveAll(a, nicks, c).users =
               [n \in Nicks |-> IF n \in nicks THEN Left(a.users[n], c) ELSE a.users[n]]
<1> DEFINE g[s \in SUBSET nicks] ==
              IF s = {} THEN a
              ELSE LET x == CHOOSE x \in s : TRUE IN A!LeaveChannel(g[s \ {x}], x, c)
           D == [users : Mirrors, queue : {a.queue}, query : {a.query}, token : {a.token},
                 events : Seq(AccountEvents)]
           F == [p \in nicks \X D |-> A!LeaveChannel(p[2], p[1], c)]
           Body(h) == [s \in SUBSET nicks |->
                         IF s = {} THEN a
                         ELSE LET x == CHOOSE x \in s : TRUE
                              IN A!LeaveChannel(h[s \ {x}], x, c)]
<1>1. A!LeaveAll(a, nicks, c) = g[nicks]
  BY DEF A!LeaveAll, A!FoldSet, A!MapThenFoldSet
<1>2. IsFiniteSet(nicks) /\ a \in D
  BY RostersAssumption, FS_Subset DEF Accounts
<1>3. \A b \in D : Accounts(b) /\ SameAsks(a, b)
  BY DEF Accounts, SameAsks
<1>4. ASSUME NEW b, Accounts(b), SameAsks(a, b) PROVE b \in D
  BY <1>4 DEF Accounts, SameAsks
<1>5. \A n \in nicks, b \in D : A!LeaveChannel(b, n, c) \in D
  <2> TAKE n \in nicks, b \in D
  <2>1. Accounts(b) /\ SameAsks(a, b)
    BY <1>3
  <2>2. Accounts(A!LeaveChannel(b, n, c)) /\ SameAsks(b, A!LeaveChannel(b, n, c))
    BY <2>1, LeaveChannelFollows DEF Follows
  <2> QED BY <1>4, <2>1, <2>2 DEF SameAsks
<1>6. F \in [nicks \X D -> D]
  BY <1>5
<1>7. \A n \in nicks, b \in D : F[<<n, b>>] = A!LeaveChannel(b, n, c)
  OBVIOUS
<1> HIDE DEF D, F
<1>8. PICK h : Overs(h, nicks, D, a, F)
  BY <1>2, <1>6, OverExists
<1>9. \A s \in SUBSET nicks : s # {} => AnyIn(s) \in nicks /\ s \ {AnyIn(s)} \in SUBSET nicks
  BY DEF AnyIn
<1>10. h = Body(h)
  <2> DEFINE V(s) == IF s = {} THEN a ELSE F[<<AnyIn(s), h[s \ {AnyIn(s)}]>>]
             W(s) == IF s = {} THEN a ELSE A!LeaveChannel(h[s \ {AnyIn(s)}], AnyIn(s), c)
  <2>1. \A s \in SUBSET nicks : V(s) = W(s)
    BY <1>7, <1>8, <1>9 DEF Overs
  <2>2. h = [s \in SUBSET nicks |-> V(s)]
    BY <1>8 DEF Overs
  <2>3. [s \in SUBSET nicks |-> V(s)] = [s \in SUBSET nicks |-> W(s)]
    <3> HIDE DEF V, W
    <3> QED BY <2>1
  <2> HIDE DEF V
  <2> QED BY <2>2, <2>3 DEF AnyIn
<1>11. g = Body(g)
  <2>1. (\E h_1 : h_1 = Body(h_1)) => g = Body(g)
    OBVIOUS
  <2> QED BY <1>10, <2>1
<1> HIDE DEF g
<1>12. g[{}] = a /\ \A s \in SUBSET nicks :
                      s # {} => g[s] = A!LeaveChannel(g[s \ {AnyIn(s)}], AnyIn(s), c)
  BY <1>11 DEF AnyIn
<1>13. FoldsOver(g, nicks, D, a, F)
  BY <1>7, <1>9, <1>12 DEF FoldsOver
<1>14. SetFolded(g[nicks], nicks, D, a, F)
  BY <1>2, <1>6, <1>13, OverFolds
<1> DEFINE So(s, b) == \A n \in Nicks : b.users[n] = IF n \in s THEN Left(a.users[n], c)
                                                     ELSE a.users[n]
           Good == {p \in (SUBSET nicks) \X D : Follows(a, p[2]) /\ So(p[1], p[2])}
<1>15. <<{}, a>> \in Good
  BY <1>2 DEF Follows
<1>16. ASSUME NEW s \in SUBSET nicks, NEW n \in nicks, NEW b \in D, n \notin s,
              <<s, b>> \in Good
       PROVE  <<s \union {n}, F[<<n, b>>]>> \in Good
  <2> DEFINE x == A!LeaveChannel(b, n, c)
  <2>1. Follows(a, b) /\ So(s, b)
    BY <1>16
  <2>2. Accounts(b) /\ n \in Nicks
    BY <1>3
  <2>3. Follows(b, x) /\ x.users = [b.users EXCEPT ![n] = Left(b.users[n], c)]
    BY <2>2, LeaveChannelFollows
  <2>4. Follows(a, x)
    BY <2>1, <2>3, FollowsOn
  <2>5. So(s \union {n}, x)
    <3>1. b.users \in Mirrors /\ b.users[n] = a.users[n]
      BY <1>16, <2>1, <2>2 DEF Accounts
    <3> HIDE DEF x
    <3> QED BY <2>1, <2>3, <3>1 DEF Mirrors
  <2>6. x \in D /\ F[<<n, b>>] = x
    BY <1>5, <1>7
  <2> HIDE DEF x, So
  <2> QED BY <2>4, <2>5, <2>6
<1> HIDE DEF Good, So
<1>17. <<nicks, g[nicks]>> \in Good /\ g[nicks] \in D
  BY <1>2, <1>14, <1>15, <1>16, SetFoldKeeps
<1> DEFINE z == g[nicks]
<1>18. Follows(a, z) /\ So(nicks, z) /\ z.users \in Mirrors /\ SameAsks(a, z)
  BY <1>3, <1>17 DEF Good, Accounts
<1> HIDE DEF z
<1>19. z.users = [n \in Nicks |-> IF n \in nicks THEN Left(a.users[n], c) ELSE a.users[n]]
  BY <1>18 DEF So, Mirrors
<1> QED BY <1>1, <1>18, <1>19 DEF z

(* Leaving a channel of ours is told of everybody.                         *)
LEMMA ForgetChannelFollows ==
  ASSUME NEW a, Accounts(a), NEW c
  PROVE  /\ Follows(a, A!ForgetChannel(a, c))
         /\ A!ForgetChannel(a, c).users = [n \in Nicks |-> Left(a.users[n], c)]
<1> DEFINE w == A!Without(a.queue, c)
           q == IF a.query.channel = c THEN A!NoQuery ELSE a.query
           b == [a EXCEPT !.queue = w, !.query = q]
<1>1. A!ForgetChannel(a, c) = A!LeaveAll(b, Nicks, c)
  BY DEF A!ForgetChannel
<1>2. /\ b \in [users : {a.users}, queue : {b.queue}, query : {b.query}, token : {b.token},
                events : {a.events}]
      /\ b.queue = w /\ b.query = q /\ b.token = a.token /\ b.users = a.users
  <2> HIDE DEF w, q
  <2> QED BY DEF Accounts
<1>3. AsksOK(a) => AsksOK(b)
  <2>1. SUFFICES ASSUME AsksOK(a) PROVE AsksOK(b)
    OBVIOUS
  <2>2. w \in Seq(Channels)
    BY <2>1, WithoutType DEF AsksOK
  <2>3. q \in Queries
    BY <2>1 DEF AsksOK, Queries
  <2> HIDE DEF w, q, b
  <2> QED BY <1>2, <2>1, <2>2, <2>3 DEF AsksOK
<1> HIDE DEF b
<1>4. Follows(a, b) /\ Accounts(b)
  BY <1>2, <1>3, SameUsers DEF Follows
<1>5. /\ Follows(b, A!LeaveAll(b, Nicks, c))
      /\ A!LeaveAll(b, Nicks, c).users =
            [n \in Nicks |-> IF n \in Nicks THEN Left(b.users[n], c) ELSE b.users[n]]
  BY <1>4, LeaveAllFollows
<1>6. Follows(a, A!LeaveAll(b, Nicks, c))
  BY <1>4, <1>5, FollowsOn
<1> QED BY <1>1, <1>2, <1>5, <1>6

(* A roster: who is in it has the channel, who is not has lost it.         *)
LEMMA NamesFollows ==
  ASSUME NEW a, Accounts(a), NEW c \in Channels, NEW present \in SUBSET Nicks
  PROVE  /\ Follows(a, A!Names(a, c, present))
         /\ SameAsks(a, A!Names(a, c, present))
         /\ A!Names(a, c, present).users =
               [n \in Nicks |-> IF n \in present
                                THEN IF A!IsKnown(a, n) THEN A!Noted(a.users[n], c)
                                     ELSE a.users[n]
                                ELSE IF c \in a.users[n].channels THEN Left(a.users[n], c)
                                ELSE a.users[n]]
<1> DEFINE S(n) == IF n \in present /\ A!IsKnown(a, n) THEN A!Noted(a.users[n], c)
                   ELSE a.users[n]
           u == [n \in Nicks |-> S(n)]
           b == [a EXCEPT !.users = u]
           gone == {n \in Nicks \ present : c \in a.users[n].channels}
<1>1. A!Names(a, c, present) = A!LeaveAll(b, gone, c)
  <2>1. b = [a EXCEPT !.users = [n \in Nicks |-> IF n \in present /\ A!IsKnown(a, n)
                                              THEN A!Noted(@[n], c) ELSE @[n]]]
    OBVIOUS
  <2> HIDE DEF b, gone
  <2> QED BY <2>1 DEF A!Names, gone
<1>2. \A n \in Nicks : S(n) \in A!Entries /\ Bare(S(n)) = Bare(a.users[n])
  <2> TAKE n \in Nicks
  <2>1. a.users[n] \in A!Entries
    BY DEF Accounts, Mirrors
  <2> QED BY <2>1 DEF A!Noted, Bare, A!Entries
<1> HIDE DEF S
<1>3. u \in Mirrors /\ a.users \in Mirrors
  BY <1>2 DEF Mirrors, Accounts
<1>11. \A n \in Nicks : u[n] = S(n)
  OBVIOUS
<1>4. \A n \in Nicks : Plain(u)[n] = Plain(a.users)[n]
  <2> HIDE DEF u
  <2> TAKE n \in Nicks
  <2>1. Plain(u)[n] = Bare(u[n]) /\ Plain(a.users)[n] = Bare(a.users[n])
    BY <1>3, PlainEntries
  <2> QED BY <1>2, <1>11, <2>1
<1>5. Plain(u) = Plain(a.users)
  <2>1. Plain(u) = [n \in Nicks |-> Plain(u)[n]]
    BY DEF Plain
  <2>2. Plain(a.users) = [n \in Nicks |-> Plain(a.users)[n]]
    BY DEF Plain
  <2> HIDE DEF u
  <2> QED BY <1>4, <2>1, <2>2
<1>6. /\ b.users = u /\ b.queue = a.queue /\ b.query = a.query /\ b.token = a.token
      /\ b.events = a.events
      /\ b \in [users : {b.users}, queue : {b.queue}, query : {b.query}, token : {b.token},
                events : {b.events}]
  <2> HIDE DEF u
  <2> QED BY DEF Accounts
<1> HIDE DEF u, b
<1>7. Accounts(b) /\ SameAsks(a, b)
  BY <1>3, <1>6 DEF Accounts, SameAsks
<1>8. Follows(a, b)
  BY <1>5, <1>6, <1>7, SamePlain, ZenonT(30) DEF AsksOK
<1> DEFINE z == A!LeaveAll(b, gone, c)
<1>9. /\ Follows(b, z) /\ SameAsks(b, z)
      /\ z.users = [n \in Nicks |-> IF n \in gone THEN Left(b.users[n], c) ELSE b.users[n]]
  <2>1. gone \in SUBSET Nicks
    OBVIOUS
  <2> HIDE DEF gone
  <2> QED BY <1>7, <2>1, LeaveAllFollows
<1>10. Follows(a, z) /\ SameAsks(a, z)
  BY <1>7, <1>8, <1>9, FollowsOn DEF SameAsks
<1> HIDE DEF z
<1>12. ASSUME NEW n \in Nicks
       PROVE  (IF n \in gone THEN Left(b.users[n], c) ELSE b.users[n]) =
              IF n \in present
              THEN IF A!IsKnown(a, n) THEN A!Noted(a.users[n], c) ELSE a.users[n]
              ELSE IF c \in a.users[n].channels THEN Left(a.users[n], c) ELSE a.users[n]
  BY <1>6, <1>11 DEF S
<1>13. z.users = [n \in Nicks |->
                    IF n \in present
                    THEN IF A!IsKnown(a, n) THEN A!Noted(a.users[n], c) ELSE a.users[n]
                    ELSE IF c \in a.users[n].channels THEN Left(a.users[n], c)
                    ELSE a.users[n]]
  BY <1>9, <1>12
<1> QED BY <1>1, <1>10, <1>13 DEF z

(* What the operations rely on: the nicknames are finitely many, and the   *)
(* sign for "no nickname" is none of them.                                 *)
Setting == IsFiniteSet(Nicks) /\ P!NoNick \notin Nicks

(* Presences that are only waiting to be forgotten may be in no channel.   *)
PlacedExcept(x, gone) ==
    /\ \A i \in P!Ids : x.channelsOf[i] # {} => i \in P!LiveIds(x)
    /\ \A i \in P!LiveIds(x) \ gone : x.channelsOf[i] # {}

(* There is one more presence number than nicknames.                       *)
LEMMA NumbersAreNumbers ==
  ASSUME Setting
  PROVE  Cardinality(Nicks) \in Nat /\ P!NoId \notin P!Ids /\ IsFiniteSet(P!Ids)
         /\ Cardinality(P!Ids) = Cardinality(Nicks) + 1
<1>1. Cardinality(Nicks) \in Nat
  BY FS_CardinalityType DEF Setting
<1>2. IsFiniteSet(P!Ids) /\ Cardinality(P!Ids) = Cardinality(Nicks) + 1
  <2> DEFINE k == Cardinality(Nicks) + 1
  <2>1. IsFiniteSet(1..k) /\ Cardinality(1..k) = k
    BY <1>1, FS_Interval
  <2>2. P!Ids = 1..k
    BY DEF P!Ids, P!Cardinality, Cardinality
  <2> HIDE DEF k
  <2>3. IsFiniteSet(P!Ids) /\ Cardinality(P!Ids) = k
    BY <2>1, <2>2
  <2> QED BY <2>3 DEF k
<1> QED BY <1>1, <1>2 DEF P!Ids, P!NoId

LEMMA ForgetType ==
  ASSUME NEW x \in P!Indexes, NEW gone \in SUBSET P!Ids
  PROVE  P!Forget(x, gone) \in P!Indexes
BY DEF P!Forget, P!Indexes

LEMMA ForgetFields ==
  ASSUME NEW x \in P!Indexes, NEW gone \in SUBSET P!Ids
  PROVE  LET y == P!Forget(x, gone)
         IN /\ \A n \in Nicks : y.byNick[n] = IF \E i \in gone : x.key[i] = n
                                              THEN P!NoId ELSE x.byNick[n]
            /\ \A i \in P!Ids : y.key[i] = IF i \in gone THEN P!NoNick ELSE x.key[i]
            /\ \A i \in P!Ids : y.channelsOf[i] = IF i \in gone THEN {}
                                                ELSE x.channelsOf[i]
            /\ \A c \in Channels :
                  y.members[c] = x.members[c] \ {i \in gone : c \in x.channelsOf[i]}
BY DEF P!Forget, P!Indexes

LEMMA ForgetKeeps ==
  ASSUME NEW x \in P!Indexes, NEW gone \in SUBSET P!Ids, Setting,
         P!Named(x), PlacedExcept(x, gone), P!Mutual(x)
  PROVE  P!Consistent(P!Forget(x, gone))
<1> DEFINE y == P!Forget(x, gone)
<1>1. y \in P!Indexes
  BY ForgetType
<1>2. P!LiveIds(y) = P!LiveIds(x) \ gone
  BY ForgetFields DEF P!LiveIds
<1> HIDE DEF y
<1>3. P!Named(y)
  <2>1. ASSUME NEW i \in P!LiveIds(y) PROVE y.byNick[y.key[i]] = i
    <3>1. i \in P!Ids /\ i \in P!LiveIds(x) /\ i \notin gone
      BY <1>2 DEF P!LiveIds
    <3>2. y.key[i] = x.key[i] /\ x.key[i] \in Nicks
      BY <3>1, ForgetFields DEF y, P!LiveIds, P!Indexes
    <3>3. ~\E j \in gone : x.key[j] = x.key[i]
      BY <3>1, <3>2, Setting DEF P!Named, P!LiveIds, Setting
    <3> QED BY <3>1, <3>2, <3>3, ForgetFields DEF y, P!Named
  <2>2. ASSUME NEW n \in Nicks, y.byNick[n] # P!NoId PROVE y.key[y.byNick[n]] = n
    <3>1. y.byNick[n] = x.byNick[n] /\ ~\E j \in gone : x.key[j] = n
      BY <2>2, ForgetFields DEF y
    <3>2. x.byNick[n] \in P!Ids /\ x.key[x.byNick[n]] = n
      BY <2>2, <3>1 DEF P!Named, P!Indexes
    <3> QED BY <3>1, <3>2, ForgetFields DEF y
  <2> QED BY <2>1, <2>2 DEF P!Named
<1>4. P!Placed(y)
  BY <1>2, ForgetFields DEF P!Placed, PlacedExcept, y
<1>5. P!Mutual(y)
  BY ForgetFields DEF P!Mutual, y
<1> QED BY <1>3, <1>4, <1>5 DEF P!Consistent, y

(* The roster of channel c has already dropped these presences; what is    *)
(* left to do is to take the channel from each of them.                    *)
Leaving(x, leaving, c) ==
    \A i \in P!Ids, d \in Channels :
        i \in x.members[d] <=> d \in x.channelsOf[i] /\ ~(i \in leaving /\ d = c)

LEMMA LeaveKeeps ==
  ASSUME NEW x \in P!Indexes, NEW leaving \in SUBSET P!Ids, NEW c \in Channels, Setting,
         P!Named(x), P!Placed(x), Leaving(x, leaving, c)
  PROVE  P!Leave(x, leaving, c) \in P!Indexes /\ P!Consistent(P!Leave(x, leaving, c))
<1> DEFINE y == [x EXCEPT !.channelsOf = [i \in P!Ids |-> IF i \in leaving
                                                        THEN @[i] \ {c} ELSE @[i]]]
           gone == {i \in leaving : x.channelsOf[i] \subseteq {c}}
<1>1. y \in P!Indexes /\ gone \in SUBSET P!Ids /\ P!Leave(x, leaving, c) = P!Forget(y, gone)
  BY DEF P!Indexes, P!Leave
<1>2. /\ y.byNick = x.byNick /\ y.key = x.key /\ y.members = x.members
      /\ \A i \in P!Ids : y.channelsOf[i] = IF i \in leaving THEN x.channelsOf[i] \ {c}
                                          ELSE x.channelsOf[i]
  BY DEF P!Indexes
<1>3. \A i \in gone : i \in leaving /\ x.channelsOf[i] \subseteq {c}
  OBVIOUS
<1>4. \A i \in leaving \ gone : \E d \in x.channelsOf[i] : d # c
  OBVIOUS
<1> HIDE DEF y, gone
<1>5. P!Named(y)
  BY <1>2 DEF P!Named, P!LiveIds
<1>6. PlacedExcept(y, gone)
  BY <1>2, <1>4 DEF P!Placed, PlacedExcept, P!LiveIds
<1>7. P!Mutual(y)
  BY <1>2, ZenonT(30) DEF P!Mutual, Leaving
<1> QED BY <1>1, <1>5, <1>6, <1>7, ForgetKeeps, ForgetType

(* A free number can be given to each new nickname.                        *)
LEMMA InjectionExists ==
  ASSUME NEW S, NEW T, IsFiniteSet(S), IsFiniteSet(T), Cardinality(S) <= Cardinality(T)
  PROVE  \E f \in [S -> T] : \A a, b \in S : f[a] = f[b] => a = b
<1>1. /\ Cardinality(S) \in Nat /\ Cardinality(T) \in Nat
      /\ ExistsBijection(1 .. Cardinality(S), S)
      /\ ExistsBijection(1 .. Cardinality(T), T)
  BY FS_CardinalityType
<1>2. PICK f \in Bijection(1 .. Cardinality(S), S) : TRUE
  BY <1>1, Fun_ExistsBij
<1>3. PICK g \in Bijection(1 .. Cardinality(T), T) : TRUE
  BY <1>1, Fun_ExistsBij
<1>4. \A s \in S : \E k \in 1 .. Cardinality(S) : f[k] = s
  <2>1. f \in Surjection(1 .. Cardinality(S), S)
    BY <1>2, Fun_BijectionProperties
  <2> QED BY <2>1 DEF Surjection
<1>5. /\ g \in [1 .. Cardinality(T) -> T]
      /\ \A j, k \in 1 .. Cardinality(T) : g[j] = g[k] => j = k
  BY <1>3, Fun_BijectionProperties
<1> DEFINE place(s) == CHOOSE k \in 1 .. Cardinality(S) : f[k] = s
           h == [s \in S |-> g[place(s)]]
<1>6. \A s \in S : place(s) \in 1 .. Cardinality(T) /\ f[place(s)] = s
  BY <1>1, <1>4
<1> HIDE DEF place
<1>7. h \in [S -> T]
  BY <1>5, <1>6
<1>8. \A a, b \in S : h[a] = h[b] => a = b
  BY <1>5, <1>6
<1> QED BY <1>7, <1>8

(* There is a free number for each nickname without one.                   *)
LEMMA NumbersSuffice ==
  ASSUME NEW x \in P!Indexes, Setting, P!Named(x), NEW nicks \in SUBSET Nicks
  PROVE  LET fresh == {n \in nicks : x.byNick[n] = P!NoId}
         IN \E f \in [fresh -> P!Ids \ P!LiveIds(x)] :
               \A a, b \in fresh : f[a] = f[b] => a = b
<1> DEFINE fresh == {n \in nicks : x.byNick[n] = P!NoId}
           named == {n \in Nicks : x.byNick[n] # P!NoId}
           free == P!Ids \ P!LiveIds(x)
<1>1. /\ IsFiniteSet(fresh) /\ IsFiniteSet(named) /\ IsFiniteSet(Nicks)
      /\ IsFiniteSet(P!LiveIds(x)) /\ IsFiniteSet(free)
  BY FS_Subset, NumbersAreNumbers DEF Setting, P!LiveIds
<1>2. /\ Cardinality(fresh) \in Nat /\ Cardinality(named) \in Nat
      /\ Cardinality(P!LiveIds(x)) \in Nat /\ Cardinality(free) \in Nat
      /\ Cardinality(Nicks) \in Nat
  BY <1>1, FS_CardinalityType
<1>3. Cardinality(P!LiveIds(x)) <= Cardinality(named)
  <2> DEFINE f == [i \in P!LiveIds(x) |-> x.key[i]]
  <2>1. \A i \in P!LiveIds(x) : x.key[i] \in named
    BY NumbersAreNumbers DEF P!LiveIds, P!Indexes, P!Named
  <2>2. f \in [P!LiveIds(x) -> named]
    BY <2>1
  <2>3. \A i, j \in P!LiveIds(x) : f[i] = f[j] => i = j
    BY DEF P!Named
  <2>4. f \in Injection(P!LiveIds(x), named)
    BY <2>2, <2>3, Fun_IsInj
  <2> QED BY <1>1, <2>4, FS_Injection
<1>4. Cardinality(fresh) + Cardinality(named) <= Cardinality(Nicks)
  <2>1. fresh \cap named = {}
    OBVIOUS
  <2>2. Cardinality(fresh \cup named) = Cardinality(fresh) + Cardinality(named)
    <3> HIDE DEF fresh, named
    <3> QED BY <1>1, <1>2, <2>1, FS_Union, FS_EmptySet
  <2>3. Cardinality(fresh \cup named) <= Cardinality(Nicks)
    BY <1>1, FS_Subset
  <2> QED BY <2>2, <2>3
<1>5. Cardinality(free) = Cardinality(Nicks) + 1 - Cardinality(P!LiveIds(x))
  <2>1. P!Ids \cap P!LiveIds(x) = P!LiveIds(x)
    BY DEF P!LiveIds
  <2>2. IsFiniteSet(P!Ids) /\ Cardinality(P!Ids) = Cardinality(Nicks) + 1
    BY NumbersAreNumbers
  <2>3. Cardinality(free) = Cardinality(P!Ids) - Cardinality(P!LiveIds(x))
    <3>1. Cardinality(P!Ids \ P!LiveIds(x))
            = Cardinality(P!Ids) - Cardinality(P!Ids \cap P!LiveIds(x))
      BY <2>2, FS_Difference
    <3> QED BY <2>1, <3>1
  <2> QED BY <1>2, <2>2, <2>3
<1>6. Cardinality(fresh) <= Cardinality(free)
  BY <1>2, <1>3, <1>4, <1>5
<1> HIDE DEF fresh, free
<1>7. \E f \in [fresh -> free] : \A a, b \in fresh : f[a] = f[b] => a = b
  BY <1>1, <1>6, InjectionExists
<1> QED BY <1>7 DEF fresh, free

(* Every nickname of a roster gets a number; nothing else changes, and who *)
(* has just got one is in no channel yet.                                  *)
LEMMA NumberedKeeps ==
  ASSUME NEW x \in P!Indexes, Setting, P!Consistent(x), NEW nicks \in SUBSET Nicks
  PROVE  LET y == P!Numbered(x, nicks)
         IN /\ y \in P!Indexes
            /\ P!Named(y)
            /\ \A n \in nicks : y.byNick[n] \in P!LiveIds(y)
            /\ y.channelsOf = x.channelsOf /\ y.members = x.members
            /\ P!LiveIds(y) = P!LiveIds(x) \cup {y.byNick[n] : n \in nicks}
            /\ \A i \in P!LiveIds(x) : y.key[i] = x.key[i]
            /\ \A i \in P!LiveIds(y) \ P!LiveIds(x) : x.byNick[y.key[i]] = P!NoId
<1> DEFINE fresh == {n \in nicks : x.byNick[n] = P!NoId}
           Injective(f) == \A a, b \in fresh : f[a] = f[b] => a = b
           new == CHOOSE f \in [fresh -> P!Ids \ P!LiveIds(x)] : Injective(f)
           y == P!Numbered(x, nicks)
<1>1. new \in [fresh -> P!Ids \ P!LiveIds(x)] /\ Injective(new)
  BY NumbersSuffice DEF P!Consistent
<1>2. \A n \in fresh : n \in nicks /\ n \in Nicks /\ x.byNick[n] = P!NoId
  OBVIOUS
<1>3. \A n \in nicks \ fresh : x.byNick[n] # P!NoId
  OBVIOUS
<1>4. /\ y \in P!Indexes
      /\ y.channelsOf = x.channelsOf /\ y.members = x.members
      /\ \A n \in Nicks : y.byNick[n] = IF n \in fresh THEN new[n] ELSE x.byNick[n]
      /\ \A i \in P!Ids : y.key[i] = IF \E n \in fresh : new[n] = i
                                   THEN CHOOSE n \in fresh : new[n] = i
                                   ELSE x.key[i]
  <2>1. y = [x EXCEPT
               !.byNick = [n \in Nicks |-> IF n \in fresh THEN new[n] ELSE @[n]],
               !.key = [i \in P!Ids |-> IF \E n \in fresh : new[n] = i
                                      THEN CHOOSE n \in fresh : new[n] = i
                                      ELSE @[i]]]
    BY DEF P!Numbered
  <2>2. \A i \in P!Ids : (\E n \in fresh : new[n] = i)
                          => (CHOOSE n \in fresh : new[n] = i) \in fresh
    OBVIOUS
  <2> HIDE DEF y, new, fresh
  <2> QED BY <1>1, <1>2, <2>1, <2>2 DEF P!Indexes
<1> HIDE DEF y, new, fresh
<1>5. \A n \in fresh : new[n] \in P!Ids /\ new[n] \notin P!LiveIds(x) /\ y.key[new[n]] = n
  BY <1>1, <1>4
<1>6. \A i \in P!Ids : (~\E n \in fresh : new[n] = i) => y.key[i] = x.key[i]
  BY <1>4
<1>7. \A i \in P!LiveIds(x) : i \in P!LiveIds(y) /\ y.key[i] = x.key[i]
  BY <1>5, <1>6 DEF P!LiveIds
<1>8. ASSUME NEW n \in nicks PROVE y.byNick[n] \in P!LiveIds(y)
  <2>1. CASE n \in fresh
    BY <2>1, <1>2, <1>4, <1>5, Setting DEF P!LiveIds, Setting
  <2>2. CASE n \notin fresh
    <3>1. x.byNick[n] \in P!LiveIds(x) /\ y.byNick[n] = x.byNick[n]
      BY <2>2, <1>3, <1>4, Setting DEF P!Consistent, P!Named, P!LiveIds, P!Indexes, Setting
    <3> QED BY <3>1, <1>7
  <2> QED BY <2>1, <2>2
<1>9. P!Named(y)
  <2>1. ASSUME NEW i \in P!LiveIds(y) PROVE y.byNick[y.key[i]] = i
    <3>1. CASE \E n \in fresh : new[n] = i
      BY <3>1, <1>2, <1>4, <1>5
    <3>2. CASE ~\E n \in fresh : new[n] = i
      <4>1. i \in P!LiveIds(x) /\ y.key[i] = x.key[i]
        BY <3>2, <1>6 DEF P!LiveIds
      <4>2. x.key[i] \in Nicks /\ x.byNick[x.key[i]] = i /\ i # P!NoId
        BY <4>1, NumbersAreNumbers DEF P!Consistent, P!Named, P!LiveIds, P!Indexes
      <4> QED BY <4>1, <4>2, <1>2, <1>4
    <3> QED BY <3>1, <3>2
  <2>2. ASSUME NEW n \in Nicks, y.byNick[n] # P!NoId PROVE y.key[y.byNick[n]] = n
    <3>1. CASE n \in fresh
      BY <3>1, <1>4, <1>5
    <3>2. CASE n \notin fresh
      <4>1. y.byNick[n] = x.byNick[n] /\ x.byNick[n] \in P!LiveIds(x)
        BY <2>2, <3>2, <1>4, Setting DEF P!Consistent, P!Named, P!LiveIds, P!Indexes, Setting
      <4> QED BY <2>2, <4>1, <1>7 DEF P!Consistent, P!Named
    <3> QED BY <3>1, <3>2
  <2> QED BY <2>1, <2>2 DEF P!Named
<1>10. P!LiveIds(y) = P!LiveIds(x) \cup {y.byNick[n] : n \in nicks}
  BY <1>2, <1>3, <1>4, <1>5, <1>6, <1>7, <1>8 DEF P!LiveIds
<1>11. ASSUME NEW i \in P!LiveIds(y) \ P!LiveIds(x) PROVE x.byNick[y.key[i]] = P!NoId
  <2>1. i \in P!Ids /\ y.key[i] # P!NoNick /\ x.key[i] = P!NoNick
    BY DEF P!LiveIds
  <2>2. PICK n \in fresh : new[n] = i
    BY <1>6, <2>1
  <2> QED BY <1>2, <1>5, <2>2
<1> QED BY <1>4, <1>7, <1>8, <1>9, <1>10, <1>11 DEF y

LEMMA ReplaceChannelKeeps ==
  ASSUME NEW x \in P!Indexes, Setting, P!Consistent(x), NEW c \in Channels,
         NEW nicks \in SUBSET Nicks
  PROVE  LET z == P!ReplaceChannel(x, c, nicks)
         IN z \in P!Indexes /\ P!Consistent(z)
<1> DEFINE y == P!Numbered(x, nicks)
           present == {y.byNick[n] : n \in nicks}
           z == [y EXCEPT !.channelsOf = [i \in P!Ids |-> IF i \in present
                                                        THEN @[i] \union {c} ELSE @[i]],
                          !.members[c] = present]
           leaving == x.members[c] \ present
<1>1. /\ y \in P!Indexes /\ P!Named(y)
      /\ y.channelsOf = x.channelsOf /\ y.members = x.members
      /\ present \in SUBSET P!LiveIds(y)
      /\ P!LiveIds(y) = P!LiveIds(x) \cup present
  BY NumberedKeeps
<1>2. P!ReplaceChannel(x, c, nicks) = P!Leave(z, leaving, c)
  BY DEF P!ReplaceChannel
<1> HIDE DEF y, present
<1>3. /\ z \in P!Indexes
      /\ z.byNick = y.byNick /\ z.key = y.key
      /\ \A i \in P!Ids : z.channelsOf[i] = IF i \in present THEN y.channelsOf[i] \union {c}
                                          ELSE y.channelsOf[i]
      /\ \A d \in Channels : z.members[d] = IF d = c THEN present ELSE y.members[d]
  BY <1>1, ZenonT(30) DEF P!Indexes, P!LiveIds
<1>4. leaving \in SUBSET P!Ids /\ \A i \in P!Ids : i \in leaving <=> i \in x.members[c] /\ i \notin present
  BY DEF P!Indexes
<1> HIDE DEF z, leaving
<1>5. P!Named(z)
  BY <1>1, <1>3 DEF P!Named, P!LiveIds
<1>6. P!Placed(z)
  BY <1>1, <1>3 DEF P!Placed, P!LiveIds, P!Consistent
<1>7. Leaving(z, leaving, c)
  <2> SUFFICES ASSUME NEW i \in P!Ids, NEW d \in Channels
               PROVE  i \in z.members[d]
                        <=> d \in z.channelsOf[i] /\ ~(i \in leaving /\ d = c)
    BY DEF Leaving
  <2>1. i \in x.members[d] <=> d \in x.channelsOf[i]
    BY DEF P!Consistent, P!Mutual
  <2>2. CASE d = c
    BY <1>1, <1>3, <1>4, <2>1, <2>2
  <2>3. CASE d # c
    BY <1>1, <1>3, <2>1, <2>3
  <2> QED BY <2>2, <2>3
<1> QED BY <1>2, <1>3, <1>4, <1>5, <1>6, <1>7, LeaveKeeps

LEMMA RemoveChannelKeeps ==
  ASSUME NEW x \in P!Indexes, Setting, P!Consistent(x), NEW c \in Channels
  PROVE  P!RemoveChannel(x, c) \in P!Indexes /\ P!Consistent(P!RemoveChannel(x, c))
<1> DEFINE y == [x EXCEPT !.members[c] = {}]
<1>1. P!RemoveChannel(x, c) = P!Leave(y, x.members[c], c) /\ x.members[c] \in SUBSET P!Ids
  BY DEF P!RemoveChannel, P!Indexes
<1>2. /\ y \in P!Indexes
      /\ y.byNick = x.byNick /\ y.key = x.key /\ y.channelsOf = x.channelsOf
      /\ \A d \in Channels : y.members[d] = IF d = c THEN {} ELSE x.members[d]
  BY DEF P!Indexes
<1> HIDE DEF y
<1>3. P!Named(y) /\ P!Placed(y)
  BY <1>2 DEF P!Consistent, P!Named, P!Placed, P!LiveIds
<1>4. Leaving(y, x.members[c], c)
  BY <1>2 DEF Leaving, P!Consistent, P!Mutual
<1> QED BY <1>1, <1>2, <1>3, <1>4, LeaveKeeps

LEMMA QuitKeeps ==
  ASSUME NEW x \in P!Indexes, Setting, P!Consistent(x), NEW n \in Nicks
  PROVE  P!Quit(x, n) \in P!Indexes /\ P!Consistent(P!Quit(x, n))
<1>1. CASE x.byNick[n] = P!NoId
  BY <1>1 DEF P!Quit
<1>2. CASE x.byNick[n] # P!NoId
  <2>1. {x.byNick[n]} \in SUBSET P!Ids
    BY <1>2 DEF P!Indexes
  <2>2. PlacedExcept(x, {x.byNick[n]})
    BY DEF P!Consistent, P!Placed, PlacedExcept, P!LiveIds
  <2> QED BY <1>2, <2>1, <2>2, ForgetType, ForgetKeeps DEF P!Quit, P!Consistent
<1> QED BY <1>1, <1>2

LEMMA RenameKeeps ==
  ASSUME NEW x \in P!Indexes, Setting, P!Consistent(x), NEW old \in Nicks, NEW new \in Nicks
  PROVE  P!Rename(x, old, new) \in P!Indexes /\ P!Consistent(P!Rename(x, old, new))
<1> DEFINE id == x.byNick[old]
           taken == [x EXCEPT !.byNick[old] = P!NoId, !.byNick[new] = P!NoId]
           gone == {x.byNick[new]} \ {id, P!NoId}
           y == P!Forget(taken, gone)
           z == [y EXCEPT !.byNick[new] = id, !.key[id] = new]
<1>1. CASE id = P!NoId
  BY <1>1 DEF P!Rename
<1>2. CASE id # P!NoId
  <2>1. P!Rename(x, old, new) = z
    BY <1>2 DEF P!Rename
  <2>2. /\ id \in P!Ids /\ x.key[id] = old /\ id \in P!LiveIds(x)
        /\ gone \in SUBSET P!Ids /\ id \notin gone
        /\ \A i \in P!Ids : i \in gone <=> i = x.byNick[new] /\ i # id
    BY <1>2, Setting, NumbersAreNumbers
       DEF P!Consistent, P!Named, P!Indexes, P!LiveIds, Setting
  <2>3. /\ taken \in P!Indexes
        /\ taken.key = x.key /\ taken.channelsOf = x.channelsOf
        /\ taken.members = x.members
        /\ \A n \in Nicks : taken.byNick[n] = IF n \in {old, new} THEN P!NoId
                                              ELSE x.byNick[n]
    BY DEF P!Indexes
  <2> HIDE DEF taken, gone
  <2>4. y \in P!Indexes
    BY <2>2, <2>3, ForgetType
  <2>5. /\ \A n \in Nicks : y.byNick[n] = IF \E i \in gone : x.key[i] = n
                                          THEN P!NoId ELSE taken.byNick[n]
        /\ \A i \in P!Ids : y.key[i] = IF i \in gone THEN P!NoNick ELSE x.key[i]
        /\ \A i \in P!Ids : y.channelsOf[i] = IF i \in gone THEN {} ELSE x.channelsOf[i]
        /\ \A c \in Channels :
              y.members[c] = x.members[c] \ {i \in gone : c \in x.channelsOf[i]}
    BY <2>2, <2>3, ForgetFields
  <2> HIDE DEF y
  <2>6. /\ z \in P!Indexes
        /\ z.channelsOf = y.channelsOf /\ z.members = y.members
        /\ \A n \in Nicks : z.byNick[n] = IF n = new THEN id ELSE y.byNick[n]
        /\ \A i \in P!Ids : z.key[i] = IF i = id THEN new ELSE y.key[i]
    BY <2>2, <2>4 DEF P!Indexes
  <2> HIDE DEF z, id
  <2>7. P!LiveIds(z) = P!LiveIds(x) \ gone
    BY <2>2, <2>5, <2>6, Setting DEF P!LiveIds, Setting
  <2>8. \A i \in gone : x.key[i] = new
    BY <2>2, NumbersAreNumbers DEF P!Consistent, P!Named
  <2>9. \A i \in P!LiveIds(z) \ {id} : z.key[i] = x.key[i] /\ x.key[i] \in Nicks \ {old, new}
    BY <2>2, <2>5, <2>6, <2>7, NumbersAreNumbers
       DEF P!Consistent, P!Named, P!LiveIds, P!Indexes
  <2>10. P!Named(z)
    <3>1. ASSUME NEW i \in P!LiveIds(z) PROVE z.byNick[z.key[i]] = i
      <4>1. CASE i = id
        BY <4>1, <2>2, <2>6
      <4>2. CASE i # id
        BY <4>2, <2>3, <2>5, <2>6, <2>7, <2>8, <2>9 DEF P!Consistent, P!Named
      <4> QED BY <4>1, <4>2
    <3>2. ASSUME NEW n \in Nicks, z.byNick[n] # P!NoId PROVE z.key[z.byNick[n]] = n
      <4>1. CASE n = new
        BY <4>1, <2>2, <2>6
      <4>2. CASE n # new
        <5>1. z.byNick[n] = x.byNick[n] /\ n \notin {old, new}
          BY <3>2, <4>2, <2>3, <2>5, <2>6
        <5>2. x.byNick[n] \in P!Ids /\ x.key[x.byNick[n]] = n
          BY <3>2, <5>1 DEF P!Consistent, P!Named, P!Indexes
        <5> QED BY <5>1, <5>2, <2>2, <2>5, <2>6, <2>8
      <4> QED BY <4>1, <4>2
    <3> QED BY <3>1, <3>2 DEF P!Named
  <2>11. P!Placed(z)
    BY <2>5, <2>6, <2>7 DEF P!Placed, P!Consistent
  <2>12. P!Mutual(z)
    BY <2>5, <2>6 DEF P!Mutual, P!Consistent
  <2> QED BY <2>1, <2>6, <2>10, <2>11, <2>12 DEF P!Consistent
<1> QED BY <1>1, <1>2

-------------------------------------------------------------------------------
(* The empty index is consistent, and whatever line of the server an       *)
(* operation stands for, the index agrees with itself afterwards           *)
(* (presence.rs): each presence is found by its nickname and by nobody     *)
(* else's, is in some channel, and is on the roster of exactly the         *)
(* channels it is in.                                                      *)
THEOREM OperationsKeepAgreement ==
  ASSUME Setting
  PROVE  /\ P!EmptyIndex \in P!Indexes /\ P!Consistent(P!EmptyIndex)
         /\ \A x \in P!Indexes : P!Consistent(x) =>
              /\ \A c \in Channels, nicks \in SUBSET Nicks :
                    LET y == P!ReplaceChannel(x, c, nicks)
                    IN y \in P!Indexes /\ P!Consistent(y)
              /\ \A c \in Channels :
                    P!RemoveChannel(x, c) \in P!Indexes /\ P!Consistent(P!RemoveChannel(x, c))
              /\ \A n \in Nicks : P!Quit(x, n) \in P!Indexes /\ P!Consistent(P!Quit(x, n))
              /\ \A old, new \in Nicks :
                    P!Rename(x, old, new) \in P!Indexes /\ P!Consistent(P!Rename(x, old, new))
<1>1. P!EmptyIndex \in P!Indexes
  BY DEF P!EmptyIndex, P!Indexes, P!Ids
<1>2. P!Consistent(P!EmptyIndex)
  BY DEF P!EmptyIndex, P!Consistent, P!Named, P!Placed, P!Mutual, P!LiveIds
<1>3. ASSUME NEW x \in P!Indexes, P!Consistent(x), NEW c \in Channels,
             NEW nicks \in SUBSET Nicks
      PROVE  P!ReplaceChannel(x, c, nicks) \in P!Indexes
             /\ P!Consistent(P!ReplaceChannel(x, c, nicks))
  BY <1>3, ReplaceChannelKeeps
<1> QED BY <1>1, <1>2, <1>3, RemoveChannelKeeps, QuitKeeps, RenameKeeps

(***************************************************************************)
(* What the variables hold.                                                *)
(***************************************************************************)
AccountRecords == [users : Mirrors, queue : Seq(Channels), query : Queries, token : 0..999,
                   events : Seq(AccountEvents)]

Names == [Nicks -> Levels \union {NoLevel}]

Workers == [listed : SUBSET Channels, list : [Channels -> SUBSET Nicks],
            level : [Channels -> [Nicks -> SUBSET Levels]],
            ranked : [Channels -> Names], renamed : [Channels -> Names],
            index : P!Indexes, accounts : AccountRecords, tracked : BOOLEAN]

WorkerOK(w) == w \in Workers /\ IsFiniteSet(w.listed) /\ P!Consistent(w.index)

Ats == [nick : [People -> Nicks \union {NoNick}], login : [People -> Logins \union {A!LoggedOut}],
        meIn : SUBSET Channels, in : [People -> SUBSET Channels]]

Worlds == [chunks : BOOLEAN, nick : [People -> Nicks \union {NoNick}],
           in : [People -> SUBSET Channels],
           login : [People -> Logins \union {A!LoggedOut}],
           roles : [Channels -> [People -> SUBSET Levels]], meIn : SUBSET Channels]

AboutChannel == {"join", "part", "mode", "names", "who", "whoend", "me_join", "me_part", "me_kick"}
AboutNick == {"join", "part", "quit", "nick", "account", "mode", "who"}

Lines == [kind : AboutChannel \union AboutNick, channel : Channels \union {"-"},
          nick : Nicks \union {NoNick}, to : Nicks \union {NoNick},
          account : Logins \union {A!LoggedOut, A!Unsaid}, level : Levels \union {NoLevel},
          grant : BOOLEAN, token : 0..999, names : [Nicks -> Levels \union {NoLevel, -1}],
          at : Ats]

LineOK(m) ==
    /\ m \in Lines
    /\ m.kind \in AboutChannel => m.channel \in Channels
    /\ m.kind \in AboutNick => m.nick \in Nicks
    /\ m.kind \notin AboutChannel => m.channel \notin Channels
    /\ m.kind = "nick" => m.to \in Nicks
    /\ m.kind = "mode" => m.level \in Levels
    /\ m.kind \in {"account", "who"} => m.account \in Logins \union {A!LoggedOut}
    /\ m.kind = "who" => m.token \in 1..999

LEMMA FixedValues ==
  /\ Setting /\ NoNick \notin Nicks /\ NoNick \notin Channels
  /\ NoNick = "-" /\ P!NoNick = "-" /\ NoLevel = 0 /\ P!NoId = 0
  /\ "-" \notin Channels /\ "-" \notin Nicks
BY RostersAssumption DEF Setting, NoNick, P!NoNick, NoLevel, P!NoId

LEMMA Records ==
  ASSUME NEW a
  PROVE  a \in AccountRecords <=> Accounts(a) /\ AsksOK(a)
<1>1. ASSUME a \in AccountRecords PROVE Accounts(a) /\ AsksOK(a)
  BY <1>1 DEF AccountRecords, Accounts, AsksOK
<1>2. ASSUME Accounts(a), AsksOK(a) PROVE a \in AccountRecords
  BY <1>2 DEF AccountRecords, Accounts, AsksOK
<1> QED BY <1>1, <1>2

LEMMA FollowsRecords ==
  ASSUME NEW a \in AccountRecords, NEW b, Follows(a, b)
  PROVE  b \in AccountRecords
BY Records DEF Follows

(* The greatest of a finite set of ranks.                                  *)
LEMMA HighestIs ==
  ASSUME NEW s \in SUBSET Levels
  PROVE  /\ Highest(s) \in s \union {NoLevel}
         /\ \A x \in s : x <= Highest(s)
         /\ s # {} => Highest(s) \in s
<1> DEFINE S == s \union {NoLevel}
           U == {{y \in S : y > x} : x \in S}
<1>1. IsFiniteSet(S) /\ S \subseteq Nat
  <2>1. IsFiniteSet(s)
    BY RostersAssumption, FS_Subset
  <2>2. IsFiniteSet(S)
    BY <2>1, FS_AddElement
  <2> QED BY <2>2, RostersAssumption DEF NoLevel
<1>2. PICK x \in S : \A y \in U : ~(y \subseteq {y_1 \in S : y_1 > x} /\ y # {y_1 \in S : y_1 > x})
  <2>1. U \subseteq SUBSET S /\ U # {}
    OBVIOUS
  <2>2. PICK u \in U : \A y \in U : ~(y \subseteq u /\ y # u)
    <3>1. IsFiniteSet(S) /\ U \subseteq SUBSET S /\ U # {}
      BY <1>1, <2>1
    <3> HIDE DEF U, S
    <3> QED BY <3>1, LeastSubset
  <2> QED BY <2>2
<1>3. ASSUME NEW y \in S PROVE x >= y
  <2>1. SUFFICES ASSUME y > x PROVE FALSE
    BY <1>1
  <2> DEFINE v == {z \in S : z > y}
             w == {z \in S : z > x}
  <2>2. v \in U /\ v \subseteq w /\ y \in w /\ y \notin v
    BY <1>1, <2>1
  <2>3. v # w
    BY <2>2
  <2> QED BY <1>2, <2>2, <2>3
<1>4. Highest(s) = CHOOSE z \in S : \A y \in S : z >= y
  BY DEF Highest, Max
<1>5. Highest(s) \in S /\ \A y \in S : Highest(s) >= y
  BY <1>3, <1>4
<1>6. Highest(s) \in Nat /\ NoLevel = 0 /\ \A y \in s : y \in Nat /\ y > 0
  <2>1. Levels \subseteq Nat \ {NoLevel} /\ NoLevel = 0
    BY RostersAssumption DEF NoLevel
  <2> DEFINE h == Highest(s)
  <2>2. h \in S
    BY <1>5
  <2> HIDE DEF h
  <2>3. h \in Nat
    BY <1>1, <2>2
  <2> QED BY <2>1, <2>3 DEF h
<1>7. s # {} => Highest(s) # NoLevel
  BY <1>5, <1>6
<1> QED BY <1>5, <1>6, <1>7

(* The fields of w that v has too.                                         *)
SameOurs(w, v) ==
    /\ v.ranked = w.ranked /\ v.renamed = w.renamed /\ v.index = w.index
    /\ v.accounts = w.accounts /\ v.tracked = w.tracked

SameLists(w, v) ==
    v.listed = w.listed /\ v.list = w.list /\ v.level = w.level /\ v.tracked = w.tracked

Becomes(w, v, listed, list, level) ==
    /\ v \in Workers /\ SameOurs(w, v)
    /\ v.listed = listed /\ v.list = list /\ v.level = level

LEMMA ListFields ==
  ASSUME NEW w \in Workers, NEW a \in SUBSET Channels, NEW b \in [Channels -> SUBSET Nicks],
         NEW d \in [Channels -> [Nicks -> SUBSET Levels]]
  PROVE  /\ Becomes(w, [w EXCEPT !.listed = a, !.list = b, !.level = d], a, b, d)
         /\ Becomes(w, [w EXCEPT !.list = b, !.level = d], w.listed, b, d)
         /\ Becomes(w, [w EXCEPT !.list = b], w.listed, b, w.level)
         /\ Becomes(w, [w EXCEPT !.level = d], w.listed, w.list, d)
<1>1. Becomes(w, [w EXCEPT !.listed = a, !.list = b, !.level = d], a, b, d)
  BY DEF Workers, SameOurs, Becomes
<1>2. Becomes(w, [w EXCEPT !.list = b, !.level = d], w.listed, b, d)
  BY DEF Workers, SameOurs, Becomes
<1>3. Becomes(w, [w EXCEPT !.list = b], w.listed, b, w.level)
  BY DEF Workers, SameOurs, Becomes
<1>4. Becomes(w, [w EXCEPT !.level = d], w.listed, w.list, d)
  BY DEF Workers, SameOurs, Becomes
<1> QED BY <1>1, <1>2, <1>3, <1>4

(* Whether the line is about a channel that has a list, or about none.     *)
Here(w, m) == m.channel \in Channels => m.channel \in w.listed

(* What a line makes of the library's lists, kind by kind.                 *)
LEMMA ListedFields ==
  ASSUME NEW w, WorkerOK(w), NEW m, LineOK(m)
  PROVE  LET v == Listed(w, m)
             c == m.channel
             n == m.nick
         IN /\ m.kind = "me_join" =>
                  Becomes(w, v, w.listed \union {c}, [w.list EXCEPT ![c] = {}],
                          [w.level EXCEPT ![c] = NoLevels])
            /\ m.kind = "me_kick" =>
                  Becomes(w, v, w.listed \ {c}, [w.list EXCEPT ![c] = {}],
                          [w.level EXCEPT ![c] = NoLevels])
            /\ m.kind \notin {"me_join", "me_kick"} /\ ~Here(w, m) => v = w
            /\ m.kind = "join" /\ Here(w, m) =>
                  Becomes(w, v, w.listed, [w.list EXCEPT ![c] = @ \union {n}], w.level)
            /\ m.kind = "part" /\ Here(w, m) =>
                  Becomes(w, v, w.listed, [w.list EXCEPT ![c] = @ \ {n}],
                          [w.level EXCEPT ![c] = [@ EXCEPT ![n] = {}]])
            /\ m.kind = "quit" =>
                  Becomes(w, v, w.listed, [d \in Channels |-> w.list[d] \ {n}],
                          [d \in Channels |-> [w.level[d] EXCEPT ![n] = {}]])
            /\ m.kind = "nick" =>
                  Becomes(w, v, w.listed,
                          [d \in Channels |-> IF n \notin w.list[d] THEN w.list[d]
                                              ELSE (w.list[d] \ {n}) \union {m.to}],
                          [d \in Channels |-> IF n \notin w.list[d] THEN w.level[d]
                                              ELSE [w.level[d] EXCEPT ![n] = {}, ![m.to] = {}]])
            /\ m.kind = "mode" /\ Here(w, m) =>
                  Becomes(w, v, w.listed, w.list,
                          IF n \in w.list[c]
                          THEN [w.level EXCEPT ![c][n] = IF m.grant THEN @ \union {m.level}
                                                         ELSE @ \ {m.level}]
                          ELSE w.level)
            /\ m.kind = "names" /\ Here(w, m) =>
                  Becomes(w, v, w.listed, [w.list EXCEPT ![c] = {k \in Nicks : m.names[k] >= 0}],
                          [w.level EXCEPT ![c] =
                              [k \in Nicks |-> {m.names[k]} \ {-1, NoLevel}]])
            /\ m.kind \in {"who", "whoend", "account", "me_part"} => v = w
<1> DEFINE v == Listed(w, m)
           c == m.channel
           n == m.nick
<1>0. /\ w \in Workers /\ w.listed \in SUBSET Channels /\ w.list \in [Channels -> SUBSET Nicks]
      /\ w.level \in [Channels -> [Nicks -> SUBSET Levels]]
      /\ NoLevels \in [Nicks -> SUBSET Levels]
  BY DEF WorkerOK, Workers, NoLevels
<1>0b. /\ m \in Lines /\ m.kind \in AboutChannel \union AboutNick
       /\ m.kind \in AboutChannel => c \in Channels
       /\ m.kind \in AboutNick => m.nick \in Nicks
       /\ m.kind \notin AboutChannel => c \notin Channels
       /\ m.kind = "nick" => m.to \in Nicks
       /\ m.kind = "mode" => m.level \in Levels
       /\ m.names \in [Nicks -> Levels \union {NoLevel, -1}]
  BY DEF LineOK, Lines
<1>1. ASSUME m.kind \in {"me_join", "me_kick"}, NEW l \in SUBSET Channels
      PROVE  Becomes(w, Emptied(w, c, l), l, [w.list EXCEPT ![c] = {}], [w.level EXCEPT ![c] = NoLevels])
  <2> DEFINE b == [w.list EXCEPT ![c] = {}]
             d == [w.level EXCEPT ![c] = NoLevels]
  <2>1. b \in [Channels -> SUBSET Nicks] /\ d \in [Channels -> [Nicks -> SUBSET Levels]]
    BY <1>0
  <2> HIDE DEF b, d
  <2>2. Becomes(w, [w EXCEPT !.listed = l, !.list = b, !.level = d], l, b, d)
    BY <1>0, <2>1, ListFields
  <2> QED BY <2>2 DEF b, d, Emptied
<1>2. ASSUME m.kind = "me_join"
      PROVE  Becomes(w, v, w.listed \union {c}, [w.list EXCEPT ![c] = {}],
                     [w.level EXCEPT ![c] = NoLevels])
  <2> DEFINE l == w.listed \union {c}
  <2>1. v = Emptied(w, c, l)
    BY <1>2 DEF Listed
  <2>2. l \in SUBSET Channels
    BY <1>0, <1>0b, <1>2 DEF AboutChannel
  <2> HIDE DEF l, v
  <2> QED BY <1>1, <1>2, <2>1, <2>2 DEF l
<1>3. ASSUME m.kind = "me_kick"
      PROVE  Becomes(w, v, w.listed \ {c}, [w.list EXCEPT ![c] = {}],
                     [w.level EXCEPT ![c] = NoLevels])
  <2> DEFINE l == w.listed \ {c}
  <2>1. v = Emptied(w, c, l)
    BY <1>3 DEF Listed
  <2>2. l \in SUBSET Channels
    BY <1>0
  <2> HIDE DEF l, v
  <2> QED BY <1>1, <1>3, <2>1, <2>2 DEF l
<1>4. ASSUME m.kind \notin {"me_join", "me_kick"}, ~Here(w, m)
      PROVE  v = w
  BY <1>4 DEF Listed, Here
<1>5. ASSUME m.kind = "join", Here(w, m)
      PROVE  Becomes(w, v, w.listed, [w.list EXCEPT ![c] = @ \union {n}], w.level)
  <2> DEFINE b == [w.list EXCEPT ![c] = @ \union {n}]
  <2>1. v = [w EXCEPT !.list = b]
    BY <1>5 DEF Listed, Here
  <2>2. b \in [Channels -> SUBSET Nicks]
    BY <1>0, <1>0b, <1>5 DEF AboutNick
  <2> HIDE DEF b, v
  <2> QED BY <1>0, <2>1, <2>2, ListFields DEF b
<1>6. ASSUME m.kind = "part", Here(w, m)
      PROVE  Becomes(w, v, w.listed, [w.list EXCEPT ![c] = @ \ {n}],
                     [w.level EXCEPT ![c] = [@ EXCEPT ![n] = {}]])
  <2> DEFINE b == [w.list EXCEPT ![c] = @ \ {n}]
             d == [w.level EXCEPT ![c] = [@ EXCEPT ![n] = {}]]
  <2>1. v = [w EXCEPT !.list = b, !.level = d]
    BY <1>6 DEF Listed, Here, LeavesList
  <2>2. b \in [Channels -> SUBSET Nicks] /\ d \in [Channels -> [Nicks -> SUBSET Levels]]
    BY <1>0, <1>0b, <1>6 DEF AboutNick
  <2> HIDE DEF b, d, v
  <2> QED BY <1>0, <2>1, <2>2, ListFields DEF b, d
<1>7. ASSUME m.kind = "quit"
      PROVE  Becomes(w, v, w.listed, [d \in Channels |-> w.list[d] \ {n}],
                     [d \in Channels |-> [w.level[d] EXCEPT ![n] = {}]])
  <2> DEFINE b == [d \in Channels |-> w.list[d] \ {n}]
             e == [d \in Channels |-> [w.level[d] EXCEPT ![n] = {}]]
  <2>1. v = [w EXCEPT !.list = b, !.level = e]
    BY <1>0b, <1>7 DEF Listed, AboutChannel, LeavesLists
  <2>2. b \in [Channels -> SUBSET Nicks] /\ e \in [Channels -> [Nicks -> SUBSET Levels]]
    BY <1>0, <1>0b, <1>7 DEF AboutNick
  <2> HIDE DEF b, e, v
  <2> QED BY <1>0, <2>1, <2>2, ListFields DEF b, e
<1>8. ASSUME m.kind = "nick"
      PROVE  Becomes(w, v, w.listed,
                     [d \in Channels |-> IF n \notin w.list[d] THEN w.list[d]
                                         ELSE (w.list[d] \ {n}) \union {m.to}],
                     [d \in Channels |-> IF n \notin w.list[d] THEN w.level[d]
                                         ELSE [w.level[d] EXCEPT ![n] = {}, ![m.to] = {}]])
  <2> DEFINE b == [d \in Channels |-> IF n \notin w.list[d] THEN w.list[d]
                                      ELSE (w.list[d] \ {n}) \union {m.to}]
             e == [d \in Channels |-> IF n \notin w.list[d] THEN w.level[d]
                                         ELSE [w.level[d] EXCEPT ![n] = {}, ![m.to] = {}]]
  <2>1. v = [w EXCEPT !.list = b, !.level = e]
    BY <1>0b, <1>8 DEF Listed, AboutChannel, NewName
  <2>2. b \in [Channels -> SUBSET Nicks]
    BY <1>0, <1>0b, <1>8 DEF AboutNick
  <2>3. e \in [Channels -> [Nicks -> SUBSET Levels]]
    BY <1>0, <1>0b, <1>8 DEF AboutNick
  <2> HIDE DEF b, e, v
  <2> QED BY <1>0, <2>1, <2>2, <2>3, ListFields DEF b, e
<1>9. ASSUME m.kind = "mode", Here(w, m)
      PROVE  Becomes(w, v, w.listed, w.list,
                     IF n \in w.list[c]
                     THEN [w.level EXCEPT ![c][n] = IF m.grant THEN @ \union {m.level}
                                                    ELSE @ \ {m.level}]
                     ELSE w.level)
  <2> DEFINE e == [w.level EXCEPT ![c][n] = IF m.grant THEN @ \union {m.level}
                                            ELSE @ \ {m.level}]
  <2>0. SameOurs(w, w)
    BY DEF SameOurs
  <2>1. CASE n \in w.list[c]
    <3>1. v = [w EXCEPT !.level = e]
      BY <1>9, <2>1 DEF Listed, Here
    <3>2. e \in [Channels -> [Nicks -> SUBSET Levels]]
      BY <1>0, <1>0b, <1>9 DEF AboutNick, AboutChannel
    <3> HIDE DEF e, v
    <3> QED BY <1>0, <2>1, <3>1, <3>2, ListFields DEF e
  <2>2. CASE n \notin w.list[c]
    <3>1. v = w
      BY <1>9, <2>2 DEF Listed, Here
    <3> QED BY <1>0, <2>0, <2>2, <3>1 DEF Becomes
  <2> QED BY <2>1, <2>2
<1>10. ASSUME m.kind = "names", Here(w, m)
       PROVE  Becomes(w, v, w.listed, [w.list EXCEPT ![c] = {k \in Nicks : m.names[k] >= 0}],
                      [w.level EXCEPT ![c] = [k \in Nicks |-> {m.names[k]} \ {-1, NoLevel}]])
  <2> DEFINE b == [w.list EXCEPT ![c] = {k \in Nicks : m.names[k] >= 0}]
             x == [k \in Nicks |-> {m.names[k]} \ {-1, NoLevel}]
             e == [w.level EXCEPT ![c] = x]
  <2>1. v = [w EXCEPT !.list = b, !.level = e]
    BY <1>10 DEF Listed, Here, Filled
  <2>2. b \in [Channels -> SUBSET Nicks]
    BY <1>0
  <2>4. x \in [Nicks -> SUBSET Levels]
    BY <1>0b
  <2>3. e \in [Channels -> [Nicks -> SUBSET Levels]]
    <3> HIDE DEF x
    <3> QED BY <1>0, <2>4
  <2> HIDE DEF b, e, v
  <2> QED BY <1>0, <2>1, <2>2, <2>3, ListFields DEF b, e
<1>11. ASSUME m.kind \in {"who", "whoend", "account", "me_part"}
       PROVE  v = w
  BY <1>11 DEF Listed
<1> HIDE DEF v
<1>12. v = Listed(w, m)
  BY DEF v
<1> QED BY <1>2, <1>3, <1>4, <1>5, <1>6, <1>7, <1>8, <1>9, <1>10, <1>11, <1>12

LEMMA ListedType ==
  ASSUME NEW w, WorkerOK(w), NEW m, LineOK(m)
  PROVE  WorkerOK(Listed(w, m)) /\ SameOurs(w, Listed(w, m))
<1> DEFINE v == Listed(w, m)
<1>1. SameOurs(w, w) /\ w \in Workers
  BY DEF SameOurs, WorkerOK
<1>2. m.kind \in AboutChannel \union AboutNick
  BY DEF LineOK, Lines
<1>3. v \in Workers /\ SameOurs(w, v)
      /\ v.listed \in {w.listed, w.listed \union {m.channel}, w.listed \ {m.channel}}
  BY <1>1, <1>2, ListedFields DEF AboutChannel, AboutNick, Becomes
<1>4. IsFiniteSet(v.listed)
  BY <1>3, FS_AddElement, FS_RemoveElement DEF WorkerOK
<1> QED BY <1>3, <1>4 DEF WorkerOK, SameOurs

(* What a line changes of the accounts is told to the window.              *)
LEMMA AccountedFollows ==
  ASSUME NEW w, WorkerOK(w), NEW m, LineOK(m)
  PROVE  Follows(w.accounts, Accounted(w, m))
<1> DEFINE a == w.accounts
           b == Accounted(w, m)
<1>1. Accounts(a) /\ AsksOK(a) /\ Follows(a, a)
  <2>1. a \in AccountRecords
    BY DEF WorkerOK, Workers
  <2> QED BY <2>1, Records DEF Follows
<1>2. /\ m.kind \in AboutChannel \union AboutNick
      /\ m.kind \in AboutChannel => m.channel \in Channels
      /\ m.kind \in AboutNick => m.nick \in Nicks
      /\ m.kind = "nick" => m.to \in Nicks
      /\ m.account \in Logins \union {A!LoggedOut, A!Unsaid}
      /\ m.kind \in {"account", "who"} => m.account \in Logins \union {A!LoggedOut}
      /\ m.kind = "who" => m.token \in 1..999
  BY DEF LineOK, Lines
<1> HIDE DEF a
<1>3. ASSUME m.kind = "join" PROVE Follows(a, b)
  <2>1. b = A!SomeoneJoined(a, m.nick, m.channel, m.account)
    BY <1>3 DEF Accounted, a
  <2> QED BY <1>1, <1>2, <1>3, <2>1, JoinFollows DEF AboutChannel, AboutNick
<1>4. ASSUME m.kind = "part" PROVE Follows(a, b)
  <2>1. b = A!SomeoneLeft(a, m.nick, m.channel)
    BY <1>4 DEF Accounted, a
  <2> QED BY <1>1, <1>2, <1>4, <2>1, GoneFollows DEF AboutChannel, AboutNick
<1>5. ASSUME m.kind = "quit" PROVE Follows(a, b)
  <2>1. b = A!SomeoneQuit(a, m.nick)
    BY <1>5 DEF Accounted, a
  <2>2. m.nick \in Nicks
    BY <1>2, <1>5 DEF AboutNick
  <2>3. Follows(a, A!Departed(a, m.nick, Channels)) /\ Accounts(A!Departed(a, m.nick, Channels))
    BY <1>1, <2>2, AsksFollow DEF Follows
  <2> QED BY <2>1, <2>2, <2>3, ForgetUserFollows, FollowsOn DEF A!SomeoneQuit
<1>6. ASSUME m.kind = "nick" PROVE Follows(a, b)
  <2>1. b = A!SomeoneRenamed(a, m.nick, m.to)
    BY <1>6 DEF Accounted, a
  <2> QED BY <1>1, <1>2, <1>6, <2>1, RenameFollows DEF AboutNick
<1>7. ASSUME m.kind = "account" PROVE Follows(a, b)
  <2> DEFINE s == P!ChannelKeysOf(w.index, m.nick)
  <2>1. b = A!AccountChanged(a, m.nick, m.account, s)
    BY <1>7 DEF Accounted, a
  <2>2. m.nick \in Nicks
    BY <1>2, <1>7 DEF AboutNick
  <2>3. s \in SUBSET Channels
    BY <2>2 DEF WorkerOK, Workers, P!Indexes, P!ChannelKeysOf
  <2> HIDE DEF s
  <2>4. Follows(a, A!Learn(a, m.nick, m.account, FALSE, s))
    BY <1>1, <1>2, <2>2, <2>3, LearnFollows, ZenonT(30)
  <2> QED BY <2>1, <2>4 DEF A!AccountChanged
<1>8. ASSUME m.kind \in {"me_part", "me_kick"} PROVE Follows(a, b)
  <2>1. b = A!ForgetChannel(a, m.channel)
    BY <1>8 DEF Accounted, a
  <2> DEFINE c == m.channel
  <2>2. Accounts(a)
    BY <1>1
  <2> HIDE DEF c
  <2>3. Follows(a, A!ForgetChannel(a, c))
    BY ONLY <2>2, ForgetChannelFollows
  <2> QED BY <2>1, <2>3 DEF c
<1>9. ASSUME m.kind = "who" PROVE Follows(a, b)
  <2>1. b = A!WhoLine(a, m.token, m.nick, m.account)
    BY <1>9 DEF Accounted, a
  <2> DEFINE n == m.nick
             k == m.account
             t == m.token
  <2>2. n \in Nicks /\ k \in Logins \union {A!LoggedOut} /\ t \in 1..999
    BY <1>2, <1>9 DEF AboutNick
  <2> HIDE DEF n, k, t
  <2>3. Follows(a, A!WhoLine(a, t, n, k))
    BY <1>1, <2>2, WhoFollows, SMTT(30)
  <2> QED BY <2>1, <2>3 DEF n, k, t
<1>10. ASSUME m.kind = "whoend" PROVE Follows(a, b)
  <2>1. b = A!WhoEnd(a, m.channel)
    BY <1>10 DEF Accounted, a
  <2> QED BY <1>1, <2>1, AsksFollow
<1>11. ASSUME m.kind = "me_join" PROVE Follows(a, b)
  <2>1. b = A!Joined(a, m.channel)
    BY <1>11 DEF Accounted, a
  <2> QED BY <1>1, <1>2, <1>11, <2>1, AsksFollow DEF AboutChannel
<1>12. ASSUME m.kind \in {"mode", "names"} PROVE Follows(a, b)
  <2>1. b = a
    BY <1>12 DEF Accounted, a
  <2> QED BY <1>1, <2>1
<1> HIDE DEF b
<1>13. Follows(a, b)
  BY <1>2, <1>3, <1>4, <1>5, <1>6, <1>7, <1>8, <1>9, <1>10, <1>11, <1>12
     DEF AboutChannel, AboutNick
<1> QED BY <1>13 DEF a, b

(* The worker apart from the library's lists.                              *)
Ours(w, v, ranked, renamed, index, accounts) ==
    /\ v \in Workers /\ SameLists(w, v)
    /\ v.ranked = ranked /\ v.renamed = renamed /\ v.index = index /\ v.accounts = accounts

LEMMA OurFields ==
  ASSUME NEW w \in Workers, NEW r \in [Channels -> Names], NEW q \in [Channels -> Names],
         NEW x \in P!Indexes, NEW a \in AccountRecords
  PROVE  /\ Ours(w, [w EXCEPT !.accounts = a], w.ranked, w.renamed, w.index, a)
         /\ Ours(w, [w EXCEPT !.renamed = q], w.ranked, q, w.index, w.accounts)
         /\ Ours(w, [w EXCEPT !.index = x], w.ranked, w.renamed, x, w.accounts)
         /\ Ours(w, [w EXCEPT !.ranked = r, !.renamed = q, !.index = x], r, q, x, w.accounts)
         /\ Ours(w, [w EXCEPT !.renamed = q, !.ranked = r, !.index = x, !.accounts = a],
                 r, q, x, a)
<1>1. Ours(w, [w EXCEPT !.accounts = a], w.ranked, w.renamed, w.index, a)
  BY DEF Workers, SameLists, Ours
<1>2. Ours(w, [w EXCEPT !.renamed = q], w.ranked, q, w.index, w.accounts)
  BY DEF Workers, SameLists, Ours
<1>3. Ours(w, [w EXCEPT !.index = x], w.ranked, w.renamed, x, w.accounts)
  BY DEF Workers, SameLists, Ours
<1>4. Ours(w, [w EXCEPT !.ranked = r, !.renamed = q, !.index = x], r, q, x, w.accounts)
  BY DEF Workers, SameLists, Ours
<1>5. Ours(w, [w EXCEPT !.renamed = q, !.ranked = r, !.index = x, !.accounts = a], r, q, x, a)
  BY DEF Workers, SameLists, Ours
<1> QED BY <1>1, <1>2, <1>3, <1>4, <1>5

(* The roles carried over a change of nickname.                            *)
Carried(w, old, new) ==
    [c \in Channels |->
        LET role == IF w.renamed[c][old] # NoLevel THEN w.renamed[c][old] ELSE w.ranked[c][old]
        IN IF c \notin w.listed THEN w.renamed[c]
           ELSE IF role = NoLevel THEN [w.renamed[c] EXCEPT ![old] = NoLevel]
           ELSE [w.renamed[c] EXCEPT ![old] = NoLevel, ![new] = role]]

LEMMA NoRoleIsNames ==
  NoRole \in Names /\ \A n \in Nicks : NoRole[n] = NoLevel
BY DEF NoRole, Names

LEMMA CarriedType ==
  ASSUME NEW w \in Workers, NEW old \in Nicks, NEW new \in Nicks
  PROVE  /\ Carried(w, old, new) \in [Channels -> Names]
         /\ \A c \in Channels, n \in Nicks :
               Carried(w, old, new)[c][n] =
                  LET role == IF w.renamed[c][old] # NoLevel THEN w.renamed[c][old]
                              ELSE w.ranked[c][old]
                  IN IF c \in w.listed
                     THEN IF n = new /\ role # NoLevel THEN role
                          ELSE IF n = old THEN NoLevel
                          ELSE w.renamed[c][n]
                     ELSE w.renamed[c][n]
<1>1. w.renamed \in [Channels -> Names] /\ w.ranked \in [Channels -> Names]
  BY DEF Workers
<1>2. ASSUME NEW c \in Channels
      PROVE  /\ Carried(w, old, new)[c] \in Names
             /\ \A n \in Nicks :
                   Carried(w, old, new)[c][n] =
                      LET role == IF w.renamed[c][old] # NoLevel THEN w.renamed[c][old]
                                  ELSE w.ranked[c][old]
                      IN IF c \in w.listed
                         THEN IF n = new /\ role # NoLevel THEN role
                              ELSE IF n = old THEN NoLevel
                              ELSE w.renamed[c][n]
                         ELSE w.renamed[c][n]
  <2> DEFINE x == w.renamed[c]
             y == w.ranked[c]
             role == IF x[old] # NoLevel THEN x[old] ELSE y[old]
             z == IF c \notin w.listed THEN x
                  ELSE IF role = NoLevel THEN [x EXCEPT ![old] = NoLevel]
                  ELSE [x EXCEPT ![old] = NoLevel, ![new] = role]
  <2>1. x \in Names /\ y \in Names
    BY <1>1
  <2>2. Carried(w, old, new)[c] = z
    BY DEF Carried
  <2> HIDE DEF x, y
  <2>3. z \in Names
    BY <2>1 DEF Names
  <2>4. \A n \in Nicks : z[n] = IF c \in w.listed
                                THEN IF n = new /\ role # NoLevel THEN role
                                     ELSE IF n = old THEN NoLevel
                                     ELSE x[n]
                                ELSE x[n]
    BY <2>1 DEF Names
  <2> HIDE DEF z
  <2> QED BY <2>2, <2>3, <2>4 DEF x, y
<1>3. Carried(w, old, new) = [c \in Channels |-> Carried(w, old, new)[c]]
  BY DEF Carried
<1> HIDE DEF Carried
<1> QED BY <1>2, <1>3

(* What the tracker makes of a line before the rosters are published.      *)
LEMMA TrackedFields ==
  ASSUME NEW w, WorkerOK(w), NEW m, LineOK(m)
  PROVE  LET v == Tracked(w, m)
             c == m.channel
             n == m.nick
         IN /\ m.kind = "nick" =>
                  Ours(w, v, w.ranked, Carried(w, n, m.to), P!Rename(w.index, n, m.to), w.accounts)
            /\ m.kind = "quit" =>
                  Ours(w, v, w.ranked, w.renamed, P!Quit(w.index, n), w.accounts)
            /\ m.kind = "mode" =>
                  Ours(w, v, w.ranked, [w.renamed EXCEPT ![c] = [@ EXCEPT ![n] = NoLevel]],
                       w.index, w.accounts)
            /\ m.kind \in {"me_part", "me_kick"} =>
                  Ours(w, v, [w.ranked EXCEPT ![c] = NoRole], [w.renamed EXCEPT ![c] = NoRole],
                       P!RemoveChannel(w.index, c), w.accounts)
            /\ m.kind = "names" =>
                  Ours(w, v, w.ranked, [w.renamed EXCEPT ![c] = NoRole], w.index, w.accounts)
            /\ m.kind \in {"join", "part", "account", "who", "whoend", "me_join"} =>
                  Ours(w, v, w.ranked, w.renamed, w.index, w.accounts)
<1> DEFINE v == Tracked(w, m)
           c == m.channel
           n == m.nick
<1>0. /\ w \in Workers /\ w.ranked \in [Channels -> Names] /\ w.renamed \in [Channels -> Names]
      /\ w.index \in P!Indexes /\ P!Consistent(w.index) /\ w.accounts \in AccountRecords
      /\ NoRole \in Names
  BY NoRoleIsNames DEF WorkerOK, Workers
<1>0b. /\ m.kind \in AboutChannel => c \in Channels
       /\ m.kind \in AboutNick => n \in Nicks
       /\ m.kind = "nick" => m.to \in Nicks
  BY DEF LineOK, Lines
<1>1. ASSUME m.kind = "nick"
      PROVE  Ours(w, v, w.ranked, Carried(w, n, m.to), P!Rename(w.index, n, m.to), w.accounts)
  <2> DEFINE q == Carried(w, n, m.to)
             x == P!Rename(w.index, n, m.to)
             u == RenameRoles(w, n, m.to)
  <2>1. n \in Nicks /\ m.to \in Nicks
    BY <1>0b, <1>1 DEF AboutNick
  <2>2. x \in P!Indexes
    BY <1>0, <2>1, RenameKeeps, FixedValues
  <2>3. q \in [Channels -> Names]
    BY <1>0, <2>1, CarriedType
  <2>4. v = [u EXCEPT !.index = P!Rename(@, n, m.to)]
    BY <1>1 DEF Tracked
  <2>5. u = [w EXCEPT !.renamed = q]
    BY <1>0 DEF RenameRoles, Carried, Workers
  <2> HIDE DEF q, x, u, v
  <2>6. Ours(w, u, w.ranked, q, w.index, w.accounts)
    BY <1>0, <2>3, <2>5, OurFields
  <2>7. v = [u EXCEPT !.index = x]
    BY <2>4, <2>6 DEF Ours, x, Workers
  <2>8. Ours(u, v, u.ranked, u.renamed, x, u.accounts)
    <3>1. u \in Workers
      BY <2>6 DEF Ours
    <3>2. u.ranked \in [Channels -> Names] /\ u.renamed \in [Channels -> Names]
          /\ u.accounts \in AccountRecords
      BY <3>1 DEF Workers
    <3> QED BY <2>2, <2>7, <3>1, <3>2, OurFields
  <2>9. Ours(w, v, w.ranked, q, x, w.accounts)
    BY <2>6, <2>8 DEF Ours, SameLists
  <2> QED BY <2>9 DEF q, x
<1>2. ASSUME m.kind = "quit"
      PROVE  Ours(w, v, w.ranked, w.renamed, P!Quit(w.index, n), w.accounts)
  <2> DEFINE x == P!Quit(w.index, n)
  <2>1. x \in P!Indexes
    BY <1>0, <1>0b, <1>2, QuitKeeps, FixedValues DEF AboutNick
  <2>2. v = [w EXCEPT !.index = x]
    BY <1>0, <1>2 DEF Tracked, Workers
  <2> HIDE DEF x, v
  <2> QED BY <1>0, <2>1, <2>2, OurFields DEF x
<1>3. ASSUME m.kind = "mode"
      PROVE  Ours(w, v, w.ranked, [w.renamed EXCEPT ![c] = [@ EXCEPT ![n] = NoLevel]],
                  w.index, w.accounts)
  <2> DEFINE y == [w.renamed[c] EXCEPT ![n] = NoLevel]
             q == [w.renamed EXCEPT ![c] = y]
  <2>1. c \in Channels /\ n \in Nicks
    BY <1>0b, <1>3 DEF AboutNick, AboutChannel
  <2>2. y \in Names
    BY <1>0, <2>1 DEF Names
  <2>3. q = [w.renamed EXCEPT ![c] = [@ EXCEPT ![n] = NoLevel]]
    BY <1>0, <2>1
  <2>4. v = [w EXCEPT !.renamed = q]
    BY <1>0, <1>3, <2>3 DEF Tracked, ClearModeTarget, Workers
  <2>5. q \in [Channels -> Names]
    <3> HIDE DEF y
    <3> QED BY <1>0, <2>2
  <2> HIDE DEF q, v
  <2>6. Ours(w, v, w.ranked, q, w.index, w.accounts)
    BY <1>0, <2>4, <2>5, OurFields
  <2> QED BY <2>3, <2>6
<1>4. ASSUME m.kind \in {"me_part", "me_kick"}
      PROVE  Ours(w, v, [w.ranked EXCEPT ![c] = NoRole], [w.renamed EXCEPT ![c] = NoRole],
                  P!RemoveChannel(w.index, c), w.accounts)
  <2> DEFINE r == [w.ranked EXCEPT ![c] = NoRole]
             q == [w.renamed EXCEPT ![c] = NoRole]
             x == P!RemoveChannel(w.index, c)
  <2>1. x \in P!Indexes
    BY <1>0, <1>0b, <1>4, RemoveChannelKeeps, FixedValues DEF AboutChannel
  <2>2. r \in [Channels -> Names] /\ q \in [Channels -> Names]
    BY <1>0
  <2>3. v = [w EXCEPT !.ranked = r, !.renamed = q, !.index = x]
    BY <1>0, <1>4 DEF Tracked, ForgetRoster, Workers
  <2> HIDE DEF r, q, x, v
  <2> QED BY <1>0, <2>1, <2>2, <2>3, OurFields DEF r, q, x
<1>5. ASSUME m.kind = "names"
      PROVE  Ours(w, v, w.ranked, [w.renamed EXCEPT ![c] = NoRole], w.index, w.accounts)
  <2> DEFINE q == [w.renamed EXCEPT ![c] = NoRole]
  <2>2. q \in [Channels -> Names]
    BY <1>0
  <2>3. v = [w EXCEPT !.renamed = q]
    BY <1>0, <1>5 DEF Tracked, AcceptNames, Workers
  <2> HIDE DEF q, v
  <2> QED BY <1>0, <2>2, <2>3, OurFields DEF q
<1>6. ASSUME m.kind \in {"join", "part", "account", "who", "whoend", "me_join"}
      PROVE  Ours(w, v, w.ranked, w.renamed, w.index, w.accounts)
  <2>1. v = w
    BY <1>6 DEF Tracked
  <2> QED BY <1>0, <2>1 DEF Ours, SameLists
<1> HIDE DEF v
<1>7. v = Tracked(w, m)
  BY DEF v
<1> QED BY <1>1, <1>2, <1>3, <1>4, <1>5, <1>6, <1>7

LEMMA TrackedType ==
  ASSUME NEW w, WorkerOK(w), NEW m, LineOK(m)
  PROVE  LET v == Tracked(w, m)
         IN WorkerOK(v) /\ SameLists(w, v) /\ v.accounts = w.accounts
<1> DEFINE v == Tracked(w, m)
           c == m.channel
           n == m.nick
<1>1. m.kind \in AboutChannel \union AboutNick
  BY DEF LineOK, Lines
<1>2. /\ m.kind \in AboutChannel => c \in Channels
      /\ m.kind \in AboutNick => n \in Nicks
      /\ m.kind = "nick" => m.to \in Nicks
      /\ w.index \in P!Indexes /\ P!Consistent(w.index)
  BY DEF LineOK, WorkerOK, Workers
<1>3. /\ v \in Workers /\ SameLists(w, v) /\ v.accounts = w.accounts
      /\ \/ m.kind = "nick" /\ v.index = P!Rename(w.index, n, m.to)
         \/ m.kind = "quit" /\ v.index = P!Quit(w.index, n)
         \/ m.kind \in {"me_part", "me_kick"} /\ v.index = P!RemoveChannel(w.index, c)
         \/ v.index = w.index
  <2>1. m.kind \in {"nick", "quit", "mode", "me_part", "me_kick", "names", "join", "part",
                    "account", "who", "whoend", "me_join"}
    BY <1>1 DEF AboutChannel, AboutNick
  <2> DEFINE Fit(x) == \E r, q : Ours(w, v, r, q, x, w.accounts)
  <2>2. /\ m.kind = "nick" => Fit(P!Rename(w.index, n, m.to))
        /\ m.kind = "quit" => Fit(P!Quit(w.index, n))
        /\ m.kind \in {"me_part", "me_kick"} => Fit(P!RemoveChannel(w.index, c))
        /\ m.kind \in {"mode", "names", "join", "part", "account", "who", "whoend", "me_join"}
              => Fit(w.index)
    BY TrackedFields
  <2>3. \A x : Fit(x) => v \in Workers /\ SameLists(w, v) /\ v.accounts = w.accounts
                          /\ v.index = x
    BY DEF Ours
  <2> HIDE DEF Fit, v
  <2> QED BY <2>1, <2>2, <2>3
<1>4. P!Consistent(v.index)
  BY <1>2, <1>3, FixedValues, RenameKeeps, QuitKeeps, RemoveChannelKeeps
     DEF AboutChannel, AboutNick
<1> QED BY <1>3, <1>4 DEF WorkerOK, SameLists

(* What is published of a channel: the roles that are kept, and those      *)
(* shown.                                                                  *)
Kept(w, c) == [n \in Nicks |-> IF n \in w.list[c] THEN w.renamed[c][n] ELSE NoLevel]

Shown(w, c) ==
    [n \in Nicks |-> IF n \notin w.list[c] THEN NoLevel
                     ELSE IF Kept(w, c)[n] # NoLevel THEN Kept(w, c)[n]
                     ELSE Highest(w.level[c][n])]

LEMMA ShownType ==
  ASSUME NEW w \in Workers, NEW c \in Channels
  PROVE  Kept(w, c) \in Names /\ Shown(w, c) \in Names
<1>1. w.renamed[c] \in Names /\ w.level[c] \in [Nicks -> SUBSET Levels]
  BY DEF Workers
<1>2. Kept(w, c) \in Names
  BY <1>1 DEF Kept, Names
<1>3. \A n \in Nicks : Kept(w, c)[n] \in Levels \union {NoLevel}
                       /\ Highest(w.level[c][n]) \in Levels \union {NoLevel}
  BY <1>1, <1>2, HighestIs DEF Names
<1>4. Shown(w, c) \in Names
  <2> DEFINE S(n) == IF n \notin w.list[c] THEN NoLevel
                     ELSE IF Kept(w, c)[n] # NoLevel THEN Kept(w, c)[n]
                     ELSE Highest(w.level[c][n])
  <2>1. \A n \in Nicks : S(n) \in Levels \union {NoLevel}
    BY <1>3
  <2>2. Shown(w, c) = [n \in Nicks |-> S(n)]
    BY DEF Shown
  <2> HIDE DEF S
  <2> QED BY <2>1, <2>2 DEF Names
<1> QED BY <1>2, <1>4

(* What publishing one roster changes.                                     *)
LEMMA SnapshotFields ==
  ASSUME NEW w \in Workers, P!Consistent(w.index), NEW c \in Channels
  PROVE  /\ c \notin w.listed => Snapshot(w, c) = w
         /\ c \in w.listed =>
              Ours(w, Snapshot(w, c), [w.ranked EXCEPT ![c] = Shown(w, c)],
                   [w.renamed EXCEPT ![c] = Kept(w, c)],
                   P!ReplaceChannel(w.index, c, w.list[c]),
                   IF w.tracked THEN A!Names(w.accounts, c, w.list[c]) ELSE w.accounts)
         /\ Follows(w.accounts, Snapshot(w, c).accounts)
         /\ P!Consistent(Snapshot(w, c).index)
<1> DEFINE r == [w.ranked EXCEPT ![c] = Shown(w, c)]
           q == [w.renamed EXCEPT ![c] = Kept(w, c)]
           x == P!ReplaceChannel(w.index, c, w.list[c])
           a == IF w.tracked THEN A!Names(w.accounts, c, w.list[c]) ELSE w.accounts
           v == Snapshot(w, c)
<1>1. w.accounts \in AccountRecords /\ w.list[c] \in SUBSET Nicks /\ w.index \in P!Indexes
  BY DEF Workers
<1>2. Accounts(w.accounts) /\ Follows(w.accounts, w.accounts)
  BY <1>1, Records DEF Follows
<1>3. Follows(w.accounts, a)
  BY <1>1, <1>2, NamesFollows
<1>4. x \in P!Indexes /\ P!Consistent(x)
  BY <1>1, FixedValues, ReplaceChannelKeeps
<1>5. r \in [Channels -> Names] /\ q \in [Channels -> Names]
  BY ShownType DEF Workers
<1>6. a \in AccountRecords
  BY <1>1, <1>3, FollowsRecords
<1>7. CASE c \notin w.listed
  <2>1. v = w
    BY <1>7 DEF Snapshot
  <2> QED BY <1>2, <1>7, <2>1
<1>8. CASE c \in w.listed
  <2>1. v = [w EXCEPT !.renamed = q, !.ranked = r, !.index = x, !.accounts = a]
    BY <1>8 DEF Snapshot, Kept, Shown, Workers
  <2> HIDE DEF r, q, x, a, v
  <2>2. Ours(w, v, r, q, x, a)
    BY <1>4, <1>5, <1>6, <2>1, OurFields
  <2>3. v.accounts = a /\ v.index = x
    BY <2>2 DEF Ours
  <2> QED BY <1>3, <1>4, <1>8, <2>2, <2>3 DEF r, q, x, a, v
<1> QED BY <1>7, <1>8

(* The worker when the accounts have taken the line, and then the roster   *)
(* tracker.                                                                *)
AccountedW(w, m) == IF w.tracked THEN [w EXCEPT !.accounts = Accounted(w, m)] ELSE w

Before(w, m) == Tracked(AccountedW(w, m), m)

LEMMA AccountedType ==
  ASSUME NEW w, WorkerOK(w), NEW m, LineOK(m)
  PROVE  LET v == AccountedW(w, m)
         IN /\ WorkerOK(v)
            /\ Ours(w, v, w.ranked, w.renamed, w.index,
                    IF w.tracked THEN Accounted(w, m) ELSE w.accounts)
            /\ Follows(w.accounts, v.accounts)
<1> DEFINE b == Accounted(w, m)
           v == AccountedW(w, m)
           a == IF w.tracked THEN b ELSE w.accounts
<1>1. w \in Workers /\ w.accounts \in AccountRecords
  BY DEF WorkerOK, Workers
<1>2. Follows(w.accounts, b) /\ Follows(w.accounts, w.accounts)
  BY <1>1, AccountedFollows, Records DEF Follows
<1>3. b \in AccountRecords
  BY <1>1, <1>2, FollowsRecords
<1>4. CASE w.tracked
  <2>1. v = [w EXCEPT !.accounts = b]
    BY <1>4 DEF AccountedW
  <2> HIDE DEF v, b
  <2>2. Ours(w, v, w.ranked, w.renamed, w.index, b)
    BY <1>1, <1>3, <2>1, OurFields DEF Workers
  <2> QED BY <1>2, <1>4, <2>2 DEF Ours, SameLists, WorkerOK, v, b
<1>5. CASE ~w.tracked
  <2>1. v = w
    BY <1>5 DEF AccountedW
  <2> QED BY <1>1, <1>2, <1>5, <2>1 DEF Ours, SameLists
<1> QED BY <1>4, <1>5

LEMMA BeforeType ==
  ASSUME NEW w, WorkerOK(w), NEW m, LineOK(m)
  PROVE  LET v == Before(w, m)
         IN /\ WorkerOK(v) /\ SameLists(w, v)
            /\ v.accounts = IF w.tracked THEN Accounted(w, m) ELSE w.accounts
            /\ Follows(w.accounts, v.accounts)
<1> DEFINE u == AccountedW(w, m)
           v == Before(w, m)
<1>1. /\ WorkerOK(u) /\ SameLists(w, u) /\ Follows(w.accounts, u.accounts)
      /\ u.accounts = IF w.tracked THEN Accounted(w, m) ELSE w.accounts
  BY AccountedType DEF Ours
<1> HIDE DEF u
<1>2. v = Tracked(u, m)
  BY DEF Before, u
<1> HIDE DEF v
<1>3. WorkerOK(v) /\ SameLists(u, v) /\ v.accounts = u.accounts
  BY <1>1, <1>2, TrackedType
<1>4. SameLists(w, v)
  BY <1>1, <1>3 DEF SameLists
<1> QED BY <1>1, <1>3, <1>4 DEF v

LEMMA ChangedType ==
  ASSUME NEW w, WorkerOK(w), NEW m, LineOK(m)
  PROVE  Changed(w, m) \in SUBSET Channels /\ IsFiniteSet(Changed(w, m))
<1> DEFINE c == m.channel
           s == {d \in w.listed : P!InChannel(w.index, d, m.nick)}
<1>1. m.kind \in AboutChannel => c \in Channels
  BY DEF LineOK
<1>2. s \in SUBSET Channels /\ IsFiniteSet(s)
  <2>1. w.listed \in SUBSET Channels /\ IsFiniteSet(w.listed)
    BY DEF WorkerOK, Workers
  <2> QED BY <2>1, FS_Subset
<1>3. ASSUME m.kind \in {"join", "part", "mode", "names", "me_join"}
      PROVE  Changed(w, m) = {c}
  BY <1>3 DEF Changed
<1>4. ASSUME m.kind \in {"quit", "nick"}
      PROVE  Changed(w, m) = s
  BY <1>4 DEF Changed
<1>5. ASSUME m.kind \notin {"join", "part", "mode", "names", "me_join", "quit", "nick"}
      PROVE  Changed(w, m) = {}
  BY <1>5 DEF Changed
<1>6. IsFiniteSet({c}) /\ IsFiniteSet({})
  BY FS_Singleton, FS_EmptySet
<1> HIDE DEF s
<1> QED BY <1>1, <1>2, <1>3, <1>4, <1>5, <1>6 DEF AboutChannel

(* How the accounts change when the rosters of some channels are published.*)
Thins(a, b, s, list) ==
    \A n \in Nicks :
       /\ b.users[n] = A!Unknown \/ /\ b.users[n].account = a.users[n].account
                                    /\ b.users[n].real = a.users[n].real
                                    /\ A!IsKnown(a, n)
       /\ \A c \in b.users[n].channels : IF c \in s THEN n \in list[c]
                                         ELSE c \in a.users[n].channels

LEMMA NamesThin ==
  ASSUME NEW a, Accounts(a), NEW b, Accounts(b), NEW s, NEW list, Thins(a, b, s, list),
         NEW c \in Channels, list[c] \in SUBSET Nicks
  PROVE  Thins(a, A!Names(b, c, list[c]), s \union {c}, list)
<1> DEFINE z == A!Names(b, c, list[c])
           present == list[c]
<1>1. z.users = [n \in Nicks |-> IF n \in present
                                 THEN IF A!IsKnown(b, n) THEN A!Noted(b.users[n], c)
                                      ELSE b.users[n]
                                 ELSE IF c \in b.users[n].channels THEN Left(b.users[n], c)
                                 ELSE b.users[n]]
  BY NamesFollows
<1> HIDE DEF z
<1>2. SUFFICES ASSUME NEW n \in Nicks
      PROVE  /\ z.users[n] = A!Unknown \/ /\ z.users[n].account = a.users[n].account
                                          /\ z.users[n].real = a.users[n].real
                                          /\ A!IsKnown(a, n)
             /\ \A d \in z.users[n].channels : IF d \in s \union {c} THEN n \in list[d]
                                               ELSE d \in a.users[n].channels
  BY DEF Thins, z
<1>3. /\ b.users[n] = A!Unknown \/ /\ b.users[n].account = a.users[n].account
                                   /\ b.users[n].real = a.users[n].real
                                   /\ A!IsKnown(a, n)
      /\ \A d \in b.users[n].channels : IF d \in s THEN n \in list[d]
                                        ELSE d \in a.users[n].channels
  BY DEF Thins
<1>4. b.users[n] \in A!Entries /\ a.users[n] \in A!Entries
  BY DEF Accounts, Mirrors
<1>4a. A!Unknown.channels = {}
  BY DEF A!Unknown
<1>5. CASE n \in present
  <2>1. CASE A!IsKnown(b, n)
    <3>1. z.users[n] = A!Noted(b.users[n], c)
      BY <1>1, <1>5, <2>1
    <3>2. b.users[n] # A!Unknown
      BY <2>1 DEF A!IsKnown
    <3>3. /\ z.users[n].account = b.users[n].account /\ z.users[n].real = b.users[n].real
          /\ z.users[n].channels = b.users[n].channels \union {c}
      BY <1>4, <3>1 DEF A!Noted, A!Entries
    <3> QED BY <1>3, <1>5, <3>2, <3>3
  <2>2. CASE ~A!IsKnown(b, n)
    <3>1. z.users[n] = b.users[n] /\ b.users[n] = A!Unknown
      BY <1>1, <1>5, <2>2 DEF A!IsKnown
    <3> QED BY <1>4a, <3>1
  <2> QED BY <2>1, <2>2
<1>6. CASE n \notin present /\ c \in b.users[n].channels
  <2>1. z.users[n] = Left(b.users[n], c)
    BY <1>1, <1>6
  <2>2. b.users[n] # A!Unknown
    BY <1>4a, <1>6
  <2>3. CASE b.users[n].channels \subseteq {c}
    <3>1. z.users[n] = A!Unknown
      BY <2>1, <2>3 DEF Left
    <3> QED BY <1>4a, <3>1
  <2>4. CASE ~(b.users[n].channels \subseteq {c})
    <3>1. /\ z.users[n].account = b.users[n].account /\ z.users[n].real = b.users[n].real
          /\ z.users[n].channels = b.users[n].channels \ {c}
      BY <1>4, <2>1, <2>4 DEF Left, A!Entries
    <3> QED BY <1>3, <2>2, <3>1
  <2> QED BY <2>3, <2>4
<1>7. CASE n \notin present /\ c \notin b.users[n].channels
  <2>1. z.users[n] = b.users[n]
    BY <1>1, <1>7
  <2> QED BY <1>3, <1>7, <2>1
<1> QED BY <1>5, <1>6, <1>7

(* The rosters of s are published, one after the other, from b on.         *)
Roles(b, v, s) ==
    \A c \in Channels :
       /\ v.ranked[c] = IF c \in s \intersect b.listed THEN Shown(b, c) ELSE b.ranked[c]
       /\ v.renamed[c] = IF c \in s \intersect b.listed THEN Kept(b, c) ELSE b.renamed[c]

Unchanging(b, s) ==
    \A c \in s \intersect b.listed : P!ReplaceChannel(b.index, c, b.list[c]) = b.index

IndexSo(b, v, s) ==
    /\ Unchanging(b, s) => v.index = b.index
    /\ \A c : s = {c} => v.index = IF c \in b.listed THEN P!ReplaceChannel(b.index, c, b.list[c])
                                   ELSE b.index

AccountsSo(b, v, s) ==
    IF b.tracked THEN Thins(b.accounts, v.accounts, s \intersect b.listed, b.list)
    ELSE v.accounts = b.accounts

Republished(b, v, s) ==
    /\ SameLists(b, v) /\ Follows(b.accounts, v.accounts) /\ SameAsks(b.accounts, v.accounts)
    /\ WorkerOK(v) /\ Roles(b, v, s) /\ IndexSo(b, v, s) /\ AccountsSo(b, v, s)

LEMMA SnapshotStep ==
  ASSUME NEW b, WorkerOK(b), NEW s \in SUBSET Channels, NEW u, Republished(b, u, s),
         NEW c \in Channels, c \notin s
  PROVE  Republished(b, Snapshot(u, c), s \union {c})
<1> DEFINE v == Snapshot(u, c)
           t == s \union {c}
<1>1. /\ u \in Workers /\ P!Consistent(u.index) /\ b \in Workers
      /\ u.listed = b.listed /\ u.list = b.list /\ u.level = b.level /\ u.tracked = b.tracked
      /\ Follows(b.accounts, u.accounts) /\ SameAsks(b.accounts, u.accounts)
      /\ IsFiniteSet(b.listed)
  BY DEF Republished, WorkerOK, SameLists
<1>1a. Roles(b, u, s) /\ IndexSo(b, u, s) /\ AccountsSo(b, u, s)
  BY DEF Republished
<1>2. CASE c \notin b.listed
  <2>1. v = u
    BY <1>1, <1>2 DEF Snapshot
  <2>2. t \intersect b.listed = s \intersect b.listed
    BY <1>2
  <2>3. Roles(b, u, t) /\ AccountsSo(b, u, t)
    BY <1>1a, <2>2 DEF Roles, AccountsSo
  <2>4. IndexSo(b, u, t)
    <3>1. Unchanging(b, t) => u.index = b.index
      BY <1>1a, <2>2 DEF IndexSo, Unchanging
    <3>2. ASSUME NEW d, t = {d} PROVE d = c /\ u.index = b.index
      <4>1. d = c /\ s = {}
        BY <3>2
      <4>2. Unchanging(b, s)
        BY <4>1 DEF Unchanging
      <4> QED BY <1>1a, <4>1, <4>2 DEF IndexSo
    <3> QED BY <1>2, <3>1, <3>2 DEF IndexSo
  <2> QED BY <2>1, <2>3, <2>4 DEF Republished
<1>3. CASE c \in b.listed
  <2>1. /\ Ours(u, v, [u.ranked EXCEPT ![c] = Shown(u, c)], [u.renamed EXCEPT ![c] = Kept(u, c)],
                P!ReplaceChannel(u.index, c, u.list[c]),
                IF u.tracked THEN A!Names(u.accounts, c, u.list[c]) ELSE u.accounts)
        /\ Follows(u.accounts, v.accounts) /\ P!Consistent(v.index)
    BY <1>1, <1>3, SnapshotFields
  <2> HIDE DEF v
  <2>2. /\ v \in Workers /\ SameLists(u, v)
        /\ v.ranked = [u.ranked EXCEPT ![c] = Shown(u, c)]
        /\ v.renamed = [u.renamed EXCEPT ![c] = Kept(u, c)]
        /\ v.index = P!ReplaceChannel(u.index, c, u.list[c])
        /\ v.accounts = IF u.tracked THEN A!Names(u.accounts, c, u.list[c]) ELSE u.accounts
    BY <2>1 DEF Ours
  <2>3. SameLists(b, v) /\ WorkerOK(v)
    BY <1>1, <2>1, <2>2 DEF SameLists, WorkerOK
  <2>4. Follows(b.accounts, v.accounts)
    BY <1>1, <2>1, FollowsOn
  <2>5. Accounts(u.accounts) /\ Accounts(b.accounts) /\ b.list[c] \in SUBSET Nicks
    BY <1>1, Records DEF Workers
  <2>6. SameAsks(b.accounts, v.accounts)
    <3>1. SameAsks(u.accounts, A!Names(u.accounts, c, u.list[c]))
      BY <1>1, <2>5, NamesFollows
    <3> QED BY <1>1, <2>2, <3>1 DEF SameAsks
  <2>7. Roles(b, v, t)
    <3>1. u.renamed[c] = b.renamed[c]
      BY <1>1a DEF Roles
    <3>2. Kept(u, c) = Kept(b, c)
      BY <1>1, <3>1 DEF Kept
    <3>3. Shown(u, c) = Shown(b, c)
      BY <1>1, <3>2 DEF Shown
    <3>4. u.ranked \in [Channels -> Names] /\ u.renamed \in [Channels -> Names]
      BY <1>1 DEF Workers
    <3> QED BY <1>1a, <1>3, <2>2, <3>2, <3>3, <3>4 DEF Roles
  <2>8. IndexSo(b, v, t)
    <3>1. ASSUME Unchanging(b, t) PROVE v.index = b.index
      <4>1. Unchanging(b, s) /\ P!ReplaceChannel(b.index, c, b.list[c]) = b.index
        BY <1>3, <3>1 DEF Unchanging
      <4>2. u.index = b.index
        BY <1>1a, <4>1 DEF IndexSo
      <4> QED BY <1>1, <2>2, <4>1, <4>2
    <3>2. ASSUME NEW d, t = {d}
          PROVE  v.index = IF d \in b.listed THEN P!ReplaceChannel(b.index, d, b.list[d])
                           ELSE b.index
      <4>1. d = c /\ s = {}
        BY <3>2
      <4>2. Unchanging(b, s)
        BY <4>1 DEF Unchanging
      <4>3. u.index = b.index
        BY <1>1a, <4>2 DEF IndexSo
      <4> QED BY <1>1, <1>3, <2>2, <4>1, <4>3
    <3> QED BY <3>1, <3>2 DEF IndexSo
  <2>9. AccountsSo(b, v, t)
    <3>1. CASE ~b.tracked
      BY <1>1, <1>1a, <2>2, <3>1 DEF AccountsSo
    <3>2. CASE b.tracked
      <4> DEFINE k == s \intersect b.listed
      <4>1. Thins(b.accounts, u.accounts, k, b.list)
        BY <1>1a, <3>2 DEF AccountsSo
      <4>2. t \intersect b.listed = k \union {c}
        BY <1>3
      <4>3. v.accounts = A!Names(u.accounts, c, b.list[c])
        BY <1>1, <2>2, <3>2
      <4> HIDE DEF k
      <4>4. Thins(b.accounts, v.accounts, k \union {c}, b.list)
        BY <2>5, <4>1, <4>3, NamesThin
      <4> QED BY <3>2, <4>2, <4>4 DEF AccountsSo
    <3> QED BY <3>1, <3>2
  <2> QED BY <2>3, <2>4, <2>6, <2>7, <2>8, <2>9 DEF Republished, v
<1> QED BY <1>2, <1>3

LEMMA RepublishedStart ==
  ASSUME NEW b, WorkerOK(b)
  PROVE  Republished(b, b, {})
<1>1. Accounts(b.accounts)
  BY Records DEF WorkerOK, Workers
<1>2. Follows(b.accounts, b.accounts)
  BY <1>1 DEF Follows
<1>3. Thins(b.accounts, b.accounts, {}, b.list)
  BY DEF Thins, A!IsKnown
<1>4. {} \intersect b.listed = {}
  OBVIOUS
<1>5. AccountsSo(b, b, {})
  BY <1>3, <1>4 DEF AccountsSo
<1>6. IndexSo(b, b, {}) /\ Roles(b, b, {}) /\ SameLists(b, b) /\ SameAsks(b.accounts, b.accounts)
  BY DEF IndexSo, Roles, SameLists, SameAsks
<1> QED BY <1>2, <1>5, <1>6 DEF Republished

(* Publishing the changed rosters in any order gives one and the same      *)
(* result.                                                                 *)
LEMMA PublishedOne ==
  ASSUME NEW w, WorkerOK(w), NEW m, LineOK(m)
  PROVE  Republished(Before(w, m), Published(w, m), Changed(w, m))
<1> DEFINE b == Before(w, m)
           S == Changed(w, m)
           g[s \in SUBSET S] ==
              IF s = {} THEN b
              ELSE LET x == CHOOSE x \in s : TRUE IN Snapshot(g[s \ {x}], x)
           D == {v \in Workers : WorkerOK(v)}
           F == [p \in S \X D |-> Snapshot(p[2], p[1])]
           Body(h) == [s \in SUBSET S |->
                         IF s = {} THEN b
                         ELSE LET x == CHOOSE x \in s : TRUE IN Snapshot(h[s \ {x}], x)]
<1>1. Published(w, m) = g[S]
  BY DEF Published, FoldSet, MapThenFoldSet, Before, AccountedW
<1>2. S \in SUBSET Channels /\ IsFiniteSet(S)
  BY ChangedType
<1>3. WorkerOK(b)
  BY BeforeType
<1>4. b \in D /\ \A v : v \in D <=> WorkerOK(v)
  BY <1>3 DEF WorkerOK
<1>5. \A c \in S, v \in D : Snapshot(v, c) \in D
  <2> TAKE c \in S, v \in D
  <2>1. v \in Workers /\ P!Consistent(v.index) /\ IsFiniteSet(v.listed) /\ c \in Channels
    BY <1>2 DEF WorkerOK
  <2> DEFINE z == Snapshot(v, c)
  <2>2. P!Consistent(z.index)
    BY <2>1, SnapshotFields
  <2>3. z \in Workers /\ z.listed = v.listed
    <3>1. CASE c \in v.listed
      <4>1. \E r, q, x, a : Ours(v, z, r, q, x, a)
        BY <2>1, <3>1, SnapshotFields
      <4> QED BY <4>1 DEF Ours, SameLists
    <3>2. CASE c \notin v.listed
      BY <2>1, <3>2, SnapshotFields
    <3> QED BY <3>1, <3>2
  <2> QED BY <1>4, <2>1, <2>2, <2>3 DEF WorkerOK
<1>6. F \in [S \X D -> D]
  BY <1>5
<1>7. \A c \in S, v \in D : F[<<c, v>>] = Snapshot(v, c)
  OBVIOUS
<1> HIDE DEF D, F, b, S
<1>8. PICK h : Overs(h, S, D, b, F)
  BY <1>2, <1>4, <1>6, OverExists
<1>9. \A s \in SUBSET S : s # {} => AnyIn(s) \in S /\ s \ {AnyIn(s)} \in SUBSET S
  BY DEF AnyIn
<1>10. h = Body(h)
  <2> DEFINE V(s) == IF s = {} THEN b ELSE F[<<AnyIn(s), h[s \ {AnyIn(s)}]>>]
             W(s) == IF s = {} THEN b ELSE Snapshot(h[s \ {AnyIn(s)}], AnyIn(s))
  <2>1. \A s \in SUBSET S : V(s) = W(s)
    BY <1>7, <1>8, <1>9 DEF Overs
  <2>2. h = [s \in SUBSET S |-> V(s)]
    BY <1>8 DEF Overs
  <2>3. [s \in SUBSET S |-> V(s)] = [s \in SUBSET S |-> W(s)]
    <3> HIDE DEF V, W
    <3> QED BY <2>1
  <2> HIDE DEF V
  <2> QED BY <2>2, <2>3 DEF AnyIn
<1>11. g = Body(g)
  <2>1. (\E h_1 : h_1 = Body(h_1)) => g = Body(g)
    OBVIOUS
  <2> QED BY <1>10, <2>1
<1> HIDE DEF g
<1>12. g[{}] = b /\ \A s \in SUBSET S :
                      s # {} => g[s] = Snapshot(g[s \ {AnyIn(s)}], AnyIn(s))
  BY <1>11 DEF AnyIn
<1>13. FoldsOver(g, S, D, b, F)
  BY <1>7, <1>9, <1>12 DEF FoldsOver
<1>14. SetFolded(g[S], S, D, b, F)
  BY <1>2, <1>4, <1>6, <1>13, OverFolds
<1> DEFINE Good == {p \in (SUBSET S) \X D : Republished(b, p[2], p[1])}
<1>15. <<{}, b>> \in Good
  BY <1>3, <1>4, RepublishedStart
<1>16. ASSUME NEW s \in SUBSET S, NEW c \in S, NEW v \in D, c \notin s, <<s, v>> \in Good
       PROVE  <<s \union {c}, F[<<c, v>>]>> \in Good
  <2>1. Republished(b, v, s)
    BY <1>16
  <2>2. s \in SUBSET Channels /\ c \in Channels
    BY <1>2
  <2>3. Republished(b, Snapshot(v, c), s \union {c})
    BY <1>3, <1>16, <2>1, <2>2, SnapshotStep
  <2>4. F[<<c, v>>] = Snapshot(v, c) /\ Snapshot(v, c) \in D
    BY <1>5, <1>7
  <2> QED BY <2>3, <2>4
<1> HIDE DEF Good
<1>17. <<S, g[S]>> \in Good /\ g[S] \in D
  <2>1. IsFiniteSet(S) /\ b \in D
    BY <1>2, <1>4
  <2>2. \A s \in SUBSET S, x \in S, v \in D :
           x \notin s /\ <<s, v>> \in Good => <<s \union {x}, F[<<x, v>>]>> \in Good
    BY <1>16
  <2> DEFINE z == g[S]
  <2>3. SetFolded(z, S, D, b, F)
    BY <1>14
  <2> HIDE DEF z
  <2>4. <<S, z>> \in Good /\ z \in D
    BY <2>1, <2>2, <2>3, <1>15, SetFoldKeeps
  <2> QED BY <2>4 DEF z
<1>18. Republished(b, g[S], S)
  BY <1>17 DEF Good
<1> QED BY <1>1, <1>18 DEF b, S

(* What becomes of the worker when it handles a line: the library's lists  *)
(* first.                                                                  *)
LEMMA PublishedType ==
  ASSUME NEW w, WorkerOK(w), NEW m, LineOK(m)
  PROVE  /\ WorkerOK(Published(w, m)) /\ SameLists(w, Published(w, m))
         /\ Follows(w.accounts, Published(w, m).accounts)
<1> DEFINE b == Before(w, m)
           v == Published(w, m)
<1>1. Republished(b, v, Changed(w, m))
  BY PublishedOne
<1>2. SameLists(w, b) /\ Follows(w.accounts, b.accounts)
  BY BeforeType
<1> HIDE DEF b, v
<1>3. WorkerOK(v) /\ SameLists(b, v) /\ Follows(b.accounts, v.accounts)
  BY <1>1 DEF Republished
<1>4. Follows(w.accounts, v.accounts) /\ SameLists(w, v)
  BY <1>2, <1>3, FollowsOn DEF SameLists
<1> QED BY <1>3, <1>4 DEF v
==============================================================================
