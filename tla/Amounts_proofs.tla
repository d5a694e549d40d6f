--------------------------- MODULE Amounts_proofs ---------------------------
(***************************************************************************)
(* Proofs about Amounts: each login's part is rounded to the nearest unit, *)
(* more shares do not pay less, and for any number of logins and addresses *)
(* what a round pays adds up to the profit but for the rounding.           *)
(***************************************************************************)
EXTENDS Amounts, Rounds_proofs, FiniteSetTheorems, WellFoundedInduction, TLAPS

-----------------------------------------------------------------------------
(* One login's part.                                                       *)

(* Division as the largest multiple not above.  *)
LEMMA Quotient ==
    ASSUME NEW x \in Int, NEW y \in Nat \ {0}
    PROVE  /\ x \div y \in Int
           /\ y * (x \div y) <= x
           /\ x < y * (x \div y) + y
  OBVIOUS

(* A part is within half a unit of the exact fraction, whatever the        *)
(* numbers (FloatString(0) at unlocker.go:424).                            *)
THEOREM RoundedToNearest ==
    ASSUME NEW p \in Nat, NEW q \in Nat \ {0}
    PROVE  Near(p, q, FloatString0(p, q), 1)
<1> DEFINE r == (2 * p + q) \div (2 * q)
<1>1. 2 * p + q \in Int /\ 2 * q \in Nat \ {0}
  OBVIOUS
<1>2. /\ r \in Int
      /\ (2 * q) * r <= 2 * p + q
      /\ 2 * p + q < (2 * q) * r + 2 * q
  BY Quotient, <1>1
<1>3. Near(p, q, r, 1)
  <2> HIDE DEF r
  <2> DEFINE z == q * r
  <2>1. z \in Int /\ (2 * q) * r = 2 * z /\ 2 * q * r = 2 * z
    BY <1>2
  <2> HIDE DEF z
  <2>2. 2 * p - 2 * z \in (-q * 1) .. (q * 1)
    BY <1>2, <2>1
  <2> QED
    BY <2>1, <2>2 DEF Near
<1> QED
  BY <1>3 DEF FloatString0

(* Rounding keeps the order: of two logins, the one with more shares is    *)
(* not paid less (unlocker.go:422-424).                                    *)
THEOREM MoreSharesPayMore ==
    ASSUME NEW n \in [Miners -> Nat], NEW profit \in Nat,
           TotalShares(n) \in Nat \ {0},
           NEW m \in Miners, NEW k \in Miners, n[m] <= n[k]
    PROVE  WorkerReward(n, profit, m) <= WorkerReward(n, profit, k)
<1> DEFINE q == FeeUnit * TotalShares(n)
           x == 2 * (profit * n[m]) + q
           y == 2 * (profit * n[k]) + q
<1>1. q \in Nat \ {0} /\ n[m] \in Nat /\ n[k] \in Nat
  BY AmountsAssumption
<1>2. profit * n[m] \in Nat /\ profit * n[k] \in Nat
  BY <1>1
<1>3. profit * n[m] <= profit * n[k]
  BY <1>1
<1>4. x \in Nat /\ y \in Nat /\ x <= y
  BY <1>1, <1>2, <1>3
<1>5. x \div (2 * q) <= y \div (2 * q)
  <2> DEFINE d == 2 * q
  <2>1. d \in Nat \ {0}
    BY <1>1
  <2> HIDE DEF d, x, y, q
  <2>2. /\ x \div d \in Int /\ d * (x \div d) <= x
        /\ y \div d \in Int /\ y < d * (y \div d) + d
    BY Quotient, <1>4, <2>1
  <2>3. d * (x \div d) < d * (y \div d) + d
    BY <1>4, <2>1, <2>2
  <2>4. d * (x \div d) < d * ((y \div d) + 1)
    BY <2>1, <2>2, <2>3
  <2>5. x \div d < (y \div d) + 1
    BY <2>1, <2>2, <2>4
  <2> QED
    BY <2>2, <2>5 DEF d
<1> QED
  BY <1>5 DEF WorkerReward, FloatString0

-----------------------------------------------------------------------------
(* Adding up.                                                              *)

(* A set of sets to which every subset of T belongs if all smaller ones do *)
(* leaves out none, or else not the smallest of those it leaves out.       *)
LEMMA AllSubsets ==
    ASSUME NEW T, IsFiniteSet(T), NEW G \in SUBSET (SUBSET T),
           \A s \in SUBSET T : (\A u \in SUBSET s : u # s => u \in G) => s \in G
    PROVE  G = SUBSET T
<1> SUFFICES ASSUME G # SUBSET T PROVE FALSE
    OBVIOUS
<1> DEFINE left == (SUBSET T) \ G
           sizes == {Cardinality(s) : s \in left}
           R == {p \in Nat \X Nat : p[1] < p[2]}
<1>1. \A s \in SUBSET T : IsFiniteSet(s) /\ Cardinality(s) \in Nat
    BY FS_Subset, FS_CardinalityType
<1>2. sizes \in SUBSET Nat /\ sizes # {}
    <2>1. PICK s \in left : TRUE
        OBVIOUS
    <2>2. Cardinality(s) \in sizes
        OBVIOUS
    <2>3. \A j \in sizes : j \in Nat
        BY <1>1
    <2> HIDE DEF sizes
    <2> QED
        BY <2>2, <2>3
<1>3. PICK k \in sizes : \A j \in sizes : ~(<<j, k>> \in R)
    <2>1. IsWellFoundedOn(R, Nat)
        BY NatLessThanWellFounded DEF OpToRel
    <2> HIDE DEF R, sizes
    <2>2. \E k \in sizes : \A j \in sizes : ~(<<j, k>> \in R)
        BY ONLY <1>2, <2>1, WFMin
    <2> QED
        BY ONLY <2>2
<1>4. PICK s \in left : k = Cardinality(s)
    BY <1>3
<1>5. ASSUME NEW u \in SUBSET s, u # s PROVE u \in G
    <2>1. Cardinality(u) <= k /\ Cardinality(u) # k
        <3>1. IsFiniteSet(s)
            BY <1>1, <1>4
        <3>2. /\ Cardinality(u) <= Cardinality(s)
              /\ Cardinality(s) = Cardinality(u) => s = u
            BY <3>1, FS_Subset
        <3> HIDE DEF sizes, left
        <3> QED
            BY <1>4, <1>5, <3>2
    <2>2. Cardinality(u) \in Nat /\ k \in Nat
        BY <1>1, <1>4
    <2>3. <<Cardinality(u), k>> \in R
        BY <2>1, <2>2
    <2>4. Cardinality(u) \notin sizes
        BY <1>3, <2>3
    <2> QED
        BY <1>4, <2>4
<1>6. s \in SUBSET T /\ s \notin G
    BY <1>4
<1> HIDE DEF left, sizes
<1> QED
    BY <1>5, <1>6

(* The total of f over T is the last value of a function on the subsets    *)
(* of T, which takes one element after the other.                          *)
Pick(s) == CHOOSE x \in s : TRUE

Adds(g, f, T) ==
    g = [s \in SUBSET T |-> IF s = {} THEN 0
                            ELSE f[Pick(s)] + g[s \ {Pick(s)}]]

LEMMA PickIs ==
    ASSUME NEW s, s # {}
    PROVE  Pick(s) \in s
BY DEF Pick

LEMMA TotalIs ==
    ASSUME NEW f, NEW T
    PROVE  Total(f, T) = (CHOOSE g : Adds(g, f, T))[T]
BY DEF Total, MapThenSumSet, MapThenFoldSet, Adds, Pick

LEMMA AddsAt ==
    ASSUME NEW f, NEW T, NEW g, Adds(g, f, T), NEW s \in SUBSET T
    PROVE  g[s] = IF s = {} THEN 0 ELSE f[Pick(s)] + g[s \ {Pick(s)}]
<1> DEFINE V(x) == IF x = {} THEN 0 ELSE f[Pick(x)] + g[x \ {Pick(x)}]
<1>1. g = [x \in SUBSET T |-> V(x)]
    BY DEF Adds
<1> HIDE DEF V
<1>2. g[s] = V(s)
    BY <1>1
<1> QED
    BY <1>2 DEF V

LEMMA AddsAgree ==
    ASSUME NEW f, NEW S, IsFiniteSet(S), NEW T, NEW g, NEW h,
           Adds(g, f, S), Adds(h, f, T)
    PROVE  \A s \in SUBSET S : s \in SUBSET T => g[s] = h[s]
<1> DEFINE G == {s \in SUBSET S : s \in SUBSET T => g[s] = h[s]}
<1>1. ASSUME NEW s \in SUBSET S, \A u \in SUBSET s : u # s => u \in G
      PROVE  s \in G
    <2> SUFFICES ASSUME s \in SUBSET T PROVE g[s] = h[s]
        OBVIOUS
    <2>1. g[s] = IF s = {} THEN 0 ELSE f[Pick(s)] + g[s \ {Pick(s)}]
        BY AddsAt
    <2>2. h[s] = IF s = {} THEN 0 ELSE f[Pick(s)] + h[s \ {Pick(s)}]
        BY AddsAt
    <2>3. s # {} => g[s \ {Pick(s)}] = h[s \ {Pick(s)}]
        BY <1>1, PickIs
    <2> QED
        BY <2>1, <2>2, <2>3
<1>2. G = SUBSET S
    <2>1. G \in SUBSET (SUBSET S)
        OBVIOUS
    <2> HIDE DEF G
    <2> QED
        BY <1>1, <2>1, AllSubsets
<1> QED
    BY <1>2

LEMMA AddsExists ==
    ASSUME NEW f, NEW T, IsFiniteSet(T)
    PROVE  Adds(CHOOSE g : Adds(g, f, T), f, T)
<1> DEFINE G == {s \in SUBSET T : \E g : Adds(g, f, s)}
           V(s) == Total(f, s)
<1>1. ASSUME NEW s \in SUBSET T, \A u \in SUBSET s : u # s => u \in G
      PROVE  s \in G
    <2> DEFINE W(u) == IF u = {} THEN 0 ELSE f[Pick(u)] + V(u \ {Pick(u)})
               g == [u \in SUBSET s |-> W(u)]
    <2>1. ASSUME NEW u \in SUBSET s, u # s PROVE V(u) = W(u)
        <3> DEFINE h == CHOOSE k : Adds(k, f, u)
                   w == u \ {Pick(u)}
                   j == CHOOSE k : Adds(k, f, w)
        <3>1. Adds(h, f, u)
            BY <1>1, <2>1
        <3>2. V(u) = h[u]
            BY TotalIs
        <3>3. V(u) = IF u = {} THEN 0 ELSE f[Pick(u)] + h[w]
            <4> HIDE DEF h, V
            <4> QED
                BY <3>1, <3>2, AddsAt
        <3>4. ASSUME u # {} PROVE h[w] = V(w)
            <4>1. Pick(u) \in u
                BY <3>4, PickIs
            <4>2. w \in SUBSET s /\ w # s /\ w \in SUBSET u
                BY <2>1, <4>1
            <4>3. Adds(j, f, w)
                <5>1. \E k : Adds(k, f, w)
                    <6> HIDE DEF w
                    <6> QED
                        BY <1>1, <4>2
                <5> QED
                    BY <5>1
            <4>4. V(w) = j[w]
                BY TotalIs
            <4>5. IsFiniteSet(u)
                BY FS_Subset
            <4>6. h[w] = j[w]
                <5> HIDE DEF h, j, w
                <5> QED
                    BY <3>1, <4>2, <4>3, <4>5, AddsAgree
            <4> QED
                BY <4>4, <4>6
        <3> QED
            BY <3>3, <3>4
    <2>2. ASSUME NEW u \in SUBSET s
          PROVE  W(u) = IF u = {} THEN 0 ELSE f[Pick(u)] + g[u \ {Pick(u)}]
        <3>1. ASSUME u # {} PROVE V(u \ {Pick(u)}) = g[u \ {Pick(u)}]
            <4> DEFINE w == u \ {Pick(u)}
            <4>1. Pick(u) \in u
                BY <3>1, PickIs
            <4>2. w \in SUBSET s /\ w # s
                BY <4>1
            <4>3. V(w) = W(w)
                <5> HIDE DEF w, V, W
                <5> QED
                    BY <2>1, <4>2
            <4>4. g[w] = W(w)
                <5> HIDE DEF w, W
                <5> QED
                    BY <4>2
            <4> QED
                BY <4>3, <4>4
        <3> HIDE DEF V, g
        <3> QED
            BY <3>1
    <2>3. Adds(g, f, s)
        <3> HIDE DEF V
        <3> QED
            BY <2>2 DEF Adds
    <2> HIDE DEF g
    <2> QED
        BY <2>3
<1>2. G = SUBSET T
    <2>1. G \in SUBSET (SUBSET T)
        OBVIOUS
    <2> HIDE DEF G
    <2> QED
        BY <1>1, <2>1, AllSubsets
<1>3. \E g : Adds(g, f, T)
    BY <1>2
<1> QED
    BY <1>3

LEMMA TotalEmpty ==
    ASSUME NEW f
    PROVE  Total(f, {}) = 0
<1> DEFINE g == CHOOSE k : Adds(k, f, {})
<1>1. Adds(g, f, {})
    BY FS_EmptySet, AddsExists
<1>2. {} \in SUBSET {}
    OBVIOUS
<1> HIDE DEF g
<1>3. g[{}] = 0
    BY <1>1, <1>2, AddsAt
<1> QED
    BY <1>3, TotalIs DEF g

LEMMA TotalPick ==
    ASSUME NEW f, NEW S, IsFiniteSet(S), S # {}
    PROVE  Total(f, S) = f[Pick(S)] + Total(f, S \ {Pick(S)})
<1> DEFINE w == S \ {Pick(S)}
           g == CHOOSE k : Adds(k, f, S)
           h == CHOOSE k : Adds(k, f, w)
<1>1. IsFiniteSet(w) /\ w \in SUBSET S
    BY FS_Subset
<1>2. Adds(g, f, S)
    BY AddsExists
<1>3. Adds(h, f, w)
    <2> HIDE DEF w
    <2> QED
        BY <1>1, AddsExists
<1>4. Total(f, S) = g[S] /\ Total(f, w) = h[w]
    BY TotalIs
<1>5. g[S] = f[Pick(S)] + g[w]
    <2> HIDE DEF g
    <2>1. S \in SUBSET S
        OBVIOUS
    <2>2. g[S] = IF S = {} THEN 0 ELSE f[Pick(S)] + g[S \ {Pick(S)}]
        BY <1>2, <2>1, AddsAt
    <2> QED
        BY <2>2
<1>6. h[w] = g[w]
    <2> HIDE DEF g, h, w
    <2> QED
        BY <1>1, <1>2, <1>3, AddsAgree
<1> QED
    BY <1>4, <1>5, <1>6

LEMMA TotalInt ==
    ASSUME NEW T, IsFiniteSet(T), NEW f \in [T -> Int]
    PROVE  \A s \in SUBSET T : Total(f, s) \in Int
<1> DEFINE G == {s \in SUBSET T : Total(f, s) \in Int}
<1>1. ASSUME NEW s \in SUBSET T, \A u \in SUBSET s : u # s => u \in G
      PROVE  s \in G
    <2>1. IsFiniteSet(s)
        BY FS_Subset
    <2>2. CASE s = {}
        BY <2>2, TotalEmpty
    <2>3. CASE s # {}
        <3> DEFINE w == s \ {Pick(s)}
        <3>1. Pick(s) \in s /\ f[Pick(s)] \in Int
            BY <2>3, PickIs
        <3>2. Total(f, w) \in Int
            BY <1>1, <3>1
        <3>3. Total(f, s) = f[Pick(s)] + Total(f, w)
            BY <2>1, <2>3, TotalPick
        <3> HIDE DEF w
        <3> QED
            BY <3>1, <3>2, <3>3
    <2> QED
        BY <2>2, <2>3
<1>2. G = SUBSET T
    <2>1. G \in SUBSET (SUBSET T)
        OBVIOUS
    <2> HIDE DEF G
    <2> QED
        BY <1>1, <2>1, AllSubsets
<1> QED
    BY <1>2

(* It does not matter with which element one begins. *)
LEMMA TotalWith ==
    ASSUME NEW T, IsFiniteSet(T), NEW f \in [T -> Int]
    PROVE  \A s \in SUBSET T : \A x \in s :
               Total(f, s) = f[x] + Total(f, s \ {x})
<1> DEFINE G == {s \in SUBSET T :
                   \A x \in s : Total(f, s) = f[x] + Total(f, s \ {x})}
<1>1. ASSUME NEW s \in SUBSET T, \A u \in SUBSET s : u # s => u \in G
      PROVE  s \in G
    <2> SUFFICES ASSUME NEW x \in s
                 PROVE  Total(f, s) = f[x] + Total(f, s \ {x})
        OBVIOUS
    <2> DEFINE c == Pick(s)
               rest == s \ {c, x}
    <2>1. c \in s
        BY PickIs
    <2>2. IsFiniteSet(s)
        BY FS_Subset
    <2>3. Total(f, s) = f[c] + Total(f, s \ {c})
        BY <2>2, TotalPick
    <2> HIDE DEF c
    <2>4. CASE c = x
        BY <2>3, <2>4
    <2>5. CASE c # x
        <3>1. /\ s \ {c} \in SUBSET s /\ s \ {c} # s /\ x \in s \ {c}
              /\ s \ {x} \in SUBSET s /\ s \ {x} # s /\ c \in s \ {x}
            BY <2>1, <2>5
        <3>2. (s \ {c}) \ {x} = rest /\ (s \ {x}) \ {c} = rest
            OBVIOUS
        <3>3. Total(f, s \ {c}) = f[x] + Total(f, rest)
            BY <1>1, <3>1, <3>2
        <3>4. Total(f, s \ {x}) = f[c] + Total(f, rest)
            BY <1>1, <3>1, <3>2
        <3>5. f[c] \in Int /\ f[x] \in Int /\ Total(f, rest) \in Int
            <4>1. rest \in SUBSET T
                OBVIOUS
            <4> QED
                BY <2>1, <4>1, TotalInt
        <3> HIDE DEF rest
        <3> QED
            BY <2>3, <3>3, <3>4, <3>5
    <2> QED
        BY <2>4, <2>5
<1>2. G = SUBSET T
    <2>1. G \in SUBSET (SUBSET T)
        OBVIOUS
    <2> HIDE DEF G
    <2> QED
        BY <1>1, <2>1, AllSubsets
<1> QED
    BY <1>2

LEMMA TotalNat ==
    ASSUME NEW T, IsFiniteSet(T), NEW f \in [T -> Nat]
    PROVE  \A s \in SUBSET T : Total(f, s) \in Nat
<1> DEFINE G == {s \in SUBSET T : Total(f, s) \in Nat}
<1>1. ASSUME NEW s \in SUBSET T, \A u \in SUBSET s : u # s => u \in G
      PROVE  s \in G
    <2>1. IsFiniteSet(s)
        BY FS_Subset
    <2>2. CASE s = {}
        BY <2>2, TotalEmpty
    <2>3. CASE s # {}
        <3> DEFINE w == s \ {Pick(s)}
        <3>1. Pick(s) \in s /\ f[Pick(s)] \in Nat
            BY <2>3, PickIs
        <3>2. Total(f, w) \in Nat
            BY <1>1, <3>1
        <3>3. Total(f, s) = f[Pick(s)] + Total(f, w)
            BY <2>1, <2>3, TotalPick
        <3> HIDE DEF w
        <3> QED
            BY <3>1, <3>2, <3>3
    <2> QED
        BY <2>2, <2>3
<1>2. G = SUBSET T
    <2>1. G \in SUBSET (SUBSET T)
        OBVIOUS
    <2> HIDE DEF G
    <2> QED
        BY <1>1, <2>1, AllSubsets
<1> QED
    BY <1>2

LEMMA TotalUnion ==
    ASSUME NEW T, IsFiniteSet(T), NEW f \in [T -> Int], NEW X \in SUBSET T
    PROVE  \A s \in SUBSET T :
               s \cap X = {} => Total(f, X \cup s) = Total(f, X) + Total(f, s)
<1> DEFINE G == {s \in SUBSET T : s \cap X = {} =>
                   Total(f, X \cup s) = Total(f, X) + Total(f, s)}
<1>1. ASSUME NEW s \in SUBSET T, \A u \in SUBSET s : u # s => u \in G
      PROVE  s \in G
    <2> SUFFICES ASSUME s \cap X = {}
                 PROVE  Total(f, X \cup s) = Total(f, X) + Total(f, s)
        OBVIOUS
    <2>1. Total(f, X) \in Int
        BY TotalInt
    <2>2. CASE s = {}
        <3>1. X \cup s = X
            BY <2>2
        <3> QED
            BY <2>1, <2>2, <3>1, TotalEmpty
    <2>3. CASE s # {}
        <3>1. PICK x \in s : TRUE
            BY <2>3
        <3> DEFINE w == s \ {x}
        <3>2. /\ w \in SUBSET s /\ w # s /\ w \cap X = {}
              /\ (X \cup s) \ {x} = X \cup w
              /\ x \in X \cup s /\ X \cup s \in SUBSET T /\ w \in SUBSET T
            OBVIOUS
        <3>3. Total(f, X \cup w) = Total(f, X) + Total(f, w)
            BY <1>1, <3>2
        <3>4. Total(f, s) = f[x] + Total(f, w)
            BY TotalWith
        <3>5. Total(f, X \cup s) = f[x] + Total(f, X \cup w)
            <4> HIDE DEF w
            <4> QED
                BY <3>2, TotalWith
        <3>6. f[x] \in Int /\ Total(f, w) \in Int
            BY <3>2, TotalInt
        <3> HIDE DEF w
        <3> QED
            BY <2>1, <3>3, <3>4, <3>5, <3>6
    <2> QED
        BY <2>2, <2>3
<1>2. G = SUBSET T
    <2>1. G \in SUBSET (SUBSET T)
        OBVIOUS
    <2> HIDE DEF G
    <2> QED
        BY <1>1, <2>1, AllSubsets
<1> QED
    BY <1>2

(* Those with nothing may be left out. *)
LEMMA TotalZeros ==
    ASSUME NEW T, IsFiniteSet(T), NEW f \in [T -> Int], NEW S \in SUBSET T,
           \A x \in S : f[x] = 0
    PROVE  Total(f, S) = 0
<1> DEFINE G == {s \in SUBSET S : Total(f, s) = 0}
<1>1. ASSUME NEW s \in SUBSET S, \A u \in SUBSET s : u # s => u \in G
      PROVE  s \in G
    <2>1. CASE s = {}
        BY <2>1, TotalEmpty
    <2>2. CASE s # {}
        <3>1. PICK x \in s : TRUE
            BY <2>2
        <3>2. s \ {x} \in SUBSET s /\ s \ {x} # s /\ s \in SUBSET T
            OBVIOUS
        <3>3. Total(f, s \ {x}) = 0
            BY <1>1, <3>2
        <3>4. Total(f, s) = f[x] + Total(f, s \ {x})
            BY <3>2, TotalWith
        <3> QED
            BY <3>3, <3>4
    <2> QED
        BY <2>1, <2>2
<1>2. G = SUBSET S
    <2>1. G \in SUBSET (SUBSET S) /\ IsFiniteSet(S)
        BY FS_Subset
    <2> HIDE DEF G
    <2> QED
        BY <1>1, <2>1, AllSubsets
<1>3. S \in G
    BY <1>2
<1> QED
    BY <1>3

(* The elements of P of which p says a. *)
Sort(P, p, a) == {x \in P : p[x] = a}

(* Sorted by what p says of them, the parts have the total of the whole. *)
LEMMA TotalSorted ==
    ASSUME NEW T, IsFiniteSet(T), NEW f \in [T -> Int], NEW P \in SUBSET T,
           NEW A, IsFiniteSet(A), NEW p \in [T -> A], NEW g \in [A -> Int],
           \A a \in A : g[a] = Total(f, Sort(P, p, a))
    PROVE  Total(g, A) = Total(f, P)
<1> DEFINE part(a) == Sort(P, p, a)
           of(B) == {x \in P : p[x] \in B}
           G == {B \in SUBSET A : Total(g, B) = Total(f, of(B))}
<1>2. ASSUME NEW B \in SUBSET A, \A u \in SUBSET B : u # B => u \in G
      PROVE  B \in G
    <2>1. CASE B = {}
        <3>1. of(B) = {}
            BY <2>1
        <3> QED
            BY <2>1, <3>1, TotalEmpty
    <2>2. CASE B # {}
        <3>1. PICK b \in B : TRUE
            BY <2>2
        <3> DEFINE C == B \ {b}
        <3>2. C \in SUBSET B /\ C # B
            OBVIOUS
        <3>3. Total(g, C) = Total(f, of(C))
            BY <1>2, <3>2
        <3>4. Total(g, B) = g[b] + Total(g, C)
            BY TotalWith
        <3>5. /\ of(B) = of(C) \cup part(b)
              /\ part(b) \cap of(C) = {}
              /\ of(C) \in SUBSET T /\ part(b) \in SUBSET T
            BY DEF Sort
        <3>6. g[b] = Total(f, part(b))
            OBVIOUS
        <3> HIDE DEF C, of, part
        <3>7. Total(f, of(B)) = Total(f, of(C)) + Total(f, part(b))
            BY <3>5, TotalUnion
        <3>8. Total(f, of(C)) \in Int /\ Total(f, part(b)) \in Int
            BY <3>5, TotalInt
        <3>9. Total(g, B) = Total(f, of(B))
            BY <3>3, <3>4, <3>6, <3>7, <3>8
        <3> QED
            BY <3>9
    <2> QED
        BY <2>1, <2>2
<1>3. G = SUBSET A
    <2>1. G \in SUBSET (SUBSET A)
        OBVIOUS
    <2> HIDE DEF G
    <2> QED
        BY <1>2, <2>1, AllSubsets
<1>4. A \in G /\ of(A) = P
    BY <1>3
<1> QED
    BY <1>4

LEMMA NearStep ==
    ASSUME NEW q \in Int, NEW x \in Int, NEW y \in Int, NEW r \in Int,
           NEW s \in Int, NEW j \in Int, NEW k \in Int,
           Near(x, q, r, j), Near(y, q, s, k)
    PROVE  Near(x + y, q, r + s, j + k)
<1> DEFINE u == q * r
           v == q * s
           jj == q * j
           kk == q * k
<1>1. u \in Int /\ v \in Int /\ jj \in Int /\ kk \in Int
    OBVIOUS
<1>2. /\ 2 * q * r = 2 * u /\ 2 * q * s = 2 * v
      /\ 2 * q * (r + s) = 2 * u + 2 * v
      /\ q * (j + k) = jj + kk /\ -q * (j + k) = -jj - kk
      /\ -q * j = -jj /\ -q * k = -kk
    OBVIOUS
<1> HIDE DEF u, v, jj, kk
<1>3. /\ -jj <= 2 * x - 2 * u /\ 2 * x - 2 * u <= jj
      /\ -kk <= 2 * y - 2 * v /\ 2 * y - 2 * v <= kk
    <2>1. 2 * x - 2 * u \in (-jj) .. jj
        BY <1>2 DEF Near, jj
    <2>2. 2 * y - 2 * v \in (-kk) .. kk
        BY <1>2 DEF Near, kk
    <2> QED
        BY <1>1, <2>1, <2>2
<1>4. 2 * (x + y) - (2 * u + 2 * v) \in (-jj - kk) .. (jj + kk)
    BY <1>1, <1>3
<1> QED
    BY <1>2, <1>4 DEF Near

(* Each of s adds half a unit at most to what the total is off. *)
LEMMA NearTotal ==
    ASSUME NEW T, IsFiniteSet(T), NEW f \in [T -> Int], NEW w \in [T -> Int],
           NEW p \in Int, NEW q \in Int,
           \A x \in T : f[x] # 0 => Near(p * f[x], q, w[x], 1)
    PROVE  \A s \in SUBSET T : (\A x \in s : f[x] # 0) =>
               Near(p * Total(f, s), q, Total(w, s), Cardinality(s))
<1> DEFINE Off(s) == Near(p * Total(f, s), q, Total(w, s), Cardinality(s))
           G == {s \in SUBSET T : (\A x \in s : f[x] # 0) => Off(s)}
<1>1. ASSUME NEW s \in SUBSET T, \A u \in SUBSET s : u # s => u \in G
      PROVE  s \in G
    <2> SUFFICES ASSUME \A x \in s : f[x] # 0 PROVE Off(s)
        OBVIOUS
    <2>1. CASE s = {}
        <3>1. Total(f, s) = 0 /\ Total(w, s) = 0 /\ Cardinality(s) = 0
            BY <2>1, TotalEmpty, FS_EmptySet
        <3> QED
            BY <3>1 DEF Near
    <2>2. CASE s # {}
        <3>1. PICK x \in s : TRUE
            BY <2>2
        <3> DEFINE u == s \ {x}
        <3>2. u \in SUBSET s /\ u # s /\ \A y \in u : f[y] # 0
            OBVIOUS
        <3>3. Off(u)
            BY <1>1, <3>2
        <3>4. /\ Total(f, s) = f[x] + Total(f, u)
              /\ Total(w, s) = w[x] + Total(w, u)
            BY TotalWith
        <3>5. /\ f[x] \in Int /\ Total(f, u) \in Int
              /\ w[x] \in Int /\ Total(w, u) \in Int
            BY TotalInt
        <3>6. IsFiniteSet(s) /\ IsFiniteSet(u)
            BY FS_Subset
        <3>7. Cardinality(s) = 1 + Cardinality(u) /\ Cardinality(u) \in Int
            <4>1. Cardinality(u) = Cardinality(s) - 1
                BY <3>6, FS_RemoveElement
            <4>2. Cardinality(s) \in Int
                BY <3>6, FS_CardinalityType
            <4> QED
                BY <4>1, <4>2
        <3>8. Near(p * f[x], q, w[x], 1)
            OBVIOUS
        <3> DEFINE ff == Total(f, u)
                   ww == Total(w, u)
                   k == Cardinality(u)
        <3>9. p * f[x] \in Int /\ p * ff \in Int
            BY <3>5
        <3>10. Near(p * f[x] + p * ff, q, w[x] + ww, 1 + k)
            <4> HIDE DEF ff, ww, k, u
            <4>1. ff \in Int /\ ww \in Int /\ k \in Int
                BY <3>5, <3>7 DEF ff, ww, k
            <4>2. Near(p * ff, q, ww, k)
                BY <3>3 DEF ff, ww, k
            <4> QED
                BY <3>5, <3>8, <3>9, <4>1, <4>2, NearStep
        <3>11. p * (f[x] + ff) = p * f[x] + p * ff
            BY <3>5
        <3> QED
            BY <3>4, <3>7, <3>10, <3>11
    <2> QED
        BY <2>1, <2>2
<1>2. G = SUBSET T
    <2>1. G \in SUBSET (SUBSET T)
        OBVIOUS
    <2> HIDE DEF G
    <2> QED
        BY <1>1, <2>1, AllSubsets
<1>3. \A s \in SUBSET T : s \in G
    BY <1>2
<1> QED
    BY <1>3

(* The total of the shares, all of them or of those that are paid. *)
LEMMA PaidTotal ==
    ASSUME NEW n \in [Miners -> Nat]
    PROVE  TotalShares(n) \in Nat /\ Total(n, Paid(n)) = TotalShares(n)
<1> DEFINE rest == Miners \ Paid(n)
<1>0. IsFiniteSet(Miners) /\ n \in [Miners -> Int]
    BY AmountsAssumption
<1>1. /\ Paid(n) \in SUBSET Miners /\ rest \in SUBSET Miners
      /\ rest \cap Paid(n) = {} /\ Paid(n) \cup rest = Miners
      /\ \A m \in rest : n[m] = 0
    BY DEF Paid
<1>2. TotalShares(n) \in Nat
    BY <1>0, TotalNat DEF TotalShares
<1> HIDE DEF rest
<1>3. Total(n, Miners) = Total(n, Paid(n)) + Total(n, rest)
    BY <1>0, <1>1, TotalUnion
<1>4. Total(n, rest) = 0
    BY <1>0, <1>1, TotalZeros
<1>5. Total(n, Paid(n)) \in Int
    BY <1>0, <1>1, TotalInt
<1> QED
    BY <1>2, <1>3, <1>4, <1>5 DEF TotalShares

-----------------------------------------------------------------------------
(* What a round pays.                                                      *)

LEMMA WorkerRewardInt ==
    ASSUME NEW n \in [Miners -> Nat], TotalShares(n) \in Nat \ {0},
           NEW profit \in Nat, NEW m \in Miners
    PROVE  WorkerReward(n, profit, m) \in Int
<1> DEFINE p == profit * n[m]
           q == FeeUnit * TotalShares(n)
<1>1. p \in Nat /\ q \in Nat \ {0}
    BY AmountsAssumption
<1> HIDE DEF p, q
<1>2. 2 * p + q \in Int /\ 2 * q \in Nat \ {0}
    BY <1>1
<1>3. FloatString0(p, q) \in Int
    BY <1>2, Quotient DEF FloatString0
<1> QED
    BY <1>3 DEF WorkerReward, p, q

LEMMA InProportion ==
    ASSUME NEW n \in [Miners -> Nat], TotalShares(n) > 0, NEW profit \in Nat,
           NEW payTo \in [Miners -> Addresses]
    PROVE  LET rewards == calculateRewardsForShares(n, profit, payTo)
               of(a)   == {m \in Paid(n) : payTo[m] = a}
           IN  /\ rewards \in [Addresses -> Int]
               /\ \A a \in Addresses :
                     Near(profit * Total(n, of(a)), FeeUnit * TotalShares(n),
                          rewards[a], Cardinality(of(a)))
               /\ Near(profit * TotalShares(n), FeeUnit * TotalShares(n),
                       Total(rewards, Addresses), Cardinality(Paid(n)))
<1> DEFINE q == FeeUnit * TotalShares(n)
           w == [m \in Miners |-> WorkerReward(n, profit, m)]
           of(a) == {m \in Paid(n) : payTo[m] = a}
           rewards == calculateRewardsForShares(n, profit, payTo)
<1>0. /\ IsFiniteSet(Miners) /\ IsFiniteSet(Addresses)
      /\ FeeUnit \in Nat \ {0} /\ n \in [Miners -> Int]
    BY AmountsAssumption
<1>1. TotalShares(n) \in Nat /\ Total(n, Paid(n)) = TotalShares(n)
    BY PaidTotal
<1>2. q \in Nat \ {0}
    BY <1>0, <1>1
<1>3. ASSUME NEW m \in Miners
      PROVE  w[m] \in Int /\ Near(profit * n[m], q, w[m], 1)
    <2> DEFINE p == profit * n[m]
    <2>1. p \in Nat
        OBVIOUS
    <2>2. w[m] = FloatString0(p, q)
        BY DEF WorkerReward
    <2> HIDE DEF p, q, w
    <2>3. Near(p, q, FloatString0(p, q), 1)
        BY <1>2, <2>1, RoundedToNearest
    <2>4. w[m] \in Int
        BY <1>1, WorkerRewardInt DEF w
    <2> QED
        BY <2>2, <2>3, <2>4 DEF p
<1>4. w \in [Miners -> Int]
    BY <1>3
<1>5. rewards = [a \in Addresses |-> Total(w, of(a))]
    BY DEF calculateRewardsForShares
<1>6. rewards \in [Addresses -> Int]
    <2>1. \A a \in Addresses : of(a) \in SUBSET Miners
        BY DEF Paid
    <2> HIDE DEF w, of, rewards
    <2>2. \A a \in Addresses : Total(w, of(a)) \in Int
        BY <1>0, <1>4, <2>1, TotalInt
    <2> QED
        BY <1>5, <2>2
<1>7. ASSUME NEW s \in SUBSET Paid(n)
      PROVE  Near(profit * Total(n, s), q, Total(w, s), Cardinality(s))
    <2>1. s \in SUBSET Miners /\ \A m \in s : n[m] # 0
        BY DEF Paid
    <2>2. \A m \in Miners : n[m] # 0 => Near(profit * n[m], q, w[m], 1)
        BY <1>3
    <2>3. profit \in Int /\ q \in Int
        BY <1>2
    <2> HIDE DEF q, w
    <2> QED
        BY <1>0, <1>4, <2>1, <2>2, <2>3, NearTotal
<1>8. \A a \in Addresses :
          Near(profit * Total(n, of(a)), q, rewards[a], Cardinality(of(a)))
    <2> TAKE a \in Addresses
    <2>1. of(a) \in SUBSET Paid(n)
        OBVIOUS
    <2>2. rewards[a] = Total(w, of(a))
        <3> HIDE DEF rewards, w, of
        <3> QED
            BY <1>5
    <2> HIDE DEF q, w, of, rewards
    <2> QED
        BY <1>7, <2>1, <2>2
<1>9. Near(profit * TotalShares(n), q, Total(rewards, Addresses),
           Cardinality(Paid(n)))
    <2>1. Paid(n) \in SUBSET Miners
        BY DEF Paid
    <2>2. Total(rewards, Addresses) = Total(w, Paid(n))
        <3>1. \A a \in Addresses :
                  rewards[a] = Total(w, Sort(Paid(n), payTo, a))
            <4>1. \A a \in Addresses : of(a) = Sort(Paid(n), payTo, a)
                BY DEF Sort
            <4> HIDE DEF w, rewards, of
            <4> QED
                BY <1>5, <4>1
        <3> HIDE DEF w, rewards
        <3> QED
            BY <1>0, <1>4, <1>6, <2>1, <3>1, TotalSorted
    <2>3. Near(profit * Total(n, Paid(n)), q, Total(w, Paid(n)),
               Cardinality(Paid(n)))
        <3> HIDE DEF w, q
        <3> QED
            BY <1>7
    <2> HIDE DEF w, q, of, rewards
    <2> QED
        BY <1>1, <2>2, <2>3
<1> QED
    BY <1>6, <1>8, <1>9

(* A common factor does not matter. *)
LEMMA NearCancel ==
    ASSUME NEW p \in Int, NEW q \in Int, NEW r \in Int, NEW k \in Int,
           NEW c \in Nat \ {0}, Near(p * c, q * c, r, k)
    PROVE  Near(p, q, r, k)
<1> DEFINE x == 2 * p - 2 * q * r
           y == q * k
<1>1. x \in Int /\ y \in Int
    OBVIOUS
<1>2. 2 * (p * c) - 2 * (q * c) * r \in (-(q * c) * k) .. ((q * c) * k)
    BY DEF Near
<1>3. 2 * (p * c) - 2 * (q * c) * r = c * x /\ (q * c) * k = c * y
    OBVIOUS
<1>4. -(q * c) * k = c * (-y)
    OBVIOUS
<1> HIDE DEF x, y
<1>5. c * (-y) <= c * x /\ c * x <= c * y
    BY <1>1, <1>2, <1>3, <1>4
<1>6. -y <= x /\ x <= y
    BY <1>1, <1>5
<1>7. x \in (-y) .. y
    BY <1>1, <1>6
<1> QED
    BY <1>7 DEF Near, x, y

(* The rounds that are closed hold numbers. *)
LEMMA RoundSharesType ==
    ASSUME TypeOK, NEW h \in Heights
    PROVE  RoundShares(h) \in [Miners -> Nat]
<1>1. \A m \in Miners : rounds[h][m] \in [Times -> Nat]
    BY DEF TypeOK, Tallies
<1>2. IsFiniteSet(Times)
    BY FS_Interval, BoundsAssumption DEF Times
<1>3. \A m \in Miners : Total(rounds[h][m], Times) \in Nat
    BY <1>1, <1>2, TotalNat
<1> QED
    BY <1>3 DEF RoundShares

LEMMA TypeOKPays == TypeOK => PaidInProportion
<1> SUFFICES ASSUME TypeOK,
                    NEW h \in written, NEW reward \in BlockRewards,
                    NEW payTo \in [Miners -> Addresses],
                    TotalShares(RoundShares(h)) > 0
             PROVE  LET tally   == RoundShares(h)
                        total   == TotalShares(tally)
                        profit  == chargeFee(reward)
                        rewards == calculateRewardsForShares(tally, profit,
                                                             payTo)
                        of(a)   == {m \in Paid(tally) : payTo[m] = a}
                    IN  /\ \A a \in Addresses :
                              Near(profit * Total(tally, of(a)),
                                   FeeUnit * total, rewards[a],
                                   Cardinality(of(a)))
                        /\ Near(profit, FeeUnit, Total(rewards, Addresses),
                                Cardinality(Paid(tally)))
    BY DEF PaidInProportion
<1> DEFINE tally   == RoundShares(h)
           total   == TotalShares(tally)
           profit  == chargeFee(reward)
           rewards == calculateRewardsForShares(tally, profit, payTo)
           of(a)   == {m \in Paid(tally) : payTo[m] = a}
           paid    == Total(rewards, Addresses)
<1>1. h \in Heights
    BY DEF TypeOK
<1>2. tally \in [Miners -> Nat]
    BY <1>1, RoundSharesType
<1>3. profit \in Nat
    <2>1. reward \in Nat /\ FeeUnit - Fee \in Nat
        BY AmountsAssumption
    <2> QED
        BY <2>1 DEF chargeFee
<1> HIDE DEF tally, profit
<1>4. /\ rewards \in [Addresses -> Int]
      /\ \A a \in Addresses :
            Near(profit * Total(tally, of(a)), FeeUnit * total, rewards[a],
                 Cardinality(of(a)))
      /\ Near(profit * total, FeeUnit * total, paid, Cardinality(Paid(tally)))
    <2>1. TotalShares(tally) > 0
        BY DEF tally
    <2> QED
        BY <1>2, <1>3, <2>1, InProportion
<1>5. /\ total \in Nat \ {0} /\ paid \in Int /\ FeeUnit \in Int
      /\ Cardinality(Paid(tally)) \in Int
    <2>1. IsFiniteSet(Miners) /\ IsFiniteSet(Addresses) /\ FeeUnit \in Int
        BY AmountsAssumption
    <2>2. total \in Nat \ {0}
        BY <1>2, PaidTotal DEF tally
    <2>3. Cardinality(Paid(tally)) \in Int
        BY <2>1, FS_Subset, FS_CardinalityType DEF Paid
    <2>5. paid \in Int
        <3> HIDE DEF rewards
        <3> QED
            BY <1>4, <2>1, TotalInt
    <2> QED
        BY <2>1, <2>2, <2>3, <2>5
<1>6. Near(profit, FeeUnit, paid, Cardinality(Paid(tally)))
    <2> DEFINE k == Cardinality(Paid(tally))
    <2>1. Near(profit * total, FeeUnit * total, paid, k)
        BY <1>4
    <2>2. profit \in Int /\ k \in Int
        BY <1>3, <1>5
    <2> HIDE DEF total, paid, k
    <2>3. Near(profit, FeeUnit, paid, k)
        BY <1>5, <2>1, <2>2, NearCancel, Zenon
    <2> QED
        BY <2>3 DEF k
<1> QED
    BY <1>4, <1>6 DEF tally, profit

(* Whatever round is closed, its block is paid in proportion but for half  *)
(* a unit a login (unlocker.go:414-434), for any number of miners, blocks, *)
(* seconds and addresses, any rewards and any fee.                         *)
THEOREM RoundsPaidInProportion == Spec => []PaidInProportion
BY TypeCorrect, TypeOKPays, PTL
=============================================================================
