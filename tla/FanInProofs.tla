---------------------------- MODULE FanInProofs ----------------------------
(***************************************************************************)
(* What the fan-in does to the findings of a panel, for any findings: the  *)
(* facts about Aggregator that the proofs about the pipeline and about the *)
(* evaluation rest on.                                                     *)
(*                                                                         *)
(* Its loops are folds, and a fold is followed along the values it goes    *)
(* through: for each one a lemma gives the chain of those values, and what *)
(* the fold returns is a fact that each link keeps.                        *)
(***************************************************************************)
EXTENDS Aggregator, TLAPS, WellFoundedInduction, FiniteSetTheorems

-----------------------------------------------------------------------------
(* Folds *)

\* Every set of numbers that has a member has a least one.
LEMMA LeastNat == \A S \in SUBSET Nat : S # {} => \E x \in S : \A y \in S : x <= y
<1> SUFFICES ASSUME NEW S \in SUBSET Nat, S # {} PROVE \E x \in S : \A y \in S : x <= y
  OBVIOUS
<1>1. PICK x \in S : \A y \in S : ~(<<y, x>> \in OpToRel(<, Nat))
  BY NatLessThanWellFounded, WFMin
<1>2. ASSUME NEW y \in S PROVE x <= y
  <2>1. ~(<<y, x>> \in {ss \in Nat \X Nat : ss[1] < ss[2]})
    BY <1>1 DEF OpToRel
  <2> QED BY <2>1
<1> QED BY <1>2

\* What holds of 0 and passes from each number below n to the next holds up to n.
LEMMA UpTo ==
    ASSUME NEW n \in Nat, NEW S, 0 \in S,
           \A k \in 0..(n - 1) : k \in S => k + 1 \in S
    PROVE  \A k \in 0..n : k \in S
<1> SUFFICES ASSUME NEW k \in 0..n, k \notin S PROVE FALSE
  OBVIOUS
<1> DEFINE D == {j \in Nat : j <= n /\ j \notin S}
<1>1. D \in SUBSET Nat /\ D # {}
  <2>1. k \in D
    OBVIOUS
  <2> QED BY <2>1
<1>2. PICK j \in D : \A i \in D : j <= i
  BY <1>1, LeastNat
<1>3. j # 0 /\ j \in Nat /\ j <= n /\ j \notin S
  BY <1>2
<1>4. j - 1 \in 0..(n - 1) /\ j - 1 \notin D
  BY <1>2, <1>3
<1>5. j - 1 \in S
  BY <1>3, <1>4
<1> QED BY <1>3, <1>4, <1>5

\* The greatest member of a set of positions.
LEMMA MaxFacts ==
    ASSUME NEW n \in Nat, NEW s \in SUBSET (1..n), s # {}
    PROVE  Max(s) \in s /\ \A y \in s : y <= Max(s)
<1> DEFINE D == {d \in Nat : d <= n /\ n - d \in s}
<1>1. D \in SUBSET Nat /\ D # {}
  <2>1. PICK x \in s : TRUE
    OBVIOUS
  <2>2. n - x \in Nat /\ n - x <= n /\ n - (n - x) = x
    BY <2>1
  <2>3. n - x \in D
    BY <2>1, <2>2
  <2> QED BY <2>3
<1>2. PICK d \in D : \A e \in D : d <= e
  BY <1>1, LeastNat
<1>3. ASSUME NEW y \in s PROVE y <= n - d
  <2>1. n - y \in Nat /\ n - y <= n /\ n - (n - y) = y
    OBVIOUS
  <2>2. n - y \in D
    BY <2>1
  <2>3. d \in Nat /\ d <= n - y
    BY <1>2, <2>2
  <2> QED BY <2>1, <2>3
<1>4. \E x \in s : \A y \in s : x >= y
  <2>1. n - d \in s /\ d \in Nat
    BY <1>2
  <2> QED BY <1>3, <2>1
<1>5. Max(s) \in s /\ \A y \in s : Max(s) >= y
  BY <1>4 DEF Max
<1>6. ASSUME NEW y \in s PROVE y <= Max(s)
  BY <1>5
<1> QED BY <1>5, <1>6

\* A fold over positions 1..n, the recursion of the community modules' folds:
\* F[i] is what position i does to the value so far.
Recursion(g, n, base, F) ==
    \A s \in SUBSET (1..n) :
        g[s] = IF s = {} THEN base ELSE F[Max(s)][g[s \ {Max(s)}]]

\* The same of a function that is not known to stay in A: as long as it does.
Unfolds(h, n, A, base, F) ==
    /\ h[{}] = base
    /\ \A s \in SUBSET (1..n) : s # {} /\ h[s \ {Max(s)}] \in A
                                => h[s] = F[Max(s)][h[s \ {Max(s)}]]

\* The values of the fold along the positions, each made from the one before,
\* up to its result.
Chain(c, n, A, base, F, result) ==
    /\ c \in [0..n -> A]
    /\ c[0] = base /\ c[n] = result
    /\ \A k \in 1..n : c[k] = F[k][c[k - 1]]

\* The recursion a fold is defined by has a solution.
LEMMA FoldExists ==
    ASSUME NEW n \in Nat, NEW A, NEW base \in A, NEW F \in [1..n -> [A -> A]]
    PROVE  \E g \in [SUBSET (1..n) -> A] : Recursion(g, n, base, F)
<1> DEFINE S == {m \in 0..n : \E g \in [SUBSET (1..m) -> A] : Recursion(g, m, base, F)}
<1>1. 0 \in S
  <2> DEFINE g == [s \in SUBSET (1..0) |-> base]
  <2>1. \A s \in SUBSET (1..0) : s = {}
    OBVIOUS
  <2>2. g \in [SUBSET (1..0) -> A] /\ Recursion(g, 0, base, F)
    BY <2>1 DEF Recursion
  <2>3. 0 \in 0..n
    OBVIOUS
  <2> HIDE DEF g
  <2> QED BY <2>2, <2>3
<1>2. ASSUME NEW m \in 0..(n - 1), m \in S PROVE m + 1 \in S
  <2>1. PICK g \in [SUBSET (1..m) -> A] : Recursion(g, m, base, F)
    BY <1>2
  <2> DEFINE h == [s \in SUBSET (1..(m + 1)) |->
                     IF m + 1 \in s THEN F[m + 1][g[s \ {m + 1}]] ELSE g[s]]
  <2>2. ASSUME NEW s \in SUBSET (1..(m + 1)) PROVE s \ {m + 1} \in SUBSET (1..m)
    OBVIOUS
  <2>3. ASSUME NEW s \in SUBSET (1..(m + 1)), m + 1 \notin s PROVE s \in SUBSET (1..m)
    BY <2>3
  <2>4. m + 1 \in 1..n
    OBVIOUS
  <2>5. h \in [SUBSET (1..(m + 1)) -> A]
    <3>1. ASSUME NEW s \in SUBSET (1..(m + 1)) PROVE h[s] \in A
      <4>1. CASE m + 1 \in s
        BY <2>2, <2>4, <4>1
      <4>2. CASE m + 1 \notin s
        BY <2>3, <4>2
      <4> QED BY <4>1, <4>2
    <3> QED BY <3>1
  <2>6. ASSUME NEW s \in SUBSET (1..(m + 1))
        PROVE  h[s] = IF s = {} THEN base ELSE F[Max(s)][h[s \ {Max(s)}]]
    <3>1. CASE m + 1 \in s
      <4>1. m + 1 \in Nat /\ s # {}
        BY <3>1
      <4>2. Max(s) \in s /\ \A y \in s : y <= Max(s)
        BY <4>1, MaxFacts
      <4>3. Max(s) \in 1..(m + 1) /\ m + 1 <= Max(s)
        BY <3>1, <4>2
      <4>4. Max(s) = m + 1
        BY <4>3
      <4>5. s \ {m + 1} \in SUBSET (1..(m + 1)) /\ m + 1 \notin s \ {m + 1}
        OBVIOUS
      <4>6. h[s \ {m + 1}] = g[s \ {m + 1}]
        BY <4>5
      <4>7. h[s] = F[m + 1][g[s \ {m + 1}]]
        BY <3>1
      <4> QED BY <3>1, <4>4, <4>6, <4>7
    <3>2. CASE m + 1 \notin s /\ s # {}
      <4>1. s \in SUBSET (1..m)
        BY <2>3, <3>2
      <4>2. h[s] = g[s] /\ h[s \ {Max(s)}] = g[s \ {Max(s)}]
        BY <3>2, <4>1
      <4>3. g[s] = F[Max(s)][g[s \ {Max(s)}]]
        BY <2>1, <3>2, <4>1 DEF Recursion
      <4> QED BY <3>2, <4>2, <4>3
    <3>3. CASE s = {}
      <4>1. {} \in SUBSET (1..m) /\ h[s] = g[{}]
        BY <3>3
      <4> QED BY <2>1, <3>3, <4>1 DEF Recursion
    <3> QED BY <3>1, <3>2, <3>3
  <2> HIDE DEF h
  <2>7. Recursion(h, m + 1, base, F)
    BY <2>6 DEF Recursion
  <2>8. m + 1 \in 0..n
    BY <2>4
  <2> QED BY <2>5, <2>7, <2>8
<1> HIDE DEF S
<1>3. \A m \in 0..(n - 1) : m \in S => m + 1 \in S
  BY <1>2
<1>4. \A m \in 0..n : m \in S
  BY <1>1, <1>3, UpTo
<1>5. n \in S
  BY <1>4
<1> QED BY <1>5 DEF S

\* The positions up to k are those up to k - 1, and k, their greatest.
LEMMA PrefixFacts ==
    ASSUME NEW n \in Nat, NEW k \in 1..n
    PROVE  /\ 1..k \in SUBSET (1..n) /\ 1..k # {}
           /\ Max(1..k) = k /\ (1..k) \ {k} = 1..(k - 1)
<1>1. 1..k \in SUBSET (1..n) /\ k \in 1..k
  OBVIOUS
<1>2. Max(1..k) \in 1..k /\ \A y \in 1..k : y <= Max(1..k)
  BY <1>1, MaxFacts
<1>3. Max(1..k) = k
  BY <1>1, <1>2
<1> QED BY <1>1, <1>3

\* What a solution goes through, position by position.
LEMMA FoldChain ==
    ASSUME NEW n \in Nat, NEW A, NEW base \in A, NEW F \in [1..n -> [A -> A]],
           NEW h, Unfolds(h, n, A, base, F)
    PROVE  \E c : Chain(c, n, A, base, F, h[1..n])
<1> DEFINE S == {k \in 0..n : h[1..k] \in A}
           c == [k \in 0..n |-> h[1..k]]
<1>1. 1..0 = {} /\ 0 \in S
  <2>1. 1..0 = {} /\ 0 \in 0..n
    OBVIOUS
  <2> QED BY <2>1 DEF Unfolds
<1>2. ASSUME NEW k \in 1..n, h[1..(k - 1)] \in A
      PROVE  h[1..k] = F[k][h[1..(k - 1)]]
  <2>1. /\ 1..k \in SUBSET (1..n) /\ 1..k # {}
        /\ Max(1..k) = k /\ (1..k) \ {k} = 1..(k - 1)
    BY PrefixFacts
  <2> QED BY <1>2, <2>1 DEF Unfolds
<1>3. ASSUME NEW k \in 0..(n - 1), k \in S PROVE k + 1 \in S
  <2>1. k + 1 \in 1..n /\ (k + 1) - 1 = k /\ k + 1 \in 0..n
    OBVIOUS
  <2>2. h[1..(k + 1)] = F[k + 1][h[1..k]]
    BY <1>2, <1>3, <2>1
  <2>3. h[1..(k + 1)] \in A
    BY <1>3, <2>1, <2>2
  <2> QED BY <2>1, <2>3
<1>4. \A k \in 0..n : k \in S
  <2> HIDE DEF S
  <2> QED BY <1>1, <1>3, UpTo
<1>5. c \in [0..n -> A]
  BY <1>4
<1>6. ASSUME NEW k \in 1..n PROVE c[k] = F[k][c[k - 1]]
  <2>1. k - 1 \in 0..n /\ k \in 0..n
    OBVIOUS
  <2> QED BY <1>2, <1>4, <2>1
<1>7. c[0] = base /\ c[n] = h[1..n]
  BY <1>1 DEF Unfolds
<1> HIDE DEF c
<1> QED BY <1>5, <1>6, <1>7 DEF Chain

\* Once in B and never out of it again, up to the end.
LEMMA StaysFrom ==
    ASSUME NEW n \in Nat, NEW c, NEW B, NEW i \in 0..n, c[i] \in B,
           \A k \in 1..n : c[k - 1] \in B => c[k] \in B
    PROVE  c[n] \in B
<1> DEFINE S == {k \in Nat : k >= i => c[k] \in B}
<1>1. 0 \in S
  OBVIOUS
<1>2. ASSUME NEW k \in 0..(n - 1), k \in S PROVE k + 1 \in S
  <2>1. k + 1 \in 1..n /\ (k + 1) - 1 = k
    OBVIOUS
  <2>2. CASE k >= i
    BY <1>2, <2>1, <2>2
  <2>3. CASE k + 1 = i
    BY <2>3
  <2>4. CASE k + 1 < i
    BY <2>4
  <2> QED BY <2>2, <2>3, <2>4
<1>3. \A k \in 0..n : k \in S
  <2> HIDE DEF S
  <2> QED BY <1>1, <1>2, UpTo
<1>4. n \in S
  BY <1>3
<1> QED BY <1>4
-----------------------------------------------------------------------------
(* Clusters *)

\* Placing a finding opens a cluster for it or adds it to one whose issue it shares.
LEMMA PlaceShape ==
    ASSUME NEW X, NEW cs \in Seq(Seq(X)), NEW f \in X
    PROVE  /\ Place(cs, f) \in Seq(Seq(X)) /\ Place(cs, f) # <<>>
           /\ Len(Place(cs, f)) \in {Len(cs), Len(cs) + 1}
           /\ \/ Place(cs, f) = Append(cs, <<f>>)
              \/ \E m \in DOMAIN cs :
                    /\ Place(cs, f) = [cs EXCEPT ![m] = Append(cs[m], f)]
                    /\ \E j \in DOMAIN cs[m] : same_issue(f, cs[m][j])
<1> DEFINE hits == {i \in DOMAIN cs :
                      \E j \in DOMAIN cs[i] : same_issue(f, cs[i][j])}
<1>1. CASE hits = {}
  <2>1. Place(cs, f) = Append(cs, <<f>>)
    BY <1>1 DEF Place
  <2>2. <<f>> \in Seq(X)
    OBVIOUS
  <2>3. /\ Append(cs, <<f>>) \in Seq(Seq(X)) /\ Append(cs, <<f>>) # <<>>
        /\ Len(Append(cs, <<f>>)) = Len(cs) + 1
    <3>1. ASSUME NEW T, NEW s \in Seq(T), NEW y \in T
          PROVE  Append(s, y) \in Seq(T) /\ Append(s, y) # <<>> /\ Len(Append(s, y)) = Len(s) + 1
      OBVIOUS
    <3> QED BY <2>2, <3>1
  <2> QED BY <2>1, <2>3
<1>2. CASE hits # {}
  <2>1. hits \in SUBSET Nat
    OBVIOUS
  <2>2. PICK m \in hits : \A y \in hits : m <= y
    BY <1>2, <2>1, LeastNat
  <2>3. Min(hits) \in hits
    BY <2>2 DEF Min
  <2> DEFINE m1 == Min(hits)
  <2>4. Place(cs, f) = [cs EXCEPT ![m1] = Append(cs[m1], f)]
    BY <1>2 DEF Place
  <2>5. m1 \in DOMAIN cs /\ \E j \in DOMAIN cs[m1] : same_issue(f, cs[m1][j])
    BY <2>3
  <2> HIDE DEF m1, hits
  <2>6. Append(cs[m1], f) \in Seq(X)
    BY <2>5
  <2>7. /\ [cs EXCEPT ![m1] = Append(cs[m1], f)] \in Seq(Seq(X))
        /\ Len([cs EXCEPT ![m1] = Append(cs[m1], f)]) = Len(cs)
    BY <2>5, <2>6
  <2>8. m1 \in DOMAIN Place(cs, f)
    BY <2>4, <2>5
  <2>9. Place(cs, f) # <<>>
    BY <2>8
  <2>10. Place(cs, f) \in Seq(Seq(X)) /\ Len(Place(cs, f)) = Len(cs)
    BY <2>4, <2>7
  <2> QED BY <2>4, <2>5, <2>9, <2>10
<1> QED BY <1>1, <1>2

\* Placing a finding keeps a list of clusters, and never leaves it empty.
LEMMA PlaceFacts ==
    ASSUME NEW X, NEW cs \in Seq(Seq(X)), NEW f \in X
    PROVE  /\ Place(cs, f) \in Seq(Seq(X)) /\ Place(cs, f) # <<>>
           /\ Len(Place(cs, f)) \in {Len(cs), Len(cs) + 1}
<1>1. /\ Place(cs, f) \in Seq(Seq(X)) /\ Place(cs, f) # <<>>
      /\ Len(Place(cs, f)) \in {Len(cs), Len(cs) + 1}
      /\ \/ Place(cs, f) = Append(cs, <<f>>)
         \/ \E m \in DOMAIN cs :
               /\ Place(cs, f) = [cs EXCEPT ![m] = Append(cs[m], f)]
               /\ \E j \in DOMAIN cs[m] : same_issue(f, cs[m][j])
  BY PlaceShape
<1> QED BY <1>1

AmongSteps(c, fs, W) ==
    /\ c[0] = <<>> /\ c[Len(fs)] = Among(fs, W)
    /\ \A k \in 1..Len(fs) : c[k] = IF fs[k] \in W THEN Append(c[k - 1], fs[k]) ELSE c[k - 1]

\* The clusters, finding by finding.
LEMMA ClustersChain ==
    ASSUME NEW X, NEW fs \in Seq(X)
    PROVE  \E c \in [0..Len(fs) -> Seq(Seq(X))] :
              /\ c[0] = <<>> /\ c[Len(fs)] = Clusters(fs)
              /\ \A k \in 1..Len(fs) : c[k] = Place(c[k - 1], fs[k])
<1> DEFINE n == Len(fs)
           A == Seq(Seq(X))
           Add(out, x) == Place(out, x)
           F == [i \in 1..n |-> [out \in A |-> Add(out, fs[i])]]
<1>1. n \in Nat /\ DOMAIN fs = 1..n /\ \A i \in 1..n : fs[i] \in X
  OBVIOUS
<1>2. ASSUME NEW i \in 1..n, NEW out \in A PROVE Add(out, fs[i]) \in A
  BY <1>1, PlaceFacts
<1>0. <<>> \in A
  OBVIOUS
<1> HIDE DEF n, A
<1>3. F \in [1..n -> [A -> A]]
  BY <1>2
<1>4. PICK g \in [SUBSET (1..n) -> A] : Recursion(g, n, <<>>, F)
  <2> HIDE DEF F
  <2> QED BY <1>0, <1>1, <1>3, FoldExists, Zenon
<1>5. ASSUME NEW q \in SUBSET (1..n)
      PROVE  g[q] = IF q = {} THEN <<>> ELSE Add(g[q \ {Max(q)}], fs[Max(q)])
  <2>1. CASE q # {}
    <3>1. Max(q) \in 1..n
      BY <1>1, <2>1, MaxFacts
    <3>2. g[q \ {Max(q)}] \in A
      OBVIOUS
    <3> QED BY <1>4, <2>1, <3>1, <3>2 DEF Recursion
  <2> QED BY <1>4, <2>1 DEF Recursion
<1>6. PICK h : /\ h = [q \in SUBSET (1..n) |->
                         IF q = {} THEN <<>> ELSE Add(h[q \ {Max(q)}], fs[Max(q)])]
               /\ Clusters(fs) = h[1..n]
  <2>1. DOMAIN fs = 1..n
    BY <1>1
  <2>2. g = [q \in SUBSET (1..n) |->
               IF q = {} THEN <<>> ELSE Add(g[q \ {Max(q)}], fs[Max(q)])]
    <3> HIDE DEF F
    <3> QED BY <1>5
  <2> QED BY <2>1, <2>2, Zenon DEF Clusters, FoldLeft, MapThenFoldSet
<1>7. ASSUME NEW q \in SUBSET (1..n), q # {}, h[q \ {Max(q)}] \in A
      PROVE  h[q] = F[Max(q)][h[q \ {Max(q)}]]
  <2>1. Max(q) \in 1..n
    BY <1>1, <1>7, MaxFacts
  <2>2. h[q] = Add(h[q \ {Max(q)}], fs[Max(q)])
    BY <1>6, <1>7
  <2> QED BY <1>7, <2>1, <2>2
<1>8. PICK c : Chain(c, n, A, <<>>, F, h[1..n])
  <2> HIDE DEF F
  <2>1. Unfolds(h, n, A, <<>>, F)
    BY <1>6, <1>7 DEF Unfolds
  <2> QED BY <1>0, <1>1, <1>3, <2>1, FoldChain, Zenon
<1>9. ASSUME NEW k \in 1..n PROVE c[k] = Add(c[k - 1], fs[k])
  <2>1. k - 1 \in 0..n
    BY <1>1
  <2> QED BY <1>8, <2>1 DEF Chain
<1>10. c \in [0..n -> A] /\ c[0] = <<>> /\ c[n] = Clusters(fs)
  <2> HIDE DEF F
  <2> QED BY <1>6, <1>8 DEF Chain
<1> HIDE DEF F
<1> QED BY <1>9, <1>10 DEF n, A

\* The members of fs that are in W, one by one.
LEMMA AmongChain ==
    ASSUME NEW Y, NEW fs \in Seq(Y), NEW W
    PROVE  \E c \in [0..Len(fs) -> Seq(Y)] : AmongSteps(c, fs, W)
<1> DEFINE n == Len(fs)
           A == Seq(Y)
           Add(out, x) == IF x \in W THEN Append(out, x) ELSE out
           F == [i \in 1..n |-> [out \in A |-> Add(out, fs[i])]]
<1>1. n \in Nat /\ DOMAIN fs = 1..n /\ \A i \in 1..n : fs[i] \in Y
  OBVIOUS
<1>2. ASSUME NEW i \in 1..n, NEW out \in A PROVE Add(out, fs[i]) \in A
  BY <1>1
<1>0. <<>> \in A
  OBVIOUS
<1> HIDE DEF n, A
<1>3. F \in [1..n -> [A -> A]]
  BY <1>2
<1>4. PICK g \in [SUBSET (1..n) -> A] : Recursion(g, n, <<>>, F)
  <2> HIDE DEF F
  <2> QED BY <1>0, <1>1, <1>3, FoldExists, Zenon
<1>5. ASSUME NEW q \in SUBSET (1..n)
      PROVE  g[q] = IF q = {} THEN <<>> ELSE Add(g[q \ {Max(q)}], fs[Max(q)])
  <2>1. CASE q # {}
    <3>1. Max(q) \in 1..n
      BY <1>1, <2>1, MaxFacts
    <3>2. g[q \ {Max(q)}] \in A
      OBVIOUS
    <3> QED BY <1>4, <2>1, <3>1, <3>2 DEF Recursion
  <2> QED BY <1>4, <2>1 DEF Recursion
<1>6. PICK h : /\ h = [q \in SUBSET (1..n) |->
                         IF q = {} THEN <<>> ELSE Add(h[q \ {Max(q)}], fs[Max(q)])]
               /\ Among(fs, W) = h[1..n]
  <2>1. DOMAIN fs = 1..n
    BY <1>1
  <2>2. g = [q \in SUBSET (1..n) |->
               IF q = {} THEN <<>> ELSE Add(g[q \ {Max(q)}], fs[Max(q)])]
    <3> HIDE DEF F
    <3> QED BY <1>5
  <2> QED BY <2>1, <2>2, Zenon DEF Among, FoldLeft, MapThenFoldSet
<1>7. ASSUME NEW q \in SUBSET (1..n), q # {}, h[q \ {Max(q)}] \in A
      PROVE  h[q] = F[Max(q)][h[q \ {Max(q)}]]
  <2>1. Max(q) \in 1..n
    BY <1>1, <1>7, MaxFacts
  <2>2. h[q] = Add(h[q \ {Max(q)}], fs[Max(q)])
    BY <1>6, <1>7
  <2> QED BY <1>7, <2>1, <2>2
<1>8. PICK c : Chain(c, n, A, <<>>, F, h[1..n])
  <2> HIDE DEF F
  <2>1. Unfolds(h, n, A, <<>>, F)
    BY <1>6, <1>7 DEF Unfolds
  <2> QED BY <1>0, <1>1, <1>3, <2>1, FoldChain, Zenon
<1>9. ASSUME NEW k \in 1..n PROVE c[k] = Add(c[k - 1], fs[k])
  <2>1. k - 1 \in 0..n
    BY <1>1
  <2> QED BY <1>8, <2>1 DEF Chain
<1>10. c \in [0..n -> A] /\ c[0] = <<>> /\ c[n] = Among(fs, W)
  <2> HIDE DEF F
  <2> QED BY <1>6, <1>8 DEF Chain
<1> HIDE DEF F
<1> QED BY <1>9, <1>10 DEF AmongSteps, n, A

\* What the panel found, verdict by verdict.
LEMMA RawFindingsChain ==
    ASSUME NEW X, NEW V, NEW vs \in Seq(V),
           \A v \in V : ok(v) => v.findings \in Seq(X)
    PROVE  \E c \in [0..Len(vs) -> Seq(X)] :
              /\ c[0] = <<>> /\ c[Len(vs)] = RawFindings(vs)
              /\ \A k \in 1..Len(vs) : c[k] = IF ok(vs[k]) THEN c[k - 1] \o vs[k].findings ELSE c[k - 1]
<1> DEFINE n == Len(vs)
           A == Seq(X)
           Add(out, x) == IF ok(x) THEN out \o x.findings ELSE out
           F == [i \in 1..n |-> [out \in A |-> Add(out, vs[i])]]
<1>1. n \in Nat /\ DOMAIN vs = 1..n /\ \A i \in 1..n : vs[i] \in V
  OBVIOUS
<1>2. ASSUME NEW i \in 1..n, NEW out \in A PROVE Add(out, vs[i]) \in A
  BY <1>1
<1>0. <<>> \in A
  OBVIOUS
<1> HIDE DEF n, A
<1>3. F \in [1..n -> [A -> A]]
  BY <1>2
<1>4. PICK g \in [SUBSET (1..n) -> A] : Recursion(g, n, <<>>, F)
  <2> HIDE DEF F
  <2> QED BY <1>0, <1>1, <1>3, FoldExists, Zenon
<1>5. ASSUME NEW q \in SUBSET (1..n)
      PROVE  g[q] = IF q = {} THEN <<>> ELSE Add(g[q \ {Max(q)}], vs[Max(q)])
  <2>1. CASE q # {}
    <3>1. Max(q) \in 1..n
      BY <1>1, <2>1, MaxFacts
    <3>2. g[q \ {Max(q)}] \in A
      OBVIOUS
    <3> QED BY <1>4, <2>1, <3>1, <3>2 DEF Recursion
  <2> QED BY <1>4, <2>1 DEF Recursion
<1>6. PICK h : /\ h = [q \in SUBSET (1..n) |->
                         IF q = {} THEN <<>> ELSE Add(h[q \ {Max(q)}], vs[Max(q)])]
               /\ RawFindings(vs) = h[1..n]
  <2>1. DOMAIN vs = 1..n
    BY <1>1
  <2>2. g = [q \in SUBSET (1..n) |->
               IF q = {} THEN <<>> ELSE Add(g[q \ {Max(q)}], vs[Max(q)])]
    <3> HIDE DEF F
    <3> QED BY <1>5
  <2> QED BY <2>1, <2>2, Zenon DEF RawFindings, FoldLeft, MapThenFoldSet
<1>7. ASSUME NEW q \in SUBSET (1..n), q # {}, h[q \ {Max(q)}] \in A
      PROVE  h[q] = F[Max(q)][h[q \ {Max(q)}]]
  <2>1. Max(q) \in 1..n
    BY <1>1, <1>7, MaxFacts
  <2>2. h[q] = Add(h[q \ {Max(q)}], vs[Max(q)])
    BY <1>6, <1>7
  <2> QED BY <1>7, <2>1, <2>2
<1>8. PICK c : Chain(c, n, A, <<>>, F, h[1..n])
  <2> HIDE DEF F
  <2>1. Unfolds(h, n, A, <<>>, F)
    BY <1>6, <1>7 DEF Unfolds
  <2> QED BY <1>0, <1>1, <1>3, <2>1, FoldChain, Zenon
<1>9. ASSUME NEW k \in 1..n PROVE c[k] = Add(c[k - 1], vs[k])
  <2>1. k - 1 \in 0..n
    BY <1>1
  <2> QED BY <1>8, <2>1 DEF Chain
<1>10. c \in [0..n -> A] /\ c[0] = <<>> /\ c[n] = RawFindings(vs)
  <2> HIDE DEF F
  <2> QED BY <1>6, <1>8 DEF Chain
<1> HIDE DEF F
<1> QED BY <1>9, <1>10 DEF n, A

\* The citations of a cluster, finding by finding.
LEMMA AllEvidenceChain ==
    ASSUME NEW X, NEW E, NEW fs \in Seq(X), \A f \in X : f.evidence \in Seq(E)
    PROVE  \E c \in [0..Len(fs) -> Seq(E)] :
              /\ c[0] = <<>> /\ c[Len(fs)] = AllEvidence(fs)
              /\ \A k \in 1..Len(fs) : c[k] = c[k - 1] \o fs[k].evidence
<1> DEFINE n == Len(fs)
           A == Seq(E)
           Add(out, x) == out \o x.evidence
           F == [i \in 1..n |-> [out \in A |-> Add(out, fs[i])]]
<1>1. n \in Nat /\ DOMAIN fs = 1..n /\ \A i \in 1..n : fs[i] \in X
  OBVIOUS
<1>2. ASSUME NEW i \in 1..n, NEW out \in A PROVE Add(out, fs[i]) \in A
  BY <1>1
<1>0. <<>> \in A
  OBVIOUS
<1> HIDE DEF n, A
<1>3. F \in [1..n -> [A -> A]]
  BY <1>2
<1>4. PICK g \in [SUBSET (1..n) -> A] : Recursion(g, n, <<>>, F)
  <2> HIDE DEF F
  <2> QED BY <1>0, <1>1, <1>3, FoldExists, Zenon
<1>5. ASSUME NEW q \in SUBSET (1..n)
      PROVE  g[q] = IF q = {} THEN <<>> ELSE Add(g[q \ {Max(q)}], fs[Max(q)])
  <2>1. CASE q # {}
    <3>1. Max(q) \in 1..n
      BY <1>1, <2>1, MaxFacts
    <3>2. g[q \ {Max(q)}] \in A
      OBVIOUS
    <3> QED BY <1>4, <2>1, <3>1, <3>2 DEF Recursion
  <2> QED BY <1>4, <2>1 DEF Recursion
<1>6. PICK h : /\ h = [q \in SUBSET (1..n) |->
                         IF q = {} THEN <<>> ELSE Add(h[q \ {Max(q)}], fs[Max(q)])]
               /\ AllEvidence(fs) = h[1..n]
  <2>1. DOMAIN fs = 1..n
    BY <1>1
  <2>2. g = [q \in SUBSET (1..n) |->
               IF q = {} THEN <<>> ELSE Add(g[q \ {Max(q)}], fs[Max(q)])]
    <3> HIDE DEF F
    <3> QED BY <1>5
  <2> QED BY <2>1, <2>2, Zenon DEF AllEvidence, FoldLeft, MapThenFoldSet
<1>7. ASSUME NEW q \in SUBSET (1..n), q # {}, h[q \ {Max(q)}] \in A
      PROVE  h[q] = F[Max(q)][h[q \ {Max(q)}]]
  <2>1. Max(q) \in 1..n
    BY <1>1, <1>7, MaxFacts
  <2>2. h[q] = Add(h[q \ {Max(q)}], fs[Max(q)])
    BY <1>6, <1>7
  <2> QED BY <1>7, <2>1, <2>2
<1>8. PICK c : Chain(c, n, A, <<>>, F, h[1..n])
  <2> HIDE DEF F
  <2>1. Unfolds(h, n, A, <<>>, F)
    BY <1>6, <1>7 DEF Unfolds
  <2> QED BY <1>0, <1>1, <1>3, <2>1, FoldChain, Zenon
<1>9. ASSUME NEW k \in 1..n PROVE c[k] = Add(c[k - 1], fs[k])
  <2>1. k - 1 \in 0..n
    BY <1>1
  <2> QED BY <1>8, <2>1 DEF Chain
<1>10. c \in [0..n -> A] /\ c[0] = <<>> /\ c[n] = AllEvidence(fs)
  <2> HIDE DEF F
  <2> QED BY <1>6, <1>8 DEF Chain
<1> HIDE DEF F
<1> QED BY <1>9, <1>10 DEF n, A


\* Appending to a list.
LEMMA AppendFacts ==
    ASSUME NEW T, NEW s \in Seq(T), NEW y \in T
    PROVE  /\ Append(s, y) \in Seq(T) /\ Append(s, y) # <<>>
           /\ Len(Append(s, y)) = Len(s) + 1 /\ Len(s) \in Nat
           /\ Len(s) + 1 \in DOMAIN Append(s, y) /\ Append(s, y)[Len(s) + 1] = y
           /\ \A i \in DOMAIN s : i \in DOMAIN Append(s, y) /\ Append(s, y)[i] = s[i]
           /\ \A i \in DOMAIN Append(s, y) : i \in DOMAIN s \/ i = Len(s) + 1
OBVIOUS

\* Two lists after each other.
LEMMA ConcatFacts ==
    ASSUME NEW T, NEW s \in Seq(T), NEW t \in Seq(T)
    PROVE  /\ s \o t \in Seq(T)
           /\ Len(s \o t) = Len(s) + Len(t) /\ Len(s) \in Nat /\ Len(t) \in Nat
           /\ \A i \in DOMAIN s : i \in DOMAIN (s \o t) /\ (s \o t)[i] = s[i]
           /\ \A i \in DOMAIN t : Len(s) + i \in DOMAIN (s \o t) /\ (s \o t)[Len(s) + i] = t[i]
OBVIOUS

\* All members of a cluster are in one file.
OneFile(cluster) == \A j, k \in DOMAIN cluster : cluster[j].file_path = cluster[k].file_path

\* No cluster is empty, and none spans files.
Sound(cs) == \A p \in DOMAIN cs : cs[p] # <<>> /\ OneFile(cs[p])

\* x is in one of the clusters.
Has(cs, x) == \E p \in DOMAIN cs : \E j \in DOMAIN cs[p] : cs[p][j] = x

\* Placing a finding puts it into a cluster, loses none that was in one, and
\* keeps the clusters sound: a finding joins only what overlaps it.
LEMMA PlaceKeeps ==
    ASSUME NEW X, NEW cs \in Seq(Seq(X)), NEW f \in X
    PROVE  /\ Has(Place(cs, f), f)
           /\ \A x : Has(cs, x) => Has(Place(cs, f), x)
           /\ Sound(cs) => Sound(Place(cs, f))
<1>1. CASE Place(cs, f) = Append(cs, <<f>>)
  <2> DEFINE ds == Append(cs, <<f>>)
  <2>1. <<f>> \in Seq(X) /\ DOMAIN <<f>> = {1} /\ <<f>>[1] = f /\ <<f>> # <<>>
    OBVIOUS
  <2>2. /\ Len(cs) + 1 \in DOMAIN ds /\ ds[Len(cs) + 1] = <<f>>
        /\ \A i \in DOMAIN cs : i \in DOMAIN ds /\ ds[i] = cs[i]
        /\ \A i \in DOMAIN ds : i \in DOMAIN cs \/ i = Len(cs) + 1
    BY <2>1, AppendFacts
  <2> HIDE DEF ds
  <2>3. Has(ds, f)
    BY <2>1, <2>2 DEF Has
  <2>4. ASSUME NEW x, Has(cs, x) PROVE Has(ds, x)
    BY <2>2, <2>4 DEF Has
  <2>5. ASSUME Sound(cs) PROVE Sound(ds)
    <3>1. OneFile(<<f>>)
      BY <2>1 DEF OneFile
    <3>2. ASSUME NEW p \in DOMAIN ds PROVE ds[p] # <<>> /\ OneFile(ds[p])
      <4>1. CASE p \in DOMAIN cs
        BY <2>2, <2>5, <4>1 DEF Sound
      <4>2. CASE p = Len(cs) + 1
        BY <2>1, <2>2, <3>1, <4>2
      <4> QED BY <2>2, <4>1, <4>2
    <3> QED BY <3>2 DEF Sound
  <2> QED BY <1>1, <2>3, <2>4, <2>5 DEF ds
<1>2. ASSUME NEW m \in DOMAIN cs,
             Place(cs, f) = [cs EXCEPT ![m] = Append(cs[m], f)],
             NEW j \in DOMAIN cs[m], same_issue(f, cs[m][j])
      PROVE  /\ Has(Place(cs, f), f)
             /\ \A x : Has(cs, x) => Has(Place(cs, f), x)
             /\ Sound(cs) => Sound(Place(cs, f))
  <2> DEFINE ds == Place(cs, f)
             d  == Append(cs[m], f)
  <2>1. cs[m] \in Seq(X) /\ DOMAIN ds = DOMAIN cs /\ ds[m] = d
        /\ \A p \in DOMAIN cs \ {m} : ds[p] = cs[p]
    BY <1>2
  <2>2. /\ d # <<>> /\ Len(cs[m]) + 1 \in DOMAIN d /\ d[Len(cs[m]) + 1] = f
        /\ \A i \in DOMAIN cs[m] : i \in DOMAIN d /\ d[i] = cs[m][i]
        /\ \A i \in DOMAIN d : i \in DOMAIN cs[m] \/ i = Len(cs[m]) + 1
    BY <2>1, AppendFacts
  <2>3. f.file_path = cs[m][j].file_path
    BY <1>2 DEF same_issue, overlaps
  <2> HIDE DEF ds, d
  <2>4. Has(ds, f)
    BY <2>1, <2>2 DEF Has
  <2>5. ASSUME NEW x, Has(cs, x) PROVE Has(ds, x)
    <3>0. PICK p \in DOMAIN cs : \E i \in DOMAIN cs[p] : cs[p][i] = x
      BY <2>5 DEF Has
    <3>1. PICK i \in DOMAIN cs[p] : cs[p][i] = x
      BY <3>0
    <3>2. p \in DOMAIN ds /\ i \in DOMAIN ds[p] /\ ds[p][i] = x
      BY <2>1, <2>2, <3>1
    <3> QED BY <3>2 DEF Has
  <2>6. ASSUME Sound(cs) PROVE Sound(ds)
    <3>1. OneFile(cs[m])
      BY <2>6 DEF Sound
    <3>2. ASSUME NEW i \in DOMAIN d PROVE d[i].file_path = f.file_path
      BY <2>2, <2>3, <3>1, <3>2 DEF OneFile
    <3>3. OneFile(d)
      BY <3>2 DEF OneFile
    <3> QED BY <2>1, <2>2, <2>6, <3>3 DEF Sound
  <2> QED BY <2>4, <2>5, <2>6 DEF ds
<1>3. \/ Place(cs, f) = Append(cs, <<f>>)
      \/ \E m \in DOMAIN cs :
            /\ Place(cs, f) = [cs EXCEPT ![m] = Append(cs[m], f)]
            /\ \E j \in DOMAIN cs[m] : same_issue(f, cs[m][j])
  BY PlaceShape
<1> QED BY <1>1, <1>2, <1>3

\* Clustering: every finding is in a cluster, there are clusters exactly when
\* there are findings and never more, and the clusters are sound.
LEMMA ClustersFacts ==
    ASSUME NEW X, NEW fs \in Seq(X)
    PROVE  /\ Clusters(fs) \in Seq(Seq(X))
           /\ Clusters(fs) = <<>> <=> fs = <<>>
           /\ Len(Clusters(fs)) <= Len(fs)
           /\ Sound(Clusters(fs))
           /\ \A i \in DOMAIN fs : Has(Clusters(fs), fs[i])
<1> DEFINE n == Len(fs)
           A == Seq(Seq(X))
<1>1. n \in Nat /\ DOMAIN fs = 1..n /\ \A i \in 1..n : fs[i] \in X
  OBVIOUS
<1>2. PICK c \in [0..n -> A] : /\ c[0] = <<>> /\ c[n] = Clusters(fs)
                               /\ \A k \in 1..n : c[k] = Place(c[k - 1], fs[k])
  BY ClustersChain
<1> HIDE DEF n
<1>3. ASSUME NEW k \in 1..n
      PROVE  /\ c[k - 1] \in A /\ c[k] \in A /\ c[k] # <<>>
             /\ Len(c[k]) \in {Len(c[k - 1]), Len(c[k - 1]) + 1}
             /\ Has(c[k], fs[k])
             /\ \A x : Has(c[k - 1], x) => Has(c[k], x)
             /\ Sound(c[k - 1]) => Sound(c[k])
  <2>1. k - 1 \in 0..n /\ k \in 0..n
    BY <1>1
  <2>2. c[k - 1] \in Seq(Seq(X)) /\ c[k] = Place(c[k - 1], fs[k]) /\ fs[k] \in X /\ c[k] \in A
    BY <1>1, <1>2, <2>1
  <2> HIDE DEF A
  <2>3. c[k] # <<>> /\ Len(c[k]) \in {Len(c[k - 1]), Len(c[k - 1]) + 1}
    BY <2>2, PlaceFacts
  <2>4. /\ Has(c[k], fs[k])
        /\ \A x : Has(c[k - 1], x) => Has(c[k], x)
        /\ Sound(c[k - 1]) => Sound(c[k])
    BY <2>2, PlaceKeeps
  <2> QED BY <2>2, <2>3, <2>4 DEF A
<1>4. c[n] \in A /\ n \in 0..n
  BY <1>1, <1>2
<1>5. Len(c[n]) <= n /\ Sound(c[n])
  <2> DEFINE S == {k \in 0..n : Len(c[k]) <= k /\ Sound(c[k])}
  <2>1. 0 \in S
    BY <1>1, <1>2 DEF Sound
  <2>2. ASSUME NEW k \in 0..(n - 1), k \in S PROVE k + 1 \in S
    <3>1. k + 1 \in 1..n /\ (k + 1) - 1 = k /\ k + 1 \in 0..n /\ k \in Nat
      BY <1>1
    <3>2. /\ c[k] \in A /\ Len(c[k + 1]) \in {Len(c[k]), Len(c[k]) + 1}
          /\ Sound(c[k]) => Sound(c[k + 1])
      BY <1>3, <3>1
    <3>3. Len(c[k]) \in Nat
      BY <3>2
    <3>4. Len(c[k]) <= k /\ Sound(c[k])
      BY <2>2
    <3>5. Len(c[k + 1]) <= k + 1
      BY <3>1, <3>2, <3>3, <3>4
    <3> QED BY <3>1, <3>2, <3>4, <3>5
  <2> HIDE DEF S
  <2>3. \A k \in 0..n : k \in S
    BY <1>1, <2>1, <2>2, UpTo
  <2> QED BY <1>4, <2>3 DEF S
<1>6. c[n] = <<>> <=> fs = <<>>
  <2>1. CASE n = 0
    BY <1>1, <1>2, <2>1 DEF n
  <2>2. CASE n # 0
    <3>1. n \in 1..n
      BY <1>1, <2>2
    <3>2. c[n] # <<>>
      BY <1>3, <3>1
    <3> QED BY <2>2, <3>2 DEF n
  <2> QED BY <2>1, <2>2
<1>7. ASSUME NEW i \in DOMAIN fs PROVE Has(c[n], fs[i])
  <2> DEFINE B == {cs \in A : Has(cs, fs[i])}
  <2>1. i \in 1..n /\ i \in 0..n
    BY <1>1
  <2>2. c[i] \in B
    BY <1>3, <2>1
  <2>3. ASSUME NEW k \in 1..n, c[k - 1] \in B PROVE c[k] \in B
    BY <1>3, <2>3
  <2> HIDE DEF B
  <2>4. c[n] \in B
    BY <1>1, <2>1, <2>2, <2>3, StaysFrom
  <2> QED BY <2>4 DEF B
<1> QED BY <1>2, <1>4, <1>5, <1>6, <1>7 DEF n

\* s has the member x.
Lists(s, x) == \E k \in DOMAIN s : s[k] = x

\* Among keeps what is in W, all of it and nothing else.
LEMMA AmongFacts ==
    ASSUME NEW Y, NEW fs \in Seq(Y), NEW W
    PROVE  /\ Among(fs, W) \in Seq({y \in Y : y \in W})
           /\ Among(fs, W) \in Seq(Y)
           /\ Len(Among(fs, W)) <= Len(fs)
           /\ fs = <<>> => Among(fs, W) = <<>>
           /\ \A x : Lists(fs, x) /\ x \in W => Lists(Among(fs, W), x)
<1>0. PICK c \in [0..Len(fs) -> Seq(Y)] : AmongSteps(c, fs, W)
  BY AmongChain, Zenon
<1> DEFINE n == Len(fs)
           K == {y \in Y : y \in W}
<1>1. /\ n \in Nat /\ DOMAIN fs = 1..n /\ \A i \in 1..n : fs[i] \in Y
      /\ c \in [0..n -> Seq(Y)]
  OBVIOUS
<1>2. /\ c[0] = <<>> /\ c[n] = Among(fs, W)
      /\ \A k \in 1..n : c[k] = IF fs[k] \in W THEN Append(c[k - 1], fs[k]) ELSE c[k - 1]
  BY <1>0 DEF AmongSteps
<1> HIDE DEF n
<1>3. \A k \in 0..n : c[k] \in Seq(K) /\ Len(c[k]) <= k
  <2> DEFINE S == {k \in 0..n : c[k] \in Seq(K) /\ Len(c[k]) <= k}
  <2>1. 0 \in S
    BY <1>1, <1>2
  <2>2. ASSUME NEW k \in 0..(n - 1), k \in S PROVE k + 1 \in S
    <3>1. k + 1 \in 1..n /\ (k + 1) - 1 = k /\ k + 1 \in 0..n /\ k \in Nat
      BY <1>1
    <3>2. c[k] \in Seq(K) /\ Len(c[k]) <= k /\ Len(c[k]) \in Nat
      BY <2>2
    <3>3. CASE fs[k + 1] \in W
      <4>1. fs[k + 1] \in K /\ c[k + 1] = Append(c[k], fs[k + 1])
        BY <1>1, <1>2, <3>1, <3>3
      <4> HIDE DEF K
      <4>2. c[k + 1] \in Seq(K) /\ Len(c[k + 1]) = Len(c[k]) + 1
        BY <3>2, <4>1, AppendFacts
      <4> QED BY <3>1, <3>2, <4>2
    <3>4. CASE fs[k + 1] \notin W
      <4>1. c[k + 1] = c[k]
        BY <1>2, <3>1, <3>4
      <4> QED BY <3>1, <3>2, <4>1
    <3> QED BY <3>3, <3>4
  <2> HIDE DEF S
  <2>3. \A k \in 0..n : k \in S
    BY <1>1, <2>1, <2>2, UpTo
  <2> QED BY <2>3 DEF S
<1>4. n \in 0..n /\ c[n] \in Seq(Y) /\ c[n] \in Seq(K) /\ Len(c[n]) <= n
  <2>1. n \in 0..n
    BY <1>1
  <2>2. c[n] \in Seq(Y)
    BY <1>1, <2>1
  <2> QED BY <1>3, <2>1, <2>2
<1>5. fs = <<>> => c[n] = <<>>
  BY <1>2 DEF n
<1>6. ASSUME NEW i \in DOMAIN fs, fs[i] \in W PROVE \E j \in DOMAIN c[n] : c[n][j] = fs[i]
  <2> DEFINE B == {s \in Seq(Y) : \E j \in DOMAIN s : s[j] = fs[i]}
  <2>1. i \in 1..n /\ i \in 0..n /\ i - 1 \in 0..n
    BY <1>1
  <2>2. c[i] = Append(c[i - 1], fs[i]) /\ c[i - 1] \in Seq(Y) /\ fs[i] \in Y
    BY <1>1, <1>2, <1>6, <2>1
  <2>3. c[i] \in B
    <3>1. /\ c[i] \in Seq(Y) /\ Len(c[i - 1]) + 1 \in DOMAIN c[i]
          /\ c[i][Len(c[i - 1]) + 1] = fs[i]
      BY <2>2, AppendFacts
    <3> QED BY <3>1
  <2>4. ASSUME NEW k \in 1..n, c[k - 1] \in B PROVE c[k] \in B
    <3>1. fs[k] \in Y /\ c[k - 1] \in Seq(Y) /\ \E j \in DOMAIN c[k - 1] : c[k - 1][j] = fs[i]
      BY <1>1, <2>4
    <3>3. PICK j \in DOMAIN c[k - 1] : c[k - 1][j] = fs[i]
      BY <3>1
    <3>4. /\ Append(c[k - 1], fs[k]) \in Seq(Y) /\ j \in DOMAIN Append(c[k - 1], fs[k])
          /\ Append(c[k - 1], fs[k])[j] = c[k - 1][j]
      BY <3>1, AppendFacts
    <3>2. Append(c[k - 1], fs[k]) \in B
      BY <3>3, <3>4
    <3> QED BY <1>2, <2>4, <3>2
  <2> HIDE DEF B
  <2>5. c[n] \in B
    BY <1>1, <2>1, <2>3, <2>4, StaysFrom
  <2> QED BY <2>5 DEF B
<1>7. ASSUME NEW x, Lists(fs, x), x \in W PROVE Lists(c[n], x)
  BY <1>6, <1>7 DEF Lists
<1> QED BY <1>2, <1>4, <1>5, <1>7 DEF n

-----------------------------------------------------------------------------
(* Agreement *)

AMember(s) == CHOOSE x \in s : TRUE

\* The recursion that a fold over a finite set is defined by.
SetRecursion(g, T, base, F) ==
    \A s \in SUBSET T : g[s] = IF s = {} THEN base ELSE F[AMember(s)][g[s \ {AMember(s)}]]

\* It has a solution.
LEMMA SetFoldExists ==
    ASSUME NEW T, IsFiniteSet(T), NEW A, NEW base \in A, NEW F \in [T -> [A -> A]]
    PROVE  \E g \in [SUBSET T -> A] : SetRecursion(g, T, base, F)
<1> DEFINE n == Cardinality(T)
           Solves(g, m) == \A s \in SUBSET T : Cardinality(s) <= m =>
                 g[s] = IF s = {} THEN base ELSE F[AMember(s)][g[s \ {AMember(s)}]]
           S == {m \in 0..n : \E g \in [SUBSET T -> A] : Solves(g, m)}
<1>1. n \in Nat
  BY FS_CardinalityType
<1>2. ASSUME NEW s \in SUBSET T
      PROVE  /\ IsFiniteSet(s) /\ Cardinality(s) \in Nat /\ Cardinality(s) <= n
             /\ s = {} <=> Cardinality(s) = 0
             /\ s # {} => /\ AMember(s) \in s /\ s \ {AMember(s)} \in SUBSET T
                          /\ Cardinality(s \ {AMember(s)}) = Cardinality(s) - 1
  <2>1. IsFiniteSet(s) /\ Cardinality(s) <= n
    BY FS_Subset
  <2>2. Cardinality(s) \in Nat /\ (s = {} <=> Cardinality(s) = 0)
    BY <2>1, FS_CardinalityType, FS_EmptySet
  <2>3. s # {} => AMember(s) \in s
    BY DEF AMember
  <2> QED BY <2>1, <2>2, <2>3, FS_RemoveElement
<1> HIDE DEF n
<1>3. 0 \in S
  <2> DEFINE g == [s \in SUBSET T |-> base]
  <2>1. g \in [SUBSET T -> A]
    OBVIOUS
  <2>2. Solves(g, 0)
    <3>1. ASSUME NEW s \in SUBSET T, Cardinality(s) <= 0
          PROVE  s = {} /\ g[s] = base
      <4>1. Cardinality(s) \in Nat
        BY <1>2
      <4>2. Cardinality(s) = 0
        BY <3>1, <4>1
      <4>3. s = {}
        BY <1>2, <4>2
      <4> QED BY <4>3
    <3> HIDE DEF g
    <3> QED BY <3>1
  <2> HIDE DEF g, Solves
  <2> QED BY <1>1, <2>1, <2>2
<1>4. ASSUME NEW m \in 0..(n - 1), m \in S PROVE m + 1 \in S
  <2>1. PICK g \in [SUBSET T -> A] : Solves(g, m)
    BY <1>4
  <2> DEFINE h == [s \in SUBSET T |->
                     IF Cardinality(s) <= m THEN g[s] ELSE F[AMember(s)][g[s \ {AMember(s)}]]]
  <2>0. m \in Nat /\ m + 1 \in 0..n
    BY <1>1
  <2>2. ASSUME NEW s \in SUBSET T PROVE h[s] \in A
    <3>1. CASE Cardinality(s) <= m
      BY <3>1
    <3>2. CASE ~(Cardinality(s) <= m)
      <4>1. s # {} /\ AMember(s) \in T /\ s \ {AMember(s)} \in SUBSET T
        BY <1>2, <2>0, <3>2
      <4> QED BY <3>2, <4>1
    <3> QED BY <3>1, <3>2
  <2>3. ASSUME NEW s \in SUBSET T, Cardinality(s) <= m + 1
        PROVE  h[s] = IF s = {} THEN base ELSE F[AMember(s)][h[s \ {AMember(s)}]]
    <3>1. CASE s = {}
      <4>0. Cardinality(s) = 0
        BY <3>1, FS_EmptySet
      <4>1. Cardinality(s) <= m
        BY <2>0, <4>0
      <4>2. h[s] = g[s] /\ g[s] = base
        BY <2>1, <3>1, <4>1
      <4> QED BY <3>1, <4>2
    <3>2. CASE s # {}
      <4> DEFINE r == s \ {AMember(s)}
      <4>1. r \in SUBSET T /\ Cardinality(r) <= m
        BY <1>2, <2>0, <2>3, <3>2
      <4>2. h[r] = g[r]
        BY <4>1
      <4>3. h[s] = F[AMember(s)][g[r]]
        <5>1. CASE Cardinality(s) <= m
          BY <2>1, <3>2, <5>1
        <5>2. CASE ~(Cardinality(s) <= m)
          BY <5>2
        <5> QED BY <5>1, <5>2
      <4> HIDE DEF h
      <4> QED BY <3>2, <4>2, <4>3
    <3> QED BY <3>1, <3>2
  <2>4. h \in [SUBSET T -> A]
    BY <2>2
  <2> HIDE DEF h
  <2>5. Solves(h, m + 1)
    BY <2>3
  <2> HIDE DEF Solves
  <2> QED BY <2>0, <2>4, <2>5
<1> HIDE DEF S
<1>5. n \in S
  <2>1. \A m \in 0..n : m \in S
    BY <1>1, <1>3, <1>4, UpTo
  <2> QED BY <1>1, <2>1
<1>6. PICK g \in [SUBSET T -> A] : Solves(g, n)
  BY <1>5 DEF S
<1> QED BY <1>2, <1>6 DEF SetRecursion

\* A confidence is a number between 0 and One.
LEMMA ConfidenceFacts ==
    /\ One \in Int /\ 0 <= One /\ One \in Confidence
    /\ \A x \in Confidence : x \in Int /\ 0 <= x /\ x <= One
    /\ \A x \in Int : 0 <= x /\ x <= One => x \in Confidence
<1>1. One \in Int /\ 0 <= One
  BY DEF One
<1> QED BY <1>1 DEF Confidence

\* A product of two shares is a share, and neither of them is smaller.
LEMMA ShareFacts ==
    ASSUME NEW p \in Confidence, NEW q \in Confidence
    PROVE  /\ (p * q) \div One \in Confidence
           /\ (p * q) \div One <= p /\ (p * q) \div One <= q
<1>0. One \in Int /\ One > 0 /\ p \in Int /\ 0 <= p /\ p <= One /\ q \in Int /\ 0 <= q /\ q <= One
  BY ConfidenceFacts DEF One
<1>1. p * q \in Nat /\ p * q <= One * p /\ p * q <= One * q
  BY <1>0 DEF One
<1> DEFINE r == p * q
<1> HIDE DEF r
<1>2. r \in Nat /\ r <= One * p /\ r <= One * q
  BY <1>1 DEF r
<1>3. /\ r \div One \in Int /\ 0 <= r \div One
      /\ r \div One <= p /\ r \div One <= q /\ r \div One <= One
  BY <1>0, <1>2 DEF One
<1> QED BY <1>3, ConfidenceFacts DEF r

\* The fields of a finding.
LEMMA FieldFacts ==
    ASSUME NEW f \in FindingType
    PROVE  /\ f.agent \in AgentType /\ f.category \in Category /\ f.severity \in Severity
           /\ f.file_path \in Int /\ f.line_start \in Int /\ f.line_end \in Int
           /\ f.confidence \in Confidence /\ f.confidence \in Int
           /\ f.title \in SUBSET Word /\ f.agreeing \in SUBSET AgentType
           /\ f.categories \in SUBSET Category /\ f.evidence \in Seq(EvidenceType)
<1>1. f.confidence \in Confidence
  BY DEF FindingType
<1>2. f.confidence \in Int
  BY <1>1, ConfidenceFacts
<1> QED BY <1>1, <1>2 DEF FindingType

\* A severity has a place in SEVERITY_ORDER of its own.
LEMMA SeverityFacts ==
    /\ \A s \in Severity : SeverityIndex(s) \in 1..4 /\ SEVERITY_ORDER[SeverityIndex(s)] = s
    /\ \A s, t \in Severity : SeverityIndex(s) = SeverityIndex(t) => s = t
<1>1. ASSUME NEW s \in Severity
      PROVE  SeverityIndex(s) \in 1..4 /\ SEVERITY_ORDER[SeverityIndex(s)] = s
  <2>1. \E i \in 1..4 : SEVERITY_ORDER[i] = s
    <3>1. 1 \in 1..4 /\ 2 \in 1..4 /\ 3 \in 1..4 /\ 4 \in 1..4
      OBVIOUS
    <3>2. /\ SEVERITY_ORDER[1] = "info" /\ SEVERITY_ORDER[2] = "minor"
          /\ SEVERITY_ORDER[3] = "major" /\ SEVERITY_ORDER[4] = "critical"
      BY DEF SEVERITY_ORDER
    <3>3. s \in {"info", "minor", "major", "critical"}
      BY DEF Severity
    <3> HIDE DEF SEVERITY_ORDER
    <3> QED BY <3>1, <3>2, <3>3
  <2> QED BY <2>1 DEF SeverityIndex
<1> QED BY <1>1

\* Among finitely many numbers are a greatest and a least.
LEMMA Extremes ==
    ASSUME NEW n \in Nat \ {0}, NEW v \in [1..n -> Int]
    PROVE  /\ \E i \in 1..n : Max({v[k] : k \in 1..n}) = v[i]
           /\ \E i \in 1..n : Min({v[k] : k \in 1..n}) = v[i]
           /\ \A i \in 1..n : /\ Min({v[k] : k \in 1..n}) <= v[i]
                              /\ v[i] <= Max({v[k] : k \in 1..n})
<1> DEFINE P(m) == /\ \E i \in 1..m : \A j \in 1..m : v[i] >= v[j]
                   /\ \E i \in 1..m : \A j \in 1..m : v[i] <= v[j]
           S == {m \in 0..n : m # 0 => P(m)}
           V == {v[k] : k \in 1..n}
<1>1. 0 \in S
  OBVIOUS
<1>2. ASSUME NEW m \in 0..(n - 1), m \in S PROVE m + 1 \in S
  <2>1. m + 1 \in 0..n /\ m + 1 \in 1..n /\ \A i \in 1..(m + 1) : v[i] \in Int
    OBVIOUS
  <2>2. CASE m = 0
    <3>1. 1 \in 1..(m + 1) /\ \A j \in 1..(m + 1) : j = 1
      BY <2>2
    <3>2. v[1] \in Int
      BY <2>1, <3>1
    <3>3. \A j \in 1..(m + 1) : v[1] >= v[j] /\ v[1] <= v[j]
      BY <3>1, <3>2
    <3>4. P(m + 1)
      BY <3>1, <3>3
    <3> HIDE DEF P
    <3> QED BY <2>1, <3>4
  <2>3. CASE m # 0
    <3>1. P(m)
      BY <1>2, <2>3
    <3>2. \A j \in 1..(m + 1) : j \in 1..m \/ j = m + 1
      OBVIOUS
    <3>3. 1..m \subseteq 1..(m + 1) /\ m + 1 \in 1..(m + 1)
      OBVIOUS
    <3>4. \E i \in 1..(m + 1) : \A j \in 1..(m + 1) : v[i] >= v[j]
      <4>1. PICK i \in 1..m : \A j \in 1..m : v[i] >= v[j]
        BY <3>1
      <4>2. CASE v[i] >= v[m + 1]
        BY <3>2, <3>3, <4>1, <4>2
      <4>3. CASE ~(v[i] >= v[m + 1])
        <5>1. ASSUME NEW j \in 1..(m + 1) PROVE v[m + 1] >= v[j]
          <6>1. v[i] \in Int /\ v[j] \in Int /\ v[m + 1] \in Int
            BY <2>1, <3>3
          <6> QED BY <3>2, <4>1, <4>3, <6>1
        <5> QED BY <3>3, <5>1
      <4> QED BY <4>2, <4>3
    <3>5. \E i \in 1..(m + 1) : \A j \in 1..(m + 1) : v[i] <= v[j]
      <4>1. PICK i \in 1..m : \A j \in 1..m : v[i] <= v[j]
        BY <3>1
      <4>2. CASE v[i] <= v[m + 1]
        BY <3>2, <3>3, <4>1, <4>2
      <4>3. CASE ~(v[i] <= v[m + 1])
        <5>1. ASSUME NEW j \in 1..(m + 1) PROVE v[m + 1] <= v[j]
          <6>1. v[i] \in Int /\ v[j] \in Int /\ v[m + 1] \in Int
            BY <2>1, <3>3
          <6> QED BY <3>2, <4>1, <4>3, <6>1
        <5> QED BY <3>3, <5>1
      <4> QED BY <4>2, <4>3
    <3> QED BY <2>1, <3>4, <3>5
  <2> QED BY <2>2, <2>3
<1>3. P(n)
  <2> HIDE DEF P
  <2>1. n \in Nat /\ n \in 0..n /\ n # 0
    OBVIOUS
  <2> HIDE DEF S
  <2>2. \A m \in 0..n : m \in S
    BY <1>1, <1>2, <2>1, UpTo
  <2> QED BY <2>1, <2>2 DEF S
<1>4. Max(V) \in V /\ \A y \in V : Max(V) >= y
  <2>1. \E x \in V : \A y \in V : x >= y
    BY <1>3
  <2> QED BY <2>1 DEF Max
<1>5. Min(V) \in V /\ \A y \in V : Min(V) <= y
  <2>1. \E x \in V : \A y \in V : x <= y
    BY <1>3
  <2> QED BY <2>1 DEF Min
<1>6. V \subseteq Int /\ \A i \in 1..n : v[i] \in V
  OBVIOUS
<1>7. ASSUME NEW i \in 1..n PROVE Min(V) <= v[i] /\ v[i] <= Max(V)
  <2> HIDE DEF V
  <2>1. Max(V) >= v[i] /\ Max(V) \in Int /\ v[i] \in Int /\ Min(V) <= v[i]
    BY <1>4, <1>5, <1>6
  <2> QED BY <2>1
<1> QED BY <1>4, <1>5, <1>7

\* Of two numbers.
LEMMA MinOfTwo ==
    ASSUME NEW x \in Int, NEW y \in Int
    PROVE  /\ Min({x, y}) \in {x, y} /\ Min({x, y}) <= x /\ Min({x, y}) <= y
           /\ x <= y => Min({x, y}) = x
           /\ y <= x => Min({x, y}) = y
<1>1. Min({x, y}) \in {x, y} /\ \A z \in {x, y} : Min({x, y}) <= z
  <2>1. \E m \in {x, y} : \A z \in {x, y} : m <= z
    <3>1. CASE x <= y
      BY <3>1
    <3>2. CASE ~(x <= y)
      BY <3>2
    <3> QED BY <3>1, <3>2
  <2> QED BY <2>1 DEF Min
<1>2. Min({x, y}) <= x /\ Min({x, y}) <= y /\ Min({x, y}) \in Int
  BY <1>1
<1>3. Min({x, y}) = x \/ Min({x, y}) = y
  BY <1>1
<1> QED BY <1>1, <1>2, <1>3

\* The greatest of some confidences.
LEMMA MaxConfidence ==
    ASSUME NEW S \in SUBSET Confidence, S # {}
    PROVE  Max(S) \in S /\ \A y \in S : y <= Max(S)
<1> DEFINE D == {One - x : x \in S}
<1>0. One \in Int /\ \A x \in S : x \in Int /\ 0 <= x /\ x <= One
  BY ConfidenceFacts
<1>1. D \in SUBSET Nat /\ D # {}
  BY <1>0
<1>2. PICK d \in D : \A e \in D : d <= e
  <2> HIDE DEF D
  <2> QED BY <1>1, LeastNat
<1>3. PICK m \in S : d = One - m
  BY <1>2
<1>4. ASSUME NEW y \in S PROVE y <= m
  <2>1. One - y \in D
    OBVIOUS
  <2>2. d <= One - y
    BY <1>2, <2>1
  <2> QED BY <1>0, <1>3, <2>2
<1>5. ASSUME NEW y \in S PROVE m >= y
  BY <1>0, <1>4
<1>6. Max(S) \in S /\ \A y \in S : Max(S) >= y
  BY <1>5 DEF Max
<1>7. ASSUME NEW y \in S PROVE y <= Max(S)
  BY <1>0, <1>6
<1> QED BY <1>6, <1>7

\* An agent's best report is as confident as each of its reports.
LEMMA BestFacts ==
    ASSUME NEW fs \in Seq(FindingType), NEW a \in AgentsOf(fs)
    PROVE  /\ Best(fs, a) \in Confidence
           /\ \A i \in DOMAIN fs : fs[i].agent = a => fs[i].confidence <= Best(fs, a)
<1> DEFINE S == {fs[i].confidence : i \in {j \in DOMAIN fs : fs[j].agent = a}}
<1>1. \A i \in DOMAIN fs : fs[i].confidence \in Confidence
  <2>1. \A i \in DOMAIN fs : fs[i] \in FindingType
    OBVIOUS
  <2> QED BY <2>1, FieldFacts
<1>2. S \in SUBSET Confidence /\ S # {}
  <2>1. \E i \in DOMAIN fs : fs[i].agent = a
    BY DEF AgentsOf
  <2> QED BY <1>1, <2>1
<1>3. \A i \in DOMAIN fs : fs[i].agent = a => fs[i].confidence \in S
  OBVIOUS
<1>4. Best(fs, a) = Max(S)
  BY DEF Best
<1> HIDE DEF S
<1>5. Max(S) \in S /\ \A y \in S : y <= Max(S)
  BY <1>2, MaxConfidence
<1> QED BY <1>2, <1>3, <1>4, <1>5

\* Agreement never costs confidence: the noisy-OR is a confidence, and but for
\* the cap no report of the cluster is more confident.
LEMMA NoisyOrFacts ==
    ASSUME NEW fs \in Seq(FindingType)
    PROVE  /\ NoisyOr(fs) \in Confidence
           /\ \A i \in DOMAIN fs : NoisyOr(fs) >= Min({AgreementCap, fs[i].confidence})
<1> DEFINE T == AgentsOf(fs)
           A == Confidence
           Op(a, p) == (p * (One - Best(fs, a))) \div One
           F == [a \in T |-> [p \in A |-> Op(a, p)]]
<1>0. \A i \in DOMAIN fs : fs[i] \in FindingType /\ fs[i].agent \in T
  BY DEF AgentsOf
<1>1. IsFiniteSet(T)
  <2>1. T \subseteq AgentType
    BY <1>0, FieldFacts DEF AgentsOf
  <2>2. IsFiniteSet(AgentType)
    <3>1. /\ IsFiniteSet({"security"}) /\ IsFiniteSet({"correctness"})
          /\ IsFiniteSet({"tests"}) /\ IsFiniteSet({"docs"})
      BY FS_Singleton
    <3>2. /\ IsFiniteSet({"security"} \cup {"correctness"})
          /\ IsFiniteSet({"tests"} \cup {"docs"})
      BY <3>1, FS_Union
    <3>3. IsFiniteSet(({"security"} \cup {"correctness"}) \cup ({"tests"} \cup {"docs"}))
      BY <3>2, FS_Union
    <3>4. AgentType = ({"security"} \cup {"correctness"}) \cup ({"tests"} \cup {"docs"})
      BY DEF AgentType
    <3> QED BY <3>3, <3>4
  <2> QED BY <2>1, <2>2, FS_Subset
<1>2. ASSUME NEW a \in T, NEW p \in A
      PROVE  Op(a, p) \in A /\ Op(a, p) <= p /\ Op(a, p) <= One - Best(fs, a)
  <2>1. One - Best(fs, a) \in Confidence
    <3>1. Best(fs, a) \in Confidence
      BY BestFacts
    <3>2. One - Best(fs, a) \in Int /\ 0 <= One - Best(fs, a) /\ One - Best(fs, a) <= One
      <4> DEFINE b == Best(fs, a)
      <4> HIDE DEF b
      <4>1. One \in Int /\ b \in Int /\ 0 <= b /\ b <= One
        BY <3>1, ConfidenceFacts DEF b
      <4>2. One - b \in Int /\ 0 <= One - b /\ One - b <= One
        BY <4>1
      <4> QED BY <4>2 DEF b
    <3> QED BY <3>2, ConfidenceFacts
  <2> QED BY <2>1, ShareFacts
<1> HIDE DEF T, Op, A
<1>z. One \in A /\ One \in Int
  BY ConfidenceFacts DEF A
<1>3. One \in A /\ F \in [T -> [A -> A]]
  BY <1>2, <1>z
<1>4. PICK g \in [SUBSET T -> A] : SetRecursion(g, T, One, F)
  <2> HIDE DEF F
  <2> QED BY <1>1, <1>3, SetFoldExists, Zenon
<1>5. ASSUME NEW s \in SUBSET T, s # {} PROVE AMember(s) \in s /\ AMember(s) \in T /\ s \ {AMember(s)} \in SUBSET T
  BY <1>5 DEF AMember
<1>6. ASSUME NEW s \in SUBSET T
      PROVE  g[s] = IF s = {} THEN One ELSE Op(AMember(s), g[s \ {AMember(s)}])
  <2>1. CASE s # {}
    <3>1. g[s \ {AMember(s)}] \in A
      BY <1>5, <2>1
    <3> QED BY <1>4, <1>5, <2>1, <3>1 DEF SetRecursion
  <2> QED BY <1>4, <2>1 DEF SetRecursion
<1>7. PICK h : /\ h = [s \in SUBSET T |->
                         IF s = {} THEN One ELSE Op(AMember(s), h[s \ {AMember(s)}])]
               /\ NoisyOr(fs) = Min({AgreementCap, One - h[T]})
  <2>1. g = [s \in SUBSET T |-> IF s = {} THEN One ELSE Op(AMember(s), g[s \ {AMember(s)}])]
    <3> HIDE DEF F
    <3> QED BY <1>6
  <2> QED BY <2>1, Zenon DEF NoisyOr, FoldSet, MapThenFoldSet, AMember, Op, T
<1> DEFINE n == Cardinality(T)
           Good(s) == h[s] \in A /\ \A a \in s : h[s] <= One - Best(fs, a)
           S == {m \in 0..n : \A s \in SUBSET T : Cardinality(s) <= m => Good(s)}
<1>8. n \in Nat
  BY <1>1, FS_CardinalityType
<1>9. ASSUME NEW s \in SUBSET T, s # {}
      PROVE  /\ IsFiniteSet(s) /\ Cardinality(s) \in Nat
             /\ Cardinality(s \ {AMember(s)}) = Cardinality(s) - 1
             /\ h[s] = Op(AMember(s), h[s \ {AMember(s)}])
  <2>1. IsFiniteSet(s)
    BY <1>1, FS_Subset
  <2> QED BY <1>5, <1>7, <1>9, <2>1, FS_CardinalityType, FS_RemoveElement
<1>10. Good({})
  <2>1. h[{}] = One
    BY <1>7
  <2> QED BY <1>z, <2>1
<1>11. ASSUME NEW s \in SUBSET T, s # {}, Good(s \ {AMember(s)}) PROVE Good(s)
  <2> DEFINE r == s \ {AMember(s)}
  <2>1. h[s] = Op(AMember(s), h[r])
    BY <1>9, <1>11
  <2>2. h[r] \in A /\ \A a \in r : h[r] <= One - Best(fs, a)
    BY <1>11
  <2>3. h[s] \in A /\ h[s] <= h[r] /\ h[s] <= One - Best(fs, AMember(s))
    BY <1>2, <1>5, <1>11, <2>1, <2>2
  <2>4. ASSUME NEW a \in s PROVE h[s] <= One - Best(fs, a)
    <3>1. CASE a = AMember(s)
      BY <2>3, <3>1
    <3>2. CASE a # AMember(s)
      <4>1. a \in r /\ Best(fs, a) \in Confidence
        BY <3>2, BestFacts DEF T
      <4>2. h[r] <= One - Best(fs, a) /\ h[s] <= h[r]
        BY <2>2, <2>3, <4>1
      <4>3. h[r] \in Int /\ h[s] \in Int /\ Best(fs, a) \in Int
        BY <2>2, <2>3, <4>1, ConfidenceFacts DEF A
      <4> QED BY <1>z, <4>2, <4>3
    <3> QED BY <3>1, <3>2
  <2> QED BY <2>3, <2>4
<1> HIDE DEF n, Good
<1>12. 0 \in S
  <2>1. ASSUME NEW s \in SUBSET T, Cardinality(s) <= 0 PROVE Good(s)
    <3>1. CASE s = {}
      BY <1>10, <3>1
    <3>2. CASE s # {}
      <4>1. Cardinality(s) \in Nat /\ Cardinality(s \ {AMember(s)}) = Cardinality(s) - 1
        BY <1>9, <3>2
      <4>2. IsFiniteSet(s \ {AMember(s)})
        BY <1>1, FS_Subset
      <4>3. Cardinality(s \ {AMember(s)}) \in Nat
        BY <4>2, FS_CardinalityType
      <4> QED BY <2>1, <4>1, <4>3
    <3> QED BY <3>1, <3>2
  <2> QED BY <1>8, <2>1
<1>13. ASSUME NEW m \in 0..(n - 1), m \in S PROVE m + 1 \in S
  <2>0. m \in Nat /\ m + 1 \in 0..n
    BY <1>8
  <2>1. ASSUME NEW s \in SUBSET T, Cardinality(s) <= m + 1 PROVE Good(s)
    <3>1. CASE s = {}
      BY <1>10, <3>1
    <3>2. CASE s # {}
      <4>1. Cardinality(s) \in Nat /\ Cardinality(s \ {AMember(s)}) = Cardinality(s) - 1
        BY <1>9, <3>2
      <4>2. Cardinality(s \ {AMember(s)}) <= m /\ s \ {AMember(s)} \in SUBSET T
        BY <2>0, <2>1, <4>1
      <4>3. Good(s \ {AMember(s)})
        BY <1>13, <4>2
      <4> QED BY <1>11, <3>2, <4>3
    <3> QED BY <3>1, <3>2
  <2> QED BY <2>0, <2>1
<1>14. Good(T)
  <2>1. n \in S
    <3> HIDE DEF S
    <3>1. \A m \in 0..n : m \in S
      BY <1>8, <1>12, <1>13, UpTo
    <3> QED BY <1>8, <3>1
  <2>2. T \in SUBSET T /\ Cardinality(T) <= n
    BY <1>8 DEF n
  <2> QED BY <2>1, <2>2
<1> DEFINE miss == h[T]
<1>15. miss \in Int /\ 0 <= miss /\ miss <= One /\ \A a \in T : miss <= One - Best(fs, a)
  BY <1>14, ConfidenceFacts DEF Good, A
<1> HIDE DEF miss
<1>16. NoisyOr(fs) = Min({AgreementCap, One - miss})
  BY <1>7 DEF miss
<1>17. AgreementCap \in Int /\ 0 <= AgreementCap /\ AgreementCap <= One /\ One \in Int
       /\ One - miss \in Int /\ One - miss >= 0 /\ One - miss <= One
  BY <1>15, ConfidenceFacts DEF AgreementCap, One
<1>18. /\ NoisyOr(fs) \in {AgreementCap, One - miss}
  BY <1>16, <1>17, MinOfTwo
<1>19. ASSUME NEW i \in DOMAIN fs PROVE NoisyOr(fs) >= Min({AgreementCap, fs[i].confidence})
  <2>1. fs[i].confidence \in Int /\ fs[i].agent \in T
    BY <1>0, FieldFacts
  <2>2. Best(fs, fs[i].agent) \in Int /\ fs[i].confidence <= Best(fs, fs[i].agent)
    BY <2>1, BestFacts, ConfidenceFacts DEF T
  <2>3. miss <= One - Best(fs, fs[i].agent)
    BY <1>15, <2>1
  <2>4. fs[i].confidence <= One - miss
    BY <1>15, <1>17, <2>1, <2>2, <2>3
  <2> DEFINE x == fs[i].confidence
             y == Min({AgreementCap, x})
  <2>0. SUFFICES NoisyOr(fs) >= y
    OBVIOUS
  <2>5. y \in {AgreementCap, x} /\ y <= AgreementCap /\ y <= x
    <3>1. x \in Int
      BY <2>1
    <3> HIDE DEF x
    <3> QED BY <1>17, <3>1, MinOfTwo
  <2> HIDE DEF y
  <2>6. y \in Int
    BY <1>17, <2>1, <2>5
  <2> HIDE DEF x
  <2>7. CASE NoisyOr(fs) = AgreementCap
    BY <1>17, <2>5, <2>6, <2>7
  <2>8. CASE NoisyOr(fs) = One - miss
    <3>1. x \in Int /\ x <= One - miss
      BY <2>1, <2>4 DEF x
    <3> QED BY <1>17, <2>5, <2>6, <2>8, <3>1
  <2> QED BY <1>18, <2>7, <2>8
<1>20. NoisyOr(fs) \in Confidence
  BY <1>17, <1>18, ConfidenceFacts
<1> QED BY <1>19, <1>20

-----------------------------------------------------------------------------
(* Collapsing a cluster *)

\* The ranks of findings are numbers, and order them by severity first and by
\* confidence among those of a severity.
LEMMA RankFacts ==
    ASSUME NEW f \in FindingType, NEW g \in FindingType
    PROVE  /\ Rank(f) \in Int
           /\ Rank(g) >= Rank(f) =>
                \/ SeverityIndex(g.severity) > SeverityIndex(f.severity)
                \/ g.severity = f.severity /\ g.confidence >= f.confidence
<1> DEFINE i == SeverityIndex(f.severity)
           j == SeverityIndex(g.severity)
           x == f.confidence
           y == g.confidence
<1>1. i \in 1..4 /\ j \in 1..4 /\ (i = j => g.severity = f.severity)
  BY FieldFacts, SeverityFacts
<1>2. x \in Int /\ 0 <= x /\ x <= 10000 /\ y \in Int /\ 0 <= y /\ y <= 10000
  BY FieldFacts, ConfidenceFacts DEF One
<1>3. Rank(f) = 100000 * i + x /\ Rank(g) = 100000 * j + y
  BY DEF Rank
<1> HIDE DEF i, j, x, y
<1>4. Rank(f) \in Int
  BY <1>1, <1>2, <1>3
<1>5. ASSUME 100000 * j + y >= 100000 * i + x PROVE j > i \/ (i = j /\ y >= x)
  BY <1>1, <1>2, <1>5
<1> QED BY <1>1, <1>3, <1>4, <1>5 DEF i, j, x, y

\* There is a first finding of the highest rank.
LEMMA PrimaryFacts ==
    ASSUME NEW fs \in Seq(FindingType), fs # <<>>
    PROVE  /\ PrimaryIndex(fs) \in DOMAIN fs /\ Primary(fs) \in FindingType
           /\ Primary(fs) = fs[PrimaryIndex(fs)]
           /\ \A j \in DOMAIN fs : Rank(Primary(fs)) >= Rank(fs[j])
<1> DEFINE n == Len(fs)
           v == [i \in 1..n |-> Rank(fs[i])]
           m == Max({v[k] : k \in 1..n})
           H == {i \in 1..n : v[i] = m}
           First(i) == \A j \in DOMAIN fs : \/ Rank(fs[i]) > Rank(fs[j])
                                            \/ Rank(fs[i]) = Rank(fs[j]) /\ i <= j
<1>1. n \in Nat \ {0} /\ DOMAIN fs = 1..n /\ \A i \in 1..n : fs[i] \in FindingType
  OBVIOUS
<1>2. \A i \in 1..n : Rank(fs[i]) \in Int
  BY <1>1, RankFacts
<1> HIDE DEF n
<1>3. v \in [1..n -> Int] /\ \A i \in 1..n : v[i] = Rank(fs[i])
  BY <1>2
<1> HIDE DEF v
<1>4. (\E i \in 1..n : m = v[i]) /\ \A i \in 1..n : v[i] <= m
  BY <1>1, <1>3, Extremes
<1> HIDE DEF m
<1>5. H \in SUBSET Nat /\ H # {}
  <2>1. PICK i \in 1..n : m = v[i]
    BY <1>4
  <2>2. i \in H
    BY <2>1
  <2> QED BY <1>1, <2>2
<1>6. PICK h \in H : \A j \in H : h <= j
  <2> HIDE DEF H
  <2> QED BY <1>5, LeastNat
<1>7. h \in DOMAIN fs /\ v[h] = m
  BY <1>1, <1>6
<1>8. First(h)
  <2>1. ASSUME NEW j \in 1..n
        PROVE  Rank(fs[h]) > Rank(fs[j]) \/ (Rank(fs[h]) = Rank(fs[j]) /\ h <= j)
    <3>1. CASE v[j] = m
      <4>1. j \in H
        BY <3>1
      <4> QED BY <1>1, <1>3, <1>6, <1>7, <3>1, <4>1
    <3>2. CASE v[j] # m
      BY <1>1, <1>2, <1>3, <1>4, <1>7, <3>2
    <3> QED BY <3>1, <3>2
  <2> QED BY <1>1, <2>1
<1>9. PrimaryIndex(fs) \in DOMAIN fs /\ First(PrimaryIndex(fs))
  <2>1. PrimaryIndex(fs) = CHOOSE i \in DOMAIN fs : First(i)
    BY DEF PrimaryIndex
  <2> HIDE DEF First
  <2> QED BY <1>7, <1>8, <2>1
<1>10. Primary(fs) = fs[PrimaryIndex(fs)]
  BY DEF Primary
<1>11. ASSUME NEW j \in DOMAIN fs PROVE Rank(fs[PrimaryIndex(fs)]) >= Rank(fs[j])
  BY <1>1, <1>2, <1>9
<1> QED BY <1>1, <1>9, <1>10, <1>11

\* The first pieces of a list, n at most.
LEMMA FirstNFacts ==
    ASSUME NEW E, NEW s \in Seq(E), NEW n \in Nat
    PROVE  /\ FirstN(s, n) \in Seq(E) /\ Len(FirstN(s, n)) <= n
           /\ \A i \in DOMAIN s : i <= n => i \in DOMAIN FirstN(s, n) /\ FirstN(s, n)[i] = s[i]
<1> DEFINE m == Min({n, Len(s)})
<1>1. m \in 0..Len(s) /\ m <= n /\ (m = n \/ m = Len(s))
  <2>1. n \in Int /\ Len(s) \in Int /\ Len(s) >= 0
    OBVIOUS
  <2>2. Min({n, Len(s)}) \in {n, Len(s)} /\ Min({n, Len(s)}) <= n /\ Min({n, Len(s)}) <= Len(s)
    BY <2>1, MinOfTwo
  <2> QED BY <2>1, <2>2
<1>2. FirstN(s, n) = SubSeq(s, 1, m)
  BY DEF FirstN
<1> HIDE DEF m
<1>3. /\ SubSeq(s, 1, m) \in Seq(E) /\ Len(SubSeq(s, 1, m)) = m
      /\ \A i \in 1..m : SubSeq(s, 1, m)[i] = s[i]
  BY <1>1
<1>4. ASSUME NEW i \in DOMAIN s, i <= n PROVE i \in 1..m
  BY <1>1, <1>4
<1> QED BY <1>1, <1>2, <1>3, <1>4

\* The distinct citations are citations.
LEMMA DistinctFacts ==
    ASSUME NEW E, NEW all \in Seq(E)
    PROVE  Distinct(all) \in Seq(E)
<1> DEFINE ids == [i \in DOMAIN all |-> i]
           n == Len(ids)
           A == Seq(E)
           Add(out, x) == IF \A j \in 1..(x - 1) :
                              <<all[j].file_path, all[j].line_start, all[j].excerpt>>
                                # <<all[x].file_path, all[x].line_start, all[x].excerpt>>
                           THEN Append(out, all[x]) ELSE out
           F == [i \in 1..n |-> [out \in A |-> Add(out, ids[i])]]
<1>1. n \in Nat /\ DOMAIN ids = 1..n /\ \A i \in 1..n : ids[i] \in DOMAIN all
  OBVIOUS
<1>2. ASSUME NEW i \in 1..n, NEW out \in A PROVE Add(out, ids[i]) \in A
  BY <1>1
<1>0. <<>> \in A
  OBVIOUS
<1> HIDE DEF n, A, ids
<1>3. F \in [1..n -> [A -> A]]
  BY <1>2
<1>4. PICK g \in [SUBSET (1..n) -> A] : Recursion(g, n, <<>>, F)
  <2> HIDE DEF F
  <2> QED BY <1>0, <1>1, <1>3, FoldExists, Zenon
<1>5. ASSUME NEW q \in SUBSET (1..n)
      PROVE  g[q] = IF q = {} THEN <<>> ELSE Add(g[q \ {Max(q)}], ids[Max(q)])
  <2>1. CASE q # {}
    <3>1. Max(q) \in 1..n
      BY <1>1, <2>1, MaxFacts
    <3>2. g[q \ {Max(q)}] \in A
      OBVIOUS
    <3> QED BY <1>4, <2>1, <3>1, <3>2 DEF Recursion
  <2> QED BY <1>4, <2>1 DEF Recursion
<1>6. PICK h : /\ h = [q \in SUBSET (1..n) |->
                         IF q = {} THEN <<>> ELSE Add(h[q \ {Max(q)}], ids[Max(q)])]
               /\ Distinct(all) = h[1..n]
  <2>1. DOMAIN ids = 1..n
    BY <1>1
  <2>2. g = [q \in SUBSET (1..n) |->
               IF q = {} THEN <<>> ELSE Add(g[q \ {Max(q)}], ids[Max(q)])]
    <3> HIDE DEF F
    <3> QED BY <1>5
  <2>3. Distinct(all) = FoldLeft(Add, <<>>, ids)
    BY Zenon DEF Distinct, FoldLeftDomain, ids
  <2> HIDE DEF Add
  <2> QED BY <2>1, <2>2, <2>3, Zenon DEF FoldLeft, MapThenFoldSet
<1>7. ASSUME NEW q \in SUBSET (1..n), q # {}, h[q \ {Max(q)}] \in A
      PROVE  h[q] = F[Max(q)][h[q \ {Max(q)}]]
  <2>1. Max(q) \in 1..n
    BY <1>1, <1>7, MaxFacts
  <2>2. h[q] = Add(h[q \ {Max(q)}], ids[Max(q)])
    BY <1>6, <1>7
  <2> QED BY <1>7, <2>1, <2>2
<1>8. PICK c : Chain(c, n, A, <<>>, F, h[1..n])
  <2> HIDE DEF F
  <2>1. Unfolds(h, n, A, <<>>, F)
    BY <1>6, <1>7 DEF Unfolds
  <2> QED BY <1>0, <1>1, <1>3, <2>1, FoldChain, Zenon
<1>10. c \in [0..n -> A] /\ c[0] = <<>> /\ c[n] = Distinct(all)
  <2> HIDE DEF F
  <2> QED BY <1>6, <1>8 DEF Chain
<1> HIDE DEF F
<1>11. Distinct(all) \in A
  BY <1>1, <1>10
<1> QED BY <1>11 DEF A

\* A cluster cites what its findings cite, in six places at most.
LEMMA DedupeFacts ==
    ASSUME NEW fs \in Seq(FindingType)
    PROVE  dedupe_evidence(fs) \in Seq(EvidenceType) /\ Len(dedupe_evidence(fs)) <= 6
<1> DEFINE all == AllEvidence(fs)
<1>1. all \in Seq(EvidenceType)
  <2>1. \A f \in FindingType : f.evidence \in Seq(EvidenceType)
    BY FieldFacts
  <2>2. PICK c \in [0..Len(fs) -> Seq(EvidenceType)] : c[Len(fs)] = AllEvidence(fs)
    BY <2>1, AllEvidenceChain
  <2>3. Len(fs) \in 0..Len(fs)
    OBVIOUS
  <2> QED BY <2>2, <2>3
<1> HIDE DEF all
<1>2. Distinct(all) \in Seq(EvidenceType)
  BY <1>1, DistinctFacts
<1>3. dedupe_evidence(fs) = FirstN(Distinct(all), 6)
  BY DEF dedupe_evidence, all
<1> QED BY <1>2, <1>3, FirstNFacts

\* A finding with some of its fields changed.
Updated(P, c, ag, cats, ls, le, ev) ==
    [P EXCEPT !.confidence = c, !.agreeing = ag, !.categories = cats,
              !.line_start = ls, !.line_end = le, !.evidence = ev]

\* It is a finding, and keeps the others.
LEMMA UpdateFacts ==
    ASSUME NEW P \in FindingType, NEW c \in Confidence, NEW ag \in SUBSET AgentType,
           NEW cats \in SUBSET Category, NEW ls \in Int, NEW le \in Int,
           NEW ev \in Seq(EvidenceType), NEW g, g = Updated(P, c, ag, cats, ls, le, ev)
    PROVE  /\ g \in FindingType
           /\ g.agent = P.agent /\ g.category = P.category /\ g.severity = P.severity
           /\ g.title = P.title /\ g.file_path = P.file_path
           /\ g.confidence = c /\ g.agreeing = ag /\ g.line_start = ls /\ g.line_end = le
           /\ g.evidence = ev /\ g.categories = cats
BY DEF FindingType, Updated

\* A recommendation that may be folded, and a title with that said in it.
Recommends(f) == f.category \in COLLAPSIBLE_CATEGORIES

Titled(g, f) == g.title = f.title \/ (Recommends(f) /\ g.title = AndMore(f.title))

\* g reports what f does, on lines that hold f's.
Tells(g, f) ==
    /\ g.agent = f.agent /\ g.category = f.category /\ g.severity = f.severity
    /\ Titled(g, f) /\ g.file_path = f.file_path
    /\ g.line_start <= f.line_start /\ f.line_end <= g.line_end

\* f is part of what g says: g is f, or has f's category among its own.
Names(g, f) == g = f \/ f.category \in g.categories

\* Whoever agrees with g is one of the agents of fs, and said so on lines of g's.
Agreed(g, fs) ==
    \A a \in g.agreeing : \E i \in DOMAIN fs :
        /\ fs[i].agent = a /\ fs[i].file_path = g.file_path
        /\ g.line_start <= fs[i].line_start /\ fs[i].line_end <= g.line_end

\* A fold that has no room for another place.
Full(g) == "more" \in g.title /\ Len(g.evidence) = 12

Spans(g, f) == g.line_start <= f.line_start /\ f.line_end <= g.line_end

\* g is as bad as f: more severe, or as severe and as confident, up to the cap.
AsBad(g, f) ==
    \/ SeverityIndex(g.severity) > SeverityIndex(f.severity)
    \/ /\ g.severity = f.severity
       /\ g.confidence >= Min({AgreementCap, f.confidence})

\* The cap takes nothing away from what is as confident without it.
LEMMA CapFacts ==
    ASSUME NEW x \in Int, NEW y \in Int, y >= x
    PROVE  y >= Min({AgreementCap, x}) /\ Min({AgreementCap, x}) \in Int
<1>1. AgreementCap \in Int
  BY DEF AgreementCap
<1>2. Min({AgreementCap, x}) \in {AgreementCap, x} /\ Min({AgreementCap, x}) <= x
  BY <1>1, MinOfTwo
<1>3. Min({AgreementCap, x}) \in Int
  BY <1>1, <1>2
<1> QED BY <1>2, <1>3

\* A collapsed cluster is a finding: what the worst of its members reports, on
\* lines that hold every member's, as bad as any of them, and agreed on by the
\* agents of the cluster and nobody else.
LEMMA CollapseFacts ==
    ASSUME NEW fs \in Seq(FindingType), fs # <<>>
    PROVE  /\ collapse(fs) \in FindingType
           /\ \E p \in DOMAIN fs : Tells(collapse(fs), fs[p])
           /\ \A i \in DOMAIN fs : Spans(collapse(fs), fs[i]) /\ AsBad(collapse(fs), fs[i])
           /\ collapse(fs).agreeing \in {AgentsOf(fs), fs[1].agreeing}
           /\ \A i \in DOMAIN fs : Names(collapse(fs), fs[i])
           /\ Len(collapse(fs).evidence) <= 6 \/ collapse(fs).evidence = fs[1].evidence
<1> DEFINE n == Len(fs)
           P == Primary(fs)
           q == PrimaryIndex(fs)
<1>1. /\ n \in Nat \ {0} /\ DOMAIN fs = 1..n /\ 1 \in DOMAIN fs
      /\ \A i \in 1..n : fs[i] \in FindingType
  OBVIOUS
<1>2. \A i \in 1..n : /\ fs[i].line_start \in Int /\ fs[i].line_end \in Int
                      /\ fs[i].confidence \in Int /\ fs[i].agent \in AgentType
                      /\ fs[i].category \in Category
  BY <1>1, FieldFacts
<1>3. CASE n = 1
  <2>1. collapse(fs) = fs[1]
    BY <1>3 DEF collapse
  <2>2. \A i \in DOMAIN fs : i = 1
    BY <1>1, <1>3
  <2>3. Tells(fs[1], fs[1]) /\ Spans(fs[1], fs[1]) /\ Names(fs[1], fs[1])
    BY <1>1, <1>2 DEF Tells, Titled, Spans, Names
  <2>4. AsBad(fs[1], fs[1])
    <3>1. fs[1].confidence \in Int
      BY <1>1, <1>2
    <3>2. fs[1].confidence >= Min({AgreementCap, fs[1].confidence})
      BY <3>1, CapFacts
    <3> QED BY <3>2 DEF AsBad
  <2> QED BY <1>1, <2>1, <2>2, <2>3, <2>4
<1>4. CASE n # 1
  <2> DEFINE c    == IF Cardinality(AgentsOf(fs)) > 1 THEN NoisyOr(fs) ELSE P.confidence
             ag   == AgentsOf(fs)
             cats == {fs[i].category : i \in DOMAIN fs}
             ls   == Min({fs[i].line_start : i \in DOMAIN fs})
             le   == Max({fs[i].line_end : i \in DOMAIN fs})
             ev   == dedupe_evidence(fs)
             g    == collapse(fs)
  <2>1. /\ q \in DOMAIN fs /\ P \in FindingType /\ P = fs[q]
        /\ \A j \in DOMAIN fs : Rank(P) >= Rank(fs[j])
    BY PrimaryFacts
  <2>2. g = Updated(P, c, ag, cats, ls, le, ev)
    BY <1>4 DEF collapse, Updated
  <2>3. ag \in SUBSET AgentType /\ cats \in SUBSET Category
    BY <1>1, <1>2 DEF AgentsOf
  <2>4. /\ NoisyOr(fs) \in Confidence /\ P.confidence \in Confidence
        /\ \A i \in DOMAIN fs : NoisyOr(fs) >= Min({AgreementCap, fs[i].confidence})
    BY <2>1, NoisyOrFacts, FieldFacts
  <2>5. c \in Confidence
    BY <2>4
  <2>6. ls \in Int /\ \A i \in DOMAIN fs : ls <= fs[i].line_start
    <3> DEFINE v == [i \in 1..n |-> fs[i].line_start]
    <3>1. v \in [1..n -> Int] /\ \A i \in 1..n : v[i] = fs[i].line_start
      BY <1>2
    <3>2. {fs[i].line_start : i \in DOMAIN fs} = {v[i] : i \in 1..n}
      BY <1>1, <3>1
    <3> HIDE DEF n, v
    <3>3. /\ \E i \in 1..n : Min({v[k] : k \in 1..n}) = v[i]
          /\ \A i \in 1..n : Min({v[k] : k \in 1..n}) <= v[i]
      BY <1>1, <3>1, Extremes
    <3> QED BY <1>1, <3>1, <3>2, <3>3
  <2>7. le \in Int /\ \A i \in DOMAIN fs : fs[i].line_end <= le
    <3> DEFINE v == [i \in 1..n |-> fs[i].line_end]
    <3>1. v \in [1..n -> Int] /\ \A i \in 1..n : v[i] = fs[i].line_end
      BY <1>2
    <3>2. {fs[i].line_end : i \in DOMAIN fs} = {v[i] : i \in 1..n}
      BY <1>1, <3>1
    <3> HIDE DEF n, v
    <3>3. /\ \E i \in 1..n : Max({v[k] : k \in 1..n}) = v[i]
          /\ \A i \in 1..n : v[i] <= Max({v[k] : k \in 1..n})
      BY <1>1, <3>1, Extremes
    <3> QED BY <1>1, <3>1, <3>2, <3>3
  <2>8. ev \in Seq(EvidenceType) /\ Len(ev) <= 6
    BY DedupeFacts
  <2> HIDE DEF P, q, c, ag, cats, ls, le, ev, g
  <2>9. /\ g \in FindingType
        /\ g.agent = P.agent /\ g.category = P.category /\ g.severity = P.severity
        /\ g.title = P.title /\ g.file_path = P.file_path
        /\ g.confidence = c /\ g.agreeing = ag /\ g.line_start = ls /\ g.line_end = le
        /\ g.evidence = ev /\ g.categories = cats
    <3>1. ls \in Int /\ le \in Int
      BY <2>6, <2>7
    <3> QED BY <2>1, <2>2, <2>3, <2>5, <2>8, <3>1, UpdateFacts
  <2>10. Tells(g, fs[q])
    BY <2>1, <2>6, <2>7, <2>9 DEF Tells, Titled
  <2>11. ASSUME NEW i \in DOMAIN fs PROVE Spans(g, fs[i]) /\ AsBad(g, fs[i])
    <3>1. Spans(g, fs[i])
      BY <2>6, <2>7, <2>9 DEF Spans
    <3>2. fs[i] \in FindingType /\ Rank(P) >= Rank(fs[i])
      BY <1>1, <2>1
    <3>3. \/ SeverityIndex(P.severity) > SeverityIndex(fs[i].severity)
          \/ P.severity = fs[i].severity /\ P.confidence >= fs[i].confidence
      BY <2>1, <3>2, RankFacts
    <3>4. ASSUME P.confidence >= fs[i].confidence
          PROVE  g.confidence >= Min({AgreementCap, fs[i].confidence})
      <4>1. CASE Cardinality(AgentsOf(fs)) > 1
        <5>1. c = NoisyOr(fs)
          BY <4>1 DEF c
        <5> QED BY <2>4, <2>9, <5>1
      <4>2. CASE ~(Cardinality(AgentsOf(fs)) > 1)
        <5>1. c = P.confidence
          BY <4>2 DEF c
        <5>2. P.confidence \in Int /\ fs[i].confidence \in Int
          BY <2>1, <3>2, FieldFacts
        <5>3. P.confidence >= Min({AgreementCap, fs[i].confidence})
          BY <3>4, <5>2, CapFacts
        <5> QED BY <2>9, <5>1, <5>3
      <4> QED BY <4>1, <4>2
    <3>5. AsBad(g, fs[i])
      BY <2>9, <3>3, <3>4 DEF AsBad
    <3> QED BY <3>1, <3>5
  <2>12. g.agreeing = AgentsOf(fs)
    BY <2>9 DEF ag
  <2>13. ASSUME NEW i \in DOMAIN fs PROVE Names(g, fs[i])
    BY <2>9 DEF Names, cats
  <2> QED BY <2>1, <2>8, <2>9, <2>10, <2>11, <2>12, <2>13 DEF g
<1> QED BY <1>3, <1>4

-----------------------------------------------------------------------------
(* Folding a repeated recommendation *)

\* Without its member at p, a list holds every other member.
LEMMA RemoveAtFacts ==
    ASSUME NEW X, NEW s \in Seq(X), NEW p \in DOMAIN s
    PROVE  /\ RemoveAt(s, p) \in Seq(X) /\ Len(RemoveAt(s, p)) = Len(s) - 1
           /\ \A i \in DOMAIN s : i # p => \E j \in DOMAIN RemoveAt(s, p) : RemoveAt(s, p)[j] = s[i]
<1> DEFINE n == Len(s)
           a == SubSeq(s, 1, p - 1)
           b == SubSeq(s, p + 1, n)
           r == RemoveAt(s, p)
<1>1. n \in Nat /\ p \in 1..n /\ DOMAIN s = 1..n
  OBVIOUS
<1>2. r = a \o b
  BY DEF RemoveAt
<1>3. /\ a \in Seq(X) /\ Len(a) = p - 1 /\ \A i \in 1..(p - 1) : a[i] = s[i]
  BY <1>1
<1>4. /\ b \in Seq(X) /\ Len(b) = n - p /\ \A i \in 1..(n - p) : b[i] = s[p + i]
  BY <1>1
<1> HIDE DEF a, b, r
<1>5. /\ r \in Seq(X) /\ Len(r) = n - 1 /\ DOMAIN r = 1..(n - 1)
      /\ \A i \in 1..(p - 1) : r[i] = a[i]
      /\ \A i \in 1..(n - p) : r[(p - 1) + i] = b[i]
  <2>1. DOMAIN a = 1..(p - 1) /\ DOMAIN b = 1..(n - p)
    BY <1>1, <1>3, <1>4
  <2>2. /\ r \in Seq(X) /\ Len(r) = Len(a) + Len(b)
        /\ \A i \in DOMAIN a : r[i] = a[i]
        /\ \A i \in DOMAIN b : r[Len(a) + i] = b[i]
    <3>1. a \in Seq(X) /\ b \in Seq(X)
      BY <1>3, <1>4
    <3>2. /\ a \o b \in Seq(X) /\ Len(a \o b) = Len(a) + Len(b)
          /\ \A i \in DOMAIN a : (a \o b)[i] = a[i]
          /\ \A i \in DOMAIN b : (a \o b)[Len(a) + i] = b[i]
      BY <3>1, ConcatFacts
    <3> QED BY <1>2, <3>2
  <2>3. Len(r) = n - 1 /\ DOMAIN r = 1..Len(r)
    BY <1>1, <1>3, <1>4, <2>2
  <2> QED BY <1>3, <2>1, <2>2, <2>3
<1>6. ASSUME NEW i \in DOMAIN s, i # p PROVE \E j \in DOMAIN r : r[j] = s[i]
  <2>1. CASE i < p
    <3>1. i \in 1..(p - 1) /\ i \in 1..(n - 1)
      BY <1>1, <2>1
    <3> QED BY <1>3, <1>5, <3>1
  <2>2. CASE i > p
    <3>1. i - p \in 1..(n - p) /\ i - 1 \in 1..(n - 1) /\ (p - 1) + (i - p) = i - 1 /\ p + (i - p) = i
      BY <1>1, <2>2
    <3>2. r[i - 1] = s[i]
      BY <1>4, <1>5, <3>1
    <3> QED BY <1>5, <3>1, <3>2
  <2> QED BY <1>1, <1>6, <2>1, <2>2
<1> QED BY <1>5, <1>6 DEF r

\* A place that stands in the evidence.
Cites(g, f) == \E e \in DOMAIN g.evidence :
    /\ g.evidence[e].file_path = f.file_path
    /\ g.evidence[e].line_start = f.line_start /\ g.evidence[e].line_end = f.line_end

\* A folded group is its worst member, as confident as any, and cites the place
\* of every other one unless that takes more than twelve pieces of evidence.
LEMMA FoldFacts ==
    ASSUME NEW fs \in Seq(FindingType), fs # <<>>, \A i \in DOMAIN fs : Recommends(fs[i])
    PROVE  /\ fold(fs) \in FindingType
           /\ "more" \in fold(fs).title
           /\ \E p \in DOMAIN fs :
                /\ Tells(fold(fs), fs[p]) /\ fold(fs).agreeing = fs[p].agreeing
                /\ \/ \A i \in DOMAIN fs : i = p \/ Cites(fold(fs), fs[i])
                   \/ Len(fs[p].evidence) + Len(fs) > 13 /\ Len(fold(fs).evidence) = 12
           /\ \A i \in DOMAIN fs : AsBad(fold(fs), fs[i])
<1> DEFINE n  == Len(fs)
           P  == Primary(fs)
           q  == PrimaryIndex(fs)
           others   == RemoveAt(fs, q)
           Cited(f) == [file_path |-> f.file_path, line_start |-> f.line_start,
                        line_end |-> f.line_end, excerpt |-> f.title]
           cs == [i \in DOMAIN others |-> Cited(others[i])]
           c  == Max({fs[i].confidence : i \in DOMAIN fs})
           ev == FirstN(P.evidence \o cs, 12)
           g  == fold(fs)
<1>1. /\ n \in Nat \ {0} /\ DOMAIN fs = 1..n
      /\ \A i \in 1..n : fs[i] \in FindingType
  OBVIOUS
<1>2. /\ q \in DOMAIN fs /\ P \in FindingType /\ P = fs[q]
      /\ \A j \in DOMAIN fs : Rank(P) >= Rank(fs[j])
  BY PrimaryFacts
<1>3. /\ others \in Seq(FindingType) /\ Len(others) = n - 1
      /\ \A i \in DOMAIN fs : i # q => \E j \in DOMAIN others : others[j] = fs[i]
  <2> HIDE DEF q
  <2> QED BY <1>2, RemoveAtFacts
<1>4. c \in Confidence /\ \A i \in DOMAIN fs : fs[i].confidence <= c
  <2> DEFINE S == {fs[i].confidence : i \in DOMAIN fs}
  <2>1. \A i \in DOMAIN fs : fs[i].confidence \in Confidence
    BY <1>1, FieldFacts
  <2>2. S \in SUBSET Confidence /\ S # {} /\ \A i \in DOMAIN fs : fs[i].confidence \in S
    BY <1>2, <2>1
  <2> HIDE DEF S
  <2>3. Max(S) \in S /\ \A y \in S : y <= Max(S)
    BY <2>2, MaxConfidence
  <2>4. Max(S) \in Confidence /\ \A i \in DOMAIN fs : fs[i].confidence <= Max(S)
    BY <2>2, <2>3
  <2> QED BY <2>4 DEF S
<1>5. g = [P EXCEPT !.title = AndMore(@), !.confidence = c, !.evidence = ev]
  BY <1>2 DEF fold, FindingType
<1> HIDE DEF n, P, q, others, c, g
<1>6. \A f \in FindingType : Cited(f) \in EvidenceType
  <2>1. \A f \in FindingType : /\ f.file_path \in Int /\ f.line_start \in Int
                               /\ f.line_end \in Int /\ f.title \in SUBSET Word
    BY FieldFacts
  <2> QED BY <2>1 DEF EvidenceType
<1> HIDE DEF Cited
<1>7. /\ cs \in Seq(EvidenceType) /\ Len(cs) = n - 1 /\ DOMAIN cs = DOMAIN others
      /\ \A j \in DOMAIN others : cs[j] = Cited(others[j])
  BY <1>1, <1>3, <1>6
<1> HIDE DEF cs
<1> DEFINE all == P.evidence \o cs
           m   == Len(P.evidence)
<1>8. P.evidence \in Seq(EvidenceType) /\ m \in Nat
  BY <1>2, FieldFacts
<1>9. /\ all \in Seq(EvidenceType) /\ Len(all) = m + (n - 1)
      /\ \A j \in DOMAIN cs : m + j \in DOMAIN all /\ all[m + j] = cs[j]
  <2> DEFINE s == P.evidence
  <2>1. s \in Seq(EvidenceType) /\ m = Len(s) /\ all = s \o cs
    BY <1>8
  <2> HIDE DEF s, m, all
  <2>2. /\ s \o cs \in Seq(EvidenceType) /\ Len(s \o cs) = Len(s) + Len(cs)
        /\ \A j \in DOMAIN cs : Len(s) + j \in DOMAIN (s \o cs) /\ (s \o cs)[Len(s) + j] = cs[j]
    <3>1. cs \in Seq(EvidenceType) /\ s \in Seq(EvidenceType)
      BY <1>7, <2>1
    <3> QED BY <3>1, ConcatFacts
  <2> QED BY <1>7, <2>1, <2>2
<1> HIDE DEF all, m
<1>10. /\ ev \in Seq(EvidenceType) /\ Len(ev) <= 12
       /\ \A i \in DOMAIN all : i <= 12 => i \in DOMAIN ev /\ ev[i] = all[i]
  BY <1>9, FirstNFacts DEF all
<1> HIDE DEF ev
<1>11. /\ g \in FindingType
       /\ g.agent = P.agent /\ g.category = P.category /\ g.severity = P.severity
       /\ g.title = AndMore(P.title) /\ g.file_path = P.file_path /\ g.agreeing = P.agreeing
       /\ g.line_start = P.line_start /\ g.line_end = P.line_end
       /\ g.confidence = c /\ g.evidence = ev
  <2>1. P.title \in SUBSET Word
    BY <1>2, FieldFacts
  <2> DEFINE t == AndMore(P.title)
  <2>2. t \in SUBSET Word
    <3>1. "more" \in Word
      BY DEF Word
    <3> QED BY <2>1, <3>1 DEF AndMore
  <2>3. g = [P EXCEPT !.title = t, !.confidence = c, !.evidence = ev]
    BY <1>2, <1>5 DEF FindingType
  <2> HIDE DEF t
  <2>4. /\ g \in FindingType
        /\ g.agent = P.agent /\ g.category = P.category /\ g.severity = P.severity
        /\ g.title = t /\ g.file_path = P.file_path /\ g.agreeing = P.agreeing
        /\ g.line_start = P.line_start /\ g.line_end = P.line_end
        /\ g.confidence = c /\ g.evidence = ev
    BY <1>2, <1>4, <1>10, <2>2, <2>3 DEF FindingType
  <2> QED BY <2>4 DEF t
<1>12. Tells(g, fs[q]) /\ g.agreeing = fs[q].agreeing
  <2>1. P.line_start \in Int /\ P.line_end \in Int
    BY <1>2, FieldFacts
  <2> QED BY <1>2, <1>11, <2>1 DEF Tells, Titled
<1>13. ASSUME m + n <= 13, NEW i \in DOMAIN fs, i # q PROVE Cites(g, fs[i])
  <2>1. PICK j \in DOMAIN others : others[j] = fs[i]
    BY <1>3, <1>13
  <2>2. j \in DOMAIN cs /\ cs[j] = Cited(fs[i]) /\ j \in 1..(n - 1)
    BY <1>1, <1>3, <1>7, <2>1
  <2>3. m + j \in DOMAIN all /\ all[m + j] = cs[j] /\ m + j <= 12
    BY <1>1, <1>8, <1>9, <1>13, <2>2
  <2>4. m + j \in DOMAIN ev /\ ev[m + j] = Cited(fs[i])
    BY <1>10, <2>2, <2>3
  <2>5. /\ Cited(fs[i]).file_path = fs[i].file_path
        /\ Cited(fs[i]).line_start = fs[i].line_start /\ Cited(fs[i]).line_end = fs[i].line_end
    BY DEF Cited
  <2> QED BY <1>11, <2>4, <2>5 DEF Cites
<1>14. ASSUME NEW i \in DOMAIN fs PROVE AsBad(g, fs[i])
  <2>1. fs[i] \in FindingType /\ Rank(P) >= Rank(fs[i])
    BY <1>1, <1>2
  <2>2. \/ SeverityIndex(P.severity) > SeverityIndex(fs[i].severity)
        \/ P.severity = fs[i].severity
    BY <1>2, <2>1, RankFacts
  <2>3. c \in Int /\ fs[i].confidence \in Int /\ c >= fs[i].confidence
    <3>1. c \in Int /\ fs[i].confidence \in Int
      BY <1>4, <2>1, FieldFacts, ConfidenceFacts
    <3> QED BY <1>4, <3>1
  <2>4. c >= Min({AgreementCap, fs[i].confidence})
    BY <2>3, CapFacts
  <2> QED BY <1>11, <2>2, <2>4 DEF AsBad
<1>15. Len(fs[q].evidence) = m
  BY <1>2 DEF m
<1>16. ASSUME m + n > 13 PROVE Len(g.evidence) = 12
  <2>1. 12 \in DOMAIN all /\ Len(ev) \in Nat /\ DOMAIN ev = 1..Len(ev)
    BY <1>1, <1>8, <1>9, <1>10, <1>16 DEF n
  <2>2. Len(ev) >= 12
    BY <1>10, <2>1
  <2> QED BY <1>10, <1>11, <2>1, <2>2
<1>17. m \in Nat /\ n \in Nat
  BY <1>1, <1>8 DEF n
<1>18. "more" \in g.title
  BY <1>11 DEF AndMore
<1> QED BY <1>2, <1>11, <1>12, <1>13, <1>14, <1>15, <1>16, <1>17, <1>18 DEF g, n

\* A group of recommendations, all of them in fs.
From(gs, fs) ==
    /\ \E Y : gs \in Seq(Y) /\ Y = {fs[i] : i \in DOMAIN fs}
    /\ gs # <<>> /\ Len(gs) <= Len(fs)
    /\ \A j \in DOMAIN gs : Recommends(gs[j]) /\ \E i \in DOMAIN fs : gs[j] = fs[i]

\* Folding repeated recommendations: what is left is a finding or a folded group
\* of them, and every finding is left or in a group that is folded.
LEMMA CollapseRepeatedFacts ==
    ASSUME NEW X, NEW fs \in Seq(X)
    PROVE  /\ \E Z : collapse_repeated(fs) \in Seq(Z)
           /\ fs = <<>> => collapse_repeated(fs) = <<>>
           /\ \A k \in DOMAIN collapse_repeated(fs) :
                \/ Lists(fs, collapse_repeated(fs)[k])
                \/ \E gs : From(gs, fs) /\ collapse_repeated(fs)[k] = fold(gs)
           /\ \A i \in DOMAIN fs :
                \/ Lists(collapse_repeated(fs), fs[i])
                \/ \E gs : /\ From(gs, fs) /\ Lists(gs, fs[i])
                           /\ Lists(collapse_repeated(fs), fold(gs))
<1> DEFINE Y == {fs[i] : i \in DOMAIN fs}
           n == Len(fs)
           ids == [i \in DOMAIN fs |-> i]
           Collapsible(f)  == f.category \in COLLAPSIBLE_CATEGORIES
           Key(f)          == <<f.agent, f.category>>
           All             == {fs[i] : i \in DOMAIN fs}
           Group(f)        == Among(fs, {g \in All : Key(g) = Key(f)})
           Opens(i)        == /\ Collapsible(fs[i])
                              /\ \A j \in 1..(i - 1) : Key(fs[j]) # Key(fs[i])
           AddGroup(out, i) ==
               IF ~Opens(i) THEN out
               ELSE LET g == Group(fs[i])
                    IN IF Len(g) < CollapseAfter THEN out \o g
                                                 ELSE Append(out, fold(g))
           Others == Among(fs, {f \in All : ~Collapsible(f)})
           Z == Y \cup {fold(Group(fs[i])) : i \in {j \in DOMAIN fs : Recommends(fs[j])}}
           A == Seq(Z)
           F == [i \in 1..n |-> [out \in A |-> AddGroup(out, ids[i])]]
<1>0. fs \in Seq(Y) /\ \A y \in Y : Lists(fs, y)
  BY DEF Lists
<1>1. n \in Nat /\ fs \in Seq(Y) /\ DOMAIN fs = 1..n /\ DOMAIN ids = 1..n /\ \A i \in 1..n : ids[i] = i
  OBVIOUS
<1>a. ASSUME NEW i \in 1..n
      PROVE  /\ Recommends(fs[i]) => From(Group(fs[i]), fs)
             /\ Group(fs[i]) \in Seq(Z) /\ Group(fs[i]) # <<>>
             /\ \A k \in DOMAIN fs : Key(fs[k]) = Key(fs[i]) => Lists(Group(fs[i]), fs[k])
  <2> DEFINE W == {g \in All : Key(g) = Key(fs[i])}
             g == Group(fs[i])
  <2>1. /\ g \in Seq(Y) /\ Len(g) <= Len(fs) /\ g \in Seq({y \in Y : y \in W})
        /\ \A x : Lists(fs, x) /\ x \in W => Lists(g, x)
    <3>1. g = Among(fs, W)
      OBVIOUS
    <3> HIDE DEF W, g, Y
    <3>2. fs \in Seq(Y)
      BY <1>0
    <3> QED BY <3>1, <3>2, AmongFacts
  <2>2. /\ i \in DOMAIN fs /\ fs[i] \in W
        /\ \A k \in DOMAIN fs : Key(fs[k]) = Key(fs[i]) => fs[k] \in W
        /\ \A k \in DOMAIN fs : Lists(fs, fs[k])
        /\ \A x \in W : x.category = fs[i].category
    BY <1>1 DEF Lists
  <2> HIDE DEF W, g, Key
  <2>3. g # <<>>
    <3>1. Lists(g, fs[i])
      BY <2>1, <2>2
    <3> QED BY <3>1 DEF Lists
  <2>4. \A j \in DOMAIN g : g[j] \in Y
    BY <2>1
  <2>5. g \in Seq(Z)
    BY <2>1
  <2>6. \A j \in DOMAIN g : \E k \in DOMAIN fs : g[j] = fs[k]
    BY <2>4
  <2>7. ASSUME Recommends(fs[i]) PROVE From(g, fs)
    <3>1. \A j \in DOMAIN g : g[j] \in W
      BY <2>1
    <3>2. \A j \in DOMAIN g : Recommends(g[j])
      BY <2>2, <2>7, <3>1 DEF Recommends
    <3> QED BY <2>1, <2>3, <2>6, <3>2 DEF From
  <2>8. ASSUME NEW k \in DOMAIN fs, Key(fs[k]) = Key(fs[i]) PROVE Lists(g, fs[k])
    BY <2>1, <2>2, <2>8
  <2> QED BY <2>3, <2>5, <2>7, <2>8 DEF g
<1>b. Others \in A
  <2>1. Others \in Seq(Y)
    BY <1>0, AmongFacts
  <2> HIDE DEF Group, Others
  <2>2. \A s \in Seq(Y) : s \in Seq(Z)
    OBVIOUS
  <2> QED BY <2>1, <2>2
<1> HIDE DEF Group, Others, Opens, n, ids
<1>2. ASSUME NEW i \in 1..n, NEW out \in A
      PROVE  /\ AddGroup(out, i) \in A
             /\ \A x : Lists(out, x) => Lists(AddGroup(out, i), x)
             /\ Opens(i) => \/ \A x : Lists(Group(fs[i]), x) => Lists(AddGroup(out, i), x)
                            \/ Lists(AddGroup(out, i), fold(Group(fs[i])))
  <2>1. Opens(i) => fold(Group(fs[i])) \in Z
    BY <1>1 DEF Opens, Recommends
  <2> DEFINE g == Group(fs[i])
             x == fold(g)
  <2>2. g \in Seq(Z) /\ g # <<>> /\ (Opens(i) => x \in Z)
    BY <1>a, <2>1
  <2>3. /\ Opens(i) => AddGroup(out, i) \in {out \o g, Append(out, x)}
        /\ ~Opens(i) => AddGroup(out, i) = out
    OBVIOUS
  <2> HIDE DEF g, x, AddGroup, Z
  <2>4. /\ out \o g \in A
        /\ \A y : Lists(out, y) => Lists(out \o g, y)
        /\ \A y : Lists(g, y) => Lists(out \o g, y)
    <3>1. /\ out \o g \in Seq(Z)
          /\ \A k \in DOMAIN out : k \in DOMAIN (out \o g) /\ (out \o g)[k] = out[k]
          /\ \A k \in DOMAIN g :
                Len(out) + k \in DOMAIN (out \o g) /\ (out \o g)[Len(out) + k] = g[k]
      BY <2>2, ConcatFacts
    <3> QED BY <3>1 DEF Lists
  <2>5. ASSUME Opens(i)
        PROVE  /\ Append(out, x) \in A /\ Lists(Append(out, x), x)
               /\ \A y : Lists(out, y) => Lists(Append(out, x), y)
    <3>1. /\ Append(out, x) \in Seq(Z)
          /\ Len(out) + 1 \in DOMAIN Append(out, x) /\ Append(out, x)[Len(out) + 1] = x
          /\ \A k \in DOMAIN out : k \in DOMAIN Append(out, x) /\ Append(out, x)[k] = out[k]
      BY <2>2, <2>5, AppendFacts
    <3> QED BY <3>1 DEF Lists
  <2> QED BY <2>3, <2>4, <2>5 DEF g, x
<1> HIDE DEF Z, A
<1>3. Others \in A /\ F \in [1..n -> [A -> A]]
  <2> HIDE DEF AddGroup
  <2> QED BY <1>b, <1>2, <1>1
<1>c. collapse_repeated(fs) = FoldLeft(AddGroup, Others, ids)
  BY Zenon DEF collapse_repeated, FoldLeftDomain, Opens, Group, Others, ids
<1> HIDE DEF AddGroup
<1>4. PICK g \in [SUBSET (1..n) -> A] : Recursion(g, n, Others, F)
  <2> HIDE DEF F
  <2>1. n \in Nat /\ Others \in A /\ F \in [1..n -> [A -> A]]
    BY <1>1, <1>3
  <2> QED BY <2>1, FoldExists, Zenon
<1>5. ASSUME NEW s \in SUBSET (1..n)
      PROVE  g[s] = IF s = {} THEN Others ELSE AddGroup(g[s \ {Max(s)}], ids[Max(s)])
  <2>1. CASE s # {}
    <3>1. Max(s) \in 1..n
      BY <1>1, <2>1, MaxFacts
    <3>2. g[s \ {Max(s)}] \in A
      OBVIOUS
    <3> QED BY <1>4, <2>1, <3>1, <3>2 DEF Recursion
  <2> QED BY <1>4, <2>1 DEF Recursion
<1>6. g = [s \in SUBSET (1..n) |->
             IF s = {} THEN Others ELSE AddGroup(g[s \ {Max(s)}], ids[Max(s)])]
  <2> HIDE DEF F
  <2> QED BY <1>5
<1>7. PICK h : /\ h = [s \in SUBSET (1..n) |->
                         IF s = {} THEN Others ELSE AddGroup(h[s \ {Max(s)}], ids[Max(s)])]
               /\ collapse_repeated(fs) = h[1..n]
  <2>1. DOMAIN ids = 1..n
    BY <1>1
  <2> QED BY <1>6, <1>c, <2>1, Zenon DEF FoldLeft, MapThenFoldSet
<1>8. h[{}] = Others
  BY <1>7
<1>9. ASSUME NEW s \in SUBSET (1..n), s # {}, h[s \ {Max(s)}] \in A
      PROVE  h[s] = F[Max(s)][h[s \ {Max(s)}]]
  <2>1. Max(s) \in 1..n
    BY <1>1, <1>9, MaxFacts
  <2>2. h[s] = AddGroup(h[s \ {Max(s)}], ids[Max(s)])
    BY <1>7, <1>9
  <2> QED BY <1>9, <2>1, <2>2
<1>10. PICK c : Chain(c, n, A, Others, F, h[1..n])
  <2> HIDE DEF F
  <2>1. n \in Nat /\ Others \in A /\ F \in [1..n -> [A -> A]]
    BY <1>1, <1>3
  <2>2. Unfolds(h, n, A, Others, F)
    BY <1>8, <1>9 DEF Unfolds
  <2> QED BY <2>1, <2>2, FoldChain, Zenon
<1>11. ASSUME NEW k \in 1..n PROVE c[k - 1] \in A /\ c[k] = AddGroup(c[k - 1], ids[k])
  <2>1. k - 1 \in 0..n
    BY <1>1
  <2> QED BY <1>10, <2>1 DEF Chain
<1> HIDE DEF F
<1>12. collapse_repeated(fs) = c[n] /\ c[n] \in A /\ c[0] = Others
  <2>1. c \in [0..n -> A] /\ n \in 0..n /\ c[0] = Others /\ c[n] = h[1..n]
    BY <1>1, <1>10 DEF Chain
  <2> QED BY <1>7, <2>1
<1>13. fs = <<>> => collapse_repeated(fs) = <<>>
  <2>1. SUFFICES ASSUME fs = <<>> PROVE c[n] = <<>>
    BY <1>12
  <2>2. n = 0
    BY <2>1 DEF n
  <2>3. Others = <<>>
    <3> DEFINE W == {f \in All : ~Collapsible(f)}
    <3>1. Others = Among(fs, W)
      BY DEF Others
    <3> HIDE DEF W
    <3>2. Among(fs, W) = <<>>
      BY <1>0, <2>1, AmongFacts
    <3> QED BY <3>1, <3>2
  <2> QED BY <1>12, <2>2, <2>3
<1>14. ASSUME NEW i \in 0..n, NEW x, Lists(c[i], x) PROVE Lists(c[n], x)
  <2> DEFINE B == {s \in A : Lists(s, x)}
  <2>1. c[i] \in B
    BY <1>10, <1>14 DEF Chain
  <2>2. ASSUME NEW k \in 1..n, c[k - 1] \in B PROVE c[k] \in B
    <3>1. c[k - 1] \in A /\ c[k] = AddGroup(c[k - 1], k) /\ Lists(c[k - 1], x)
      BY <1>1, <1>11, <2>2
    <3>2. c[k] \in A /\ Lists(c[k], x)
      BY <1>2, <3>1
    <3> QED BY <3>2
  <2> HIDE DEF B
  <2>3. c[n] \in B
    BY <1>1, <2>1, <2>2, StaysFrom
  <2> QED BY <2>3 DEF B
<1>15. ASSUME NEW i \in DOMAIN fs
       PROVE  \/ Lists(c[n], fs[i])
              \/ \E gs : From(gs, fs) /\ Lists(gs, fs[i]) /\ Lists(c[n], fold(gs))
  <2>0. i \in 1..n /\ 0 \in 0..n /\ i \in Nat
    BY <1>1
  <2>1. CASE ~Collapsible(fs[i])
    <3>1. fs[i] \in {f \in All : ~Collapsible(f)} /\ i \in DOMAIN fs
      BY <1>1, <2>1
    <3>2. Lists(Others, fs[i])
      <4> DEFINE W == {f \in All : ~Collapsible(f)}
      <4>0. Others = Among(fs, W) /\ fs[i] \in W /\ Lists(fs, fs[i])
        BY <1>1, <3>1 DEF Others, Lists
      <4> HIDE DEF W, Y
      <4> QED BY <1>1, <4>0, AmongFacts
    <3> QED BY <1>12, <1>14, <2>0, <3>2
  <2>2. CASE Collapsible(fs[i])
    <3> DEFINE S == {j \in 1..n : Key(fs[j]) = Key(fs[i])}
    <3>1. S \in SUBSET Nat /\ S # {}
      <4>1. i \in S
        BY <2>0
      <4> QED BY <1>1, <4>1
    <3>2. PICK m \in S : \A j \in S : m <= j
      <4> HIDE DEF S
      <4> QED BY <3>1, LeastNat
    <3>3. m \in 1..n /\ Key(fs[m]) = Key(fs[i]) /\ m \in 0..n
      BY <1>1, <3>2
    <3>4. Opens(m)
      <4>1. Collapsible(fs[m])
        BY <2>2, <3>3
      <4>2. ASSUME NEW j \in 1..(m - 1) PROVE Key(fs[j]) # Key(fs[m])
        <5>1. j \in 1..n /\ ~(m <= j)
          BY <1>1, <3>3
        <5>2. j \notin S
          BY <3>2, <5>1
        <5> HIDE DEF Key
        <5> QED BY <3>3, <5>1, <5>2
      <4> QED BY <4>1, <4>2 DEF Opens
    <3>5. /\ From(Group(fs[m]), fs) /\ Lists(Group(fs[m]), fs[i])
      <4>1. Recommends(fs[m])
        BY <3>4 DEF Opens, Recommends
      <4> HIDE DEF Key
      <4> QED BY <1>a, <2>0, <1>1, <3>3, <4>1
    <3>6. c[m - 1] \in A /\ c[m] = AddGroup(c[m - 1], m)
      BY <1>1, <1>11, <3>3
    <3>7. Lists(c[m], fs[i]) \/ Lists(c[m], fold(Group(fs[m])))
      BY <1>2, <3>3, <3>4, <3>5, <3>6
    <3> QED BY <1>14, <3>3, <3>5, <3>7
  <2> QED BY <2>1, <2>2
<1>16. ASSUME NEW k \in DOMAIN c[n]
       PROVE  Lists(fs, c[n][k]) \/ \E gs : From(gs, fs) /\ c[n][k] = fold(gs)
  <2>1. c[n][k] \in Z
    BY <1>12, <1>16 DEF A
  <2>2. CASE c[n][k] \in Y
    BY <1>0, <2>2
  <2>3. CASE \E i \in DOMAIN fs : Recommends(fs[i]) /\ c[n][k] = fold(Group(fs[i]))
    BY <1>1, <1>a, <2>3
  <2> QED BY <2>1, <2>2, <2>3 DEF Z
<1> QED BY <1>12, <1>13, <1>15, <1>16 DEF A

-----------------------------------------------------------------------------
(* Ordering *)

StrictTotalOrder(B, n) ==
    /\ \A i \in 1..n : <<i, i>> \notin B
    /\ \A i, j, k \in 1..n : <<i, j>> \in B /\ <<j, k>> \in B => <<i, k>> \in B
    /\ \A i, j \in 1..n : i = j \/ <<i, j>> \in B \/ <<j, i>> \in B

\* r[i] is how many are before i, every number up to n - 1 of exactly one.
Places(r, n, B) ==
    /\ r \in [1..n -> 0..(n - 1)]
    /\ \A i \in 1..n : r[i] = Cardinality({j \in 1..n : <<j, i>> \in B})
    /\ \A i, j \in 1..n : r[i] = r[j] => i = j
    /\ \A k \in 1..n : \E i \in 1..n : r[i] = k - 1

\* In a strict total order of n things, one has k - 1 before it, for each k, and
\* no other has as many.
LEMMA PlacesOfOrder ==
    ASSUME NEW n \in Nat, NEW B, StrictTotalOrder(B, n)
    PROVE  \E r : Places(r, n, B)
<1> DEFINE D == 1..n
           P(i) == {j \in D : <<j, i>> \in B}
           r == [i \in D |-> Cardinality(P(i))]
<1>0. /\ \A i \in D : <<i, i>> \notin B
      /\ \A i, j, k \in D : <<i, j>> \in B /\ <<j, k>> \in B => <<i, k>> \in B
      /\ \A i, j \in D : i = j \/ <<i, j>> \in B \/ <<j, i>> \in B
  BY DEF StrictTotalOrder
<1>1. IsFiniteSet(D) /\ Cardinality(D) = n /\ IsFiniteSet(0..(n - 1)) /\ Cardinality(0..(n - 1)) = n
  <2>1. 1 \in Int /\ n \in Int /\ 0 \in Int /\ n - 1 \in Int
    OBVIOUS
  <2>2. /\ IsFiniteSet(1..n) /\ Cardinality(1..n) = IF 1 > n THEN 0 ELSE n - 1 + 1
        /\ IsFiniteSet(0..(n - 1))
        /\ Cardinality(0..(n - 1)) = IF 0 > n - 1 THEN 0 ELSE (n - 1) - 0 + 1
    BY <2>1, FS_Interval
  <2> QED BY <2>2
<1>2. ASSUME NEW i \in D
      PROVE  IsFiniteSet(P(i)) /\ Cardinality(P(i)) \in 0..(n - 1)
  <2>1. P(i) \in SUBSET (D \ {i})
    BY <1>0
  <2>2. IsFiniteSet(D \ {i}) /\ Cardinality(D \ {i}) = n - 1
    BY <1>1, FS_RemoveElement
  <2> HIDE DEF P, D
  <2>3. IsFiniteSet(P(i)) /\ Cardinality(P(i)) <= n - 1
    BY <2>1, <2>2, FS_Subset
  <2>4. Cardinality(P(i)) \in Nat
    BY <2>3, FS_CardinalityType
  <2> QED BY <2>3, <2>4
<1>3. r \in [D -> 0..(n - 1)]
  <2> HIDE DEF P
  <2> QED BY <1>2
<1>4. ASSUME NEW i \in D, NEW j \in D, <<i, j>> \in B PROVE r[i] # r[j]
  <2>1. P(i) \in SUBSET P(j) /\ i \in P(j) /\ i \notin P(i)
    BY <1>0, <1>4
  <2> HIDE DEF P
  <2>2. r[i] = Cardinality(P(i)) /\ r[j] = Cardinality(P(j)) /\ IsFiniteSet(P(j))
    BY <1>2
  <2>3. Cardinality(P(i)) # Cardinality(P(j))
    BY <2>1, <2>2, FS_Subset
  <2> QED BY <2>2, <2>3
<1>5. \A i \in D : r[i] = Cardinality(P(i))
  OBVIOUS
<1> HIDE DEF r, P
<1>6. ASSUME NEW i \in D, NEW j \in D, r[i] = r[j] PROVE i = j
  BY <1>0, <1>4, <1>6
<1>7. r \in Injection(D, 0..(n - 1))
  BY <1>3, <1>6 DEF Injection, IsInjective
<1>8. r \in Surjection(D, 0..(n - 1))
  BY <1>1, <1>7, FS_Injection
<1>9. ASSUME NEW k \in 1..n PROVE \E i \in D : r[i] = k - 1
  <2>1. k - 1 \in 0..(n - 1)
    OBVIOUS
  <2>2. \A y \in 0..(n - 1) : \E i \in D : r[i] = y
    BY <1>8 DEF Surjection
  <2> QED BY <2>1, <2>2
<1>10. \A i \in D : r[i] = Cardinality({j \in D : <<j, i>> \in B})
  BY <1>5 DEF P
<1> QED BY <1>3, <1>6, <1>9, <1>10 DEF Places

\* Sorting rearranges: what is listed is listed after it, and nothing else.
LEMMA SortFacts ==
    ASSUME NEW fs \in Seq(FindingType)
    PROVE  /\ DOMAIN SortFindings(fs) = DOMAIN fs
           /\ \A k \in DOMAIN fs : Lists(fs, SortFindings(fs)[k])
           /\ \A x : Lists(fs, x) => Lists(SortFindings(fs), x)
<1> DEFINE n == Len(fs)
           Before(i, j) ==
               \/ Rank(fs[i]) > Rank(fs[j])
               \/ /\ Rank(fs[i]) = Rank(fs[j])
                  /\ \/ fs[i].file_path < fs[j].file_path
                     \/ fs[i].file_path = fs[j].file_path /\ i < j
           B == {ij \in (1..n) \X (1..n) : Before(ij[1], ij[2])}
           Pos(k) == CHOOSE i \in DOMAIN fs :
                        Cardinality({j \in DOMAIN fs : Before(j, i)}) = k - 1
<1>1. n \in Nat /\ DOMAIN fs = 1..n /\ \A i \in 1..n : fs[i] \in FindingType
  OBVIOUS
<1>2. \A i \in 1..n : Rank(fs[i]) \in Int /\ fs[i].file_path \in Int /\ i \in Int
  BY <1>1, RankFacts, FieldFacts
<1>3. SortFindings(fs) = [k \in DOMAIN fs |-> fs[Pos(k)]]
  BY DEF SortFindings
<1> HIDE DEF n
<1>4. \A i, j \in 1..n : <<i, j>> \in B <=> Before(i, j)
  OBVIOUS
<1>5. /\ \A i \in 1..n : ~Before(i, i)
      /\ \A i, j, k \in 1..n : Before(i, j) /\ Before(j, k) => Before(i, k)
      /\ \A i, j \in 1..n : i = j \/ Before(i, j) \/ Before(j, i)
  <2>1. ASSUME NEW i \in 1..n PROVE ~Before(i, i)
    BY <1>2
  <2>2. ASSUME NEW i \in 1..n, NEW j \in 1..n, NEW k \in 1..n, Before(i, j), Before(j, k)
        PROVE  Before(i, k)
    <3>1. /\ Rank(fs[i]) \in Int /\ Rank(fs[j]) \in Int /\ Rank(fs[k]) \in Int
          /\ fs[i].file_path \in Int /\ fs[j].file_path \in Int /\ fs[k].file_path \in Int
          /\ i \in Int /\ j \in Int /\ k \in Int
      BY <1>2
    <3> QED BY <2>2, <3>1
  <2>3. ASSUME NEW i \in 1..n, NEW j \in 1..n PROVE i = j \/ Before(i, j) \/ Before(j, i)
    <3>1. /\ Rank(fs[i]) \in Int /\ Rank(fs[j]) \in Int
          /\ fs[i].file_path \in Int /\ fs[j].file_path \in Int
          /\ i \in Int /\ j \in Int
      BY <1>2
    <3> QED BY <3>1
  <2> QED BY <2>1, <2>2, <2>3
<1> HIDE DEF B, Before
<1>6. StrictTotalOrder(B, n)
  BY <1>4, <1>5 DEF StrictTotalOrder
<1>a. PICK r : Places(r, n, B)
  BY <1>1, <1>6, PlacesOfOrder
<1>7. /\ r \in [1..n -> 0..(n - 1)]
      /\ \A i \in 1..n : r[i] = Cardinality({j \in 1..n : <<j, i>> \in B})
      /\ \A i, j \in 1..n : r[i] = r[j] => i = j
      /\ \A k \in 1..n : \E i \in 1..n : r[i] = k - 1
  BY <1>a DEF Places
<1>8. \A i \in 1..n : {j \in 1..n : <<j, i>> \in B} = {j \in DOMAIN fs : Before(j, i)}
  BY <1>1, <1>4
<1>9. \A i \in 1..n : r[i] = Cardinality({j \in DOMAIN fs : Before(j, i)})
  BY <1>7, <1>8
<1>10. ASSUME NEW k \in 1..n PROVE Pos(k) \in 1..n /\ r[Pos(k)] = k - 1
  <2>1. PICK i \in 1..n : r[i] = k - 1
    BY <1>7
  <2>2. i \in DOMAIN fs /\ Cardinality({j \in DOMAIN fs : Before(j, i)}) = k - 1
    BY <1>1, <1>9, <2>1
  <2>3. Pos(k) \in DOMAIN fs /\ Cardinality({j \in DOMAIN fs : Before(j, Pos(k))}) = k - 1
    BY <2>2
  <2> HIDE DEF Pos
  <2> QED BY <1>1, <1>9, <2>3
<1> HIDE DEF Pos
<1>11. DOMAIN SortFindings(fs) = 1..n /\ \A k \in 1..n : SortFindings(fs)[k] = fs[Pos(k)]
  BY <1>1, <1>3
<1>12. ASSUME NEW k \in DOMAIN fs PROVE Lists(fs, SortFindings(fs)[k])
  BY <1>1, <1>10, <1>11 DEF Lists
<1>13. ASSUME NEW x, Lists(fs, x) PROVE Lists(SortFindings(fs), x)
  <2>1. PICK i \in 1..n : fs[i] = x
    BY <1>1, <1>13 DEF Lists
  <2>2. r[i] \in 0..(n - 1)
    BY <1>7
  <2> DEFINE k == r[i] + 1
  <2>3. k \in 1..n /\ k - 1 = r[i]
    BY <1>1, <2>2
  <2> HIDE DEF k
  <2>4. Pos(k) = i
    BY <1>7, <1>10, <2>1, <2>3
  <2> QED BY <1>11, <2>1, <2>3, <2>4 DEF Lists
<1> QED BY <1>1, <1>11, <1>12, <1>13

-----------------------------------------------------------------------------
(* The fan-in as a whole *)

\* The findings of the ok verdicts: a list, with something in it exactly when
\* one of them has something.
LEMMA RawFindingsFacts ==
    ASSUME NEW X, NEW V, NEW vs \in Seq(V),
           \A v \in V : ok(v) => v.findings \in Seq(X)
    PROVE  /\ RawFindings(vs) \in Seq(X)
           /\ RawFindings(vs) # <<>> <=>
                \E i \in DOMAIN vs : ok(vs[i]) /\ vs[i].findings # <<>>
<1> DEFINE n == Len(vs)
           A == Seq(X)
<1>1. n \in Nat /\ DOMAIN vs = 1..n /\ \A i \in 1..n : vs[i] \in V
  OBVIOUS
<1>2. PICK c \in [0..n -> A] :
         /\ c[0] = <<>> /\ c[n] = RawFindings(vs)
         /\ \A k \in 1..n : c[k] = IF ok(vs[k]) THEN c[k - 1] \o vs[k].findings ELSE c[k - 1]
  BY RawFindingsChain
<1> HIDE DEF n
<1>3. ASSUME NEW k \in 1..n
      PROVE  /\ c[k - 1] \in Seq(X) /\ c[k] \in Seq(X)
             /\ ok(vs[k]) => /\ vs[k].findings \in Seq(X)
                             /\ c[k] = c[k - 1] \o vs[k].findings
             /\ ~ok(vs[k]) => c[k] = c[k - 1]
  <2>1. k - 1 \in 0..n /\ k \in 0..n
    BY <1>1
  <2> QED BY <1>1, <1>2, <2>1
<1>4. RawFindings(vs) \in Seq(X) /\ n \in 0..n
  BY <1>1, <1>2
<1>5. ASSUME NEW i \in DOMAIN vs, ok(vs[i]), vs[i].findings # <<>>
      PROVE  RawFindings(vs) # <<>>
  <2> DEFINE B == {s \in A : s # <<>>}
  <2>1. i \in 1..n /\ i \in 0..n
    BY <1>1
  <2>2. /\ c[i - 1] \in Seq(X) /\ vs[i].findings \in Seq(X)
        /\ c[i] = c[i - 1] \o vs[i].findings
    BY <1>3, <1>5, <2>1
  <2>3. c[i] \in B
    BY <1>5, <2>2
  <2>4. ASSUME NEW k \in 1..n, c[k - 1] \in B PROVE c[k] \in B
    <3>1. CASE ok(vs[k])
      <4>1. /\ c[k - 1] \in Seq(X) /\ vs[k].findings \in Seq(X) /\ c[k - 1] # <<>>
            /\ c[k] = c[k - 1] \o vs[k].findings
        BY <1>3, <2>4, <3>1
      <4> QED BY <4>1
    <3>2. CASE ~ok(vs[k])
      BY <1>3, <2>4, <3>2
    <3> QED BY <3>1, <3>2
  <2> HIDE DEF B
  <2>5. c[n] \in B
    BY <1>1, <2>1, <2>3, <2>4, StaysFrom
  <2> QED BY <1>2, <2>5 DEF B
<1>6. ASSUME \A i \in DOMAIN vs : ok(vs[i]) => vs[i].findings = <<>>
      PROVE  RawFindings(vs) = <<>>
  <2> DEFINE B == {<<>>}
  <2>1. 0 \in 0..n /\ c[0] \in B
    BY <1>1, <1>2
  <2>2. ASSUME NEW k \in 1..n, c[k - 1] \in B PROVE c[k] \in B
    <3>1. c[k - 1] = <<>>
      BY <2>2
    <3>2. CASE ok(vs[k])
      <4>1. c[k] = c[k - 1] \o vs[k].findings /\ vs[k].findings = <<>>
        BY <1>1, <1>3, <1>6, <3>2
      <4> QED BY <3>1, <4>1
    <3>3. CASE ~ok(vs[k])
      BY <1>3, <2>2, <3>3
    <3> QED BY <3>2, <3>3
  <2> HIDE DEF B
  <2>3. c[n] \in B
    BY <1>1, <2>1, <2>2, StaysFrom
  <2> QED BY <1>2, <2>3 DEF B
<1> QED BY <1>4, <1>5, <1>6

\* The review has findings exactly when an ok verdict has: clustering,
\* collapsing, folding and sorting lose no last finding and make none up.
LEMMA AggregateFacts ==
    ASSUME NEW X, NEW V, NEW vs \in Seq(V),
           \A v \in V : ok(v) => v.findings \in Seq(X)
    PROVE  aggregate(vs).findings # <<>> <=>
             \E i \in DOMAIN vs : ok(vs[i]) /\ vs[i].findings # <<>>
<1> DEFINE raw    == RawFindings(vs)
           cs     == Clusters(raw)
           merged == merge(raw)
           folded == collapse_repeated(merged)
           Y      == {collapse(cs[i]) : i \in DOMAIN cs}
<1>1. /\ raw \in Seq(X)
      /\ raw # <<>> <=> \E i \in DOMAIN vs : ok(vs[i]) /\ vs[i].findings # <<>>
  BY RawFindingsFacts
<1>2. cs \in Seq(Seq(X)) /\ (cs = <<>> <=> raw = <<>>)
  <2> HIDE DEF raw
  <2> QED BY <1>1, ClustersFacts
<1>3. merged \in Seq(Y) /\ (merged = <<>> <=> cs = <<>>)
  <2>1. merged = [i \in DOMAIN cs |-> collapse(cs[i])]
    BY DEF merge
  <2> HIDE DEF merged, cs
  <2>2. Len(cs) \in Nat /\ DOMAIN cs = 1..Len(cs) /\ (cs = <<>> <=> Len(cs) = 0)
    BY <1>2
  <2>3. merged \in Seq(Y) /\ Len(merged) = Len(cs)
    BY <2>1, <2>2
  <2> QED BY <2>2, <2>3
<1>4. (\E Z : folded \in Seq(Z)) /\ (folded = <<>> <=> merged = <<>>)
  <2> HIDE DEF merged, Y
  <2>1. /\ \E Z : folded \in Seq(Z)
        /\ merged = <<>> => folded = <<>>
        /\ \A i \in DOMAIN merged : \/ Lists(folded, merged[i])
                                    \/ \E gs : Lists(folded, fold(gs))
    BY <1>3, CollapseRepeatedFacts
  <2>2. ASSUME merged # <<>> PROVE folded # <<>>
    <3>1. 1 \in DOMAIN merged
      BY <1>3, <2>2
    <3>2. \E x : Lists(folded, x)
      BY <2>1, <3>1
    <3> QED BY <3>2 DEF Lists
  <2> QED BY <2>1, <2>2
<1>5. PICK Z : folded \in Seq(Z)
  BY <1>4
<1>6. aggregate(vs).findings = SortFindings(folded)
  BY DEF aggregate
<1> HIDE DEF folded, merged, cs, raw
<1>7. DOMAIN SortFindings(folded) = DOMAIN folded
  BY DEF SortFindings
<1>8. DOMAIN folded = {} <=> folded = <<>>
  BY <1>5
<1>9. SortFindings(folded) = <<>> <=> folded = <<>>
  <2>1. CASE folded = <<>>
    BY <2>1 DEF SortFindings
  <2>2. CASE folded # <<>>
    <3>1. DOMAIN <<>> = {}
      OBVIOUS
    <3> QED BY <1>7, <1>8, <2>2, <3>1
  <2> QED BY <2>1, <2>2
<1> QED BY <1>1, <1>2, <1>3, <1>4, <1>6, <1>9

\* Being as bad passes on.
LEMMA AsBadPasses ==
    ASSUME NEW g \in FindingType, NEW h \in FindingType, NEW f \in FindingType,
           AsBad(g, h), AsBad(h, f)
    PROVE  AsBad(g, f)
<1> DEFINE i == SeverityIndex(g.severity)
           j == SeverityIndex(h.severity)
           k == SeverityIndex(f.severity)
           x == g.confidence
           y == h.confidence
           z == f.confidence
           yy == Min({AgreementCap, y})
           zz == Min({AgreementCap, z})
<1>1. i \in Int /\ j \in Int /\ k \in Int
  <2>1. g.severity \in Severity /\ h.severity \in Severity /\ f.severity \in Severity
    BY FieldFacts
  <2> QED BY <2>1, SeverityFacts
<1>2. x \in Int /\ y \in Int /\ z \in Int /\ AgreementCap \in Int
  BY FieldFacts DEF AgreementCap
<1>3. /\ i > j \/ (g.severity = h.severity /\ x >= yy)
      /\ j > k \/ (h.severity = f.severity /\ y >= zz)
  BY DEF AsBad
<1> HIDE DEF x, y, z
<1>4. /\ yy \in {AgreementCap, y}
      /\ zz \in {AgreementCap, z} /\ zz <= AgreementCap
  BY <1>2, MinOfTwo
<1>5. g.severity = h.severity => i = j
  OBVIOUS
<1>6. h.severity = f.severity => j = k
  OBVIOUS
<1> HIDE DEF i, j, k, yy, zz
<1>7. ASSUME x >= yy, y >= zz PROVE x >= zz
  BY <1>2, <1>4, <1>7
<1>8. i > k \/ (g.severity = f.severity /\ x >= zz)
  BY <1>1, <1>3, <1>5, <1>6, <1>7
<1> QED BY <1>8 DEF AsBad, i, k, x, z, zz

\* So does reporting the same.
LEMMA TellsPasses ==
    ASSUME NEW g \in FindingType, NEW h \in FindingType, NEW f \in FindingType,
           Tells(g, h), Tells(h, f)
    PROVE  Tells(g, f)
<1>1. /\ g.line_start \in Int /\ h.line_start \in Int /\ f.line_start \in Int
      /\ g.line_end \in Int /\ h.line_end \in Int /\ f.line_end \in Int
  BY FieldFacts
<1> QED BY <1>1 DEF Tells, Titled, Recommends, AndMore

Members(fs) == {fs[i] : i \in DOMAIN fs}

\* Merging: each merged finding reports what one of the findings does, agreed on
\* by agents that reported on its lines, and each finding is spanned by one that is
\* as bad and names its category.
LEMMA MergeFacts ==
    ASSUME NEW fs \in Seq(FindingType), \A i \in DOMAIN fs : fs[i].agreeing = {}
    PROVE  /\ merge(fs) \in Seq(FindingType) /\ Len(merge(fs)) <= Len(fs)
           /\ \A k \in DOMAIN merge(fs) :
                LET g == merge(fs)[k] IN
                /\ \E f \in Members(fs) : Tells(g, f)
                /\ Agreed(g, fs)
                /\ Len(g.evidence) <= 6 \/ \E f \in Members(fs) : g.evidence = f.evidence
           /\ \A f \in Members(fs) : \E k \in DOMAIN merge(fs) :
                LET g == merge(fs)[k] IN
                g.file_path = f.file_path /\ Spans(g, f) /\ AsBad(g, f) /\ Names(g, f)
<1> DEFINE Y  == Members(fs)
           cs == Clusters(fs)
           m  == merge(fs)
<1>1. fs \in Seq(Y) /\ Y \subseteq FindingType /\ \A f \in Y : f.agreeing = {} /\ f.agent \in AgentsOf(fs)
  BY DEF Members, AgentsOf
<1> HIDE DEF Y
<1>2. /\ cs \in Seq(Seq(Y)) /\ Len(cs) <= Len(fs) /\ Sound(cs)
      /\ \A i \in DOMAIN fs : Has(cs, fs[i])
  BY <1>1, ClustersFacts
<1>3. DOMAIN m = DOMAIN cs /\ \A k \in DOMAIN cs : m[k] = collapse(cs[k])
  BY DEF merge
<1> HIDE DEF m, cs
<1>4. ASSUME NEW k \in DOMAIN cs
      PROVE  /\ cs[k] \in Seq(Y) /\ cs[k] \in Seq(FindingType) /\ cs[k] # <<>>
             /\ \A i \in DOMAIN cs[k] : cs[k][i] \in Y
             /\ 1 \in DOMAIN cs[k] /\ OneFile(cs[k])
  <2>1. cs[k] \in Seq(Y) /\ cs[k] # <<>> /\ OneFile(cs[k])
    BY <1>2 DEF Sound
  <2>2. cs[k] \in Seq(FindingType)
    BY <1>1, <2>1
  <2> QED BY <2>1, <2>2
<1>5. ASSUME NEW k \in DOMAIN cs
      PROVE  /\ m[k] \in FindingType
             /\ \E f \in Y : Tells(m[k], f)
             /\ Agreed(m[k], fs)
             /\ Len(m[k].evidence) <= 6 \/ \E f \in Y : m[k].evidence = f.evidence
             /\ \A i \in DOMAIN cs[k] : /\ m[k].file_path = cs[k][i].file_path
                                        /\ Spans(m[k], cs[k][i]) /\ AsBad(m[k], cs[k][i])
                                        /\ Names(m[k], cs[k][i])
  <2> DEFINE cl == cs[k]
  <2>1. /\ cl \in Seq(FindingType) /\ cl # <<>> /\ 1 \in DOMAIN cl /\ OneFile(cl)
        /\ \A i \in DOMAIN cl : cl[i] \in Y
    BY <1>4
  <2>2. m[k] = collapse(cl)
    BY <1>3
  <2> HIDE DEF cl
  <2>3. /\ m[k] \in FindingType
        /\ \E p \in DOMAIN cl : Tells(m[k], cl[p])
        /\ \A i \in DOMAIN cl : /\ Spans(m[k], cl[i]) /\ AsBad(m[k], cl[i])
                                /\ Names(m[k], cl[i])
        /\ m[k].agreeing \in {AgentsOf(cl), cl[1].agreeing}
        /\ Len(m[k].evidence) <= 6 \/ m[k].evidence = cl[1].evidence
    BY <2>1, <2>2, CollapseFacts
  <2>4. PICK p \in DOMAIN cl : Tells(m[k], cl[p])
    BY <2>3
  <2>5. \A i \in DOMAIN cl : m[k].file_path = cl[i].file_path
    BY <2>1, <2>4 DEF Tells, OneFile
  <2>6. Agreed(m[k], fs)
    <3>1. CASE m[k].agreeing = cl[1].agreeing
      BY <1>1, <2>1, <3>1 DEF Agreed
    <3>2. ASSUME m[k].agreeing = AgentsOf(cl), NEW a \in m[k].agreeing
          PROVE  \E i \in DOMAIN fs :
                    /\ fs[i].agent = a /\ fs[i].file_path = m[k].file_path
                    /\ m[k].line_start <= fs[i].line_start /\ fs[i].line_end <= m[k].line_end
      <4>1. PICK j \in DOMAIN cl : cl[j].agent = a
        BY <3>2 DEF AgentsOf
      <4>2. PICK i \in DOMAIN fs : fs[i] = cl[j]
        BY <2>1 DEF Y, Members
      <4> QED BY <2>3, <2>5, <4>1, <4>2 DEF Spans
    <3> QED BY <2>3, <3>1, <3>2 DEF Agreed
  <2> QED BY <2>1, <2>3, <2>4, <2>5, <2>6 DEF cl
<1>6. m \in Seq(FindingType) /\ Len(m) = Len(cs)
  <2>1. Len(cs) \in Nat /\ DOMAIN cs = 1..Len(cs)
    BY <1>2
  <2>2. m = [k \in 1..Len(cs) |-> m[k]]
    BY <1>3, <2>1 DEF m, merge, cs
  <2>3. m \in [1..Len(cs) -> FindingType]
    BY <1>5, <2>1, <2>2
  <2> QED BY <2>1, <2>3
<1>7. ASSUME NEW f \in Y
      PROVE  \E k \in DOMAIN m : /\ m[k].file_path = f.file_path /\ Spans(m[k], f)
                                  /\ AsBad(m[k], f) /\ Names(m[k], f)
  <2>1. Has(cs, f)
    BY <1>2, <1>7 DEF Y, Members
  <2>2. PICK k \in DOMAIN cs : \E i \in DOMAIN cs[k] : cs[k][i] = f
    BY <2>1 DEF Has
  <2> QED BY <1>3, <1>5, <2>2
<1> QED BY <1>2, <1>3, <1>5, <1>6, <1>7 DEF m, Y


-----------------------------------------------------------------------------
(* What the review says of the findings *)

\* A reader of g finds f on its lines, or at a place that g cites.
Stands(g, f) ==
    \/ g.file_path = f.file_path /\ Spans(g, f)
    \/ \E e \in DOMAIN g.evidence :
         /\ g.evidence[e].file_path = f.file_path
         /\ g.evidence[e].line_start <= f.line_start
         /\ f.line_end <= g.evidence[e].line_end

\* Twelve pieces of evidence are enough for the places of all of them.
Room(fs) == \A i \in DOMAIN fs : Len(fs[i].evidence) + Len(fs) <= 13

\* The same whatever is merged before, which leaves a finding six pieces at most
\* or the ones it had.
Small(fs) == Len(fs) <= 7 /\ Room(fs)

\* Folding: each finding that is left reports what one of the findings does, and
\* each one is reported by one that is as bad, unless its evidence is full.
LEMMA RepeatedFacts ==
    ASSUME NEW fs \in Seq(FindingType)
    PROVE  /\ collapse_repeated(fs) \in Seq(FindingType)
           /\ \A k \in DOMAIN collapse_repeated(fs) : \E i \in DOMAIN fs :
                /\ Tells(collapse_repeated(fs)[k], fs[i])
                /\ collapse_repeated(fs)[k].agreeing = fs[i].agreeing
           /\ \A i \in DOMAIN fs : \E g \in FindingType :
                /\ Lists(collapse_repeated(fs), g) /\ AsBad(g, fs[i])
                /\ g = fs[i] \/ Recommends(g)
                /\ \/ g.file_path = fs[i].file_path /\ Spans(g, fs[i])
                   \/ Cites(g, fs[i])
                   \/ ~Room(fs) /\ Full(g)
<1> DEFINE r == collapse_repeated(fs)
<1>1. /\ \E Z : r \in Seq(Z)
      /\ \A k \in DOMAIN r : Lists(fs, r[k]) \/ \E gs : From(gs, fs) /\ r[k] = fold(gs)
      /\ \A i \in DOMAIN fs :
           \/ Lists(r, fs[i])
           \/ \E gs : From(gs, fs) /\ Lists(gs, fs[i]) /\ Lists(r, fold(gs))
  BY CollapseRepeatedFacts
<1> HIDE DEF r
<1>2. \A i \in DOMAIN fs : fs[i] \in FindingType
  OBVIOUS
<1>3. ASSUME NEW f \in FindingType PROVE Tells(f, f) /\ Spans(f, f) /\ AsBad(f, f)
  <2>1. f.line_start \in Int /\ f.line_end \in Int /\ f.confidence \in Int
    BY FieldFacts
  <2>2. f.confidence >= Min({AgreementCap, f.confidence})
    BY <2>1, CapFacts
  <2> QED BY <2>1, <2>2 DEF Tells, Titled, Spans, AsBad
<1>4. ASSUME NEW gs, From(gs, fs)
      PROVE  /\ gs \in Seq(FindingType) /\ gs # <<>>
             /\ Len(gs) \in Nat /\ Len(gs) <= Len(fs)
             /\ \A j \in DOMAIN gs : Recommends(gs[j]) /\ \E i \in DOMAIN fs : gs[j] = fs[i]
  <2>1. /\ gs # <<>> /\ Len(gs) <= Len(fs)
        /\ \A j \in DOMAIN gs : Recommends(gs[j]) /\ \E i \in DOMAIN fs : gs[j] = fs[i]
    BY <1>4 DEF From
  <2>2. PICK Y : gs \in Seq(Y) /\ Y = {fs[i] : i \in DOMAIN fs}
    BY <1>4 DEF From
  <2>3. Y \subseteq FindingType
    BY <1>2, <2>2
  <2>4. gs \in Seq(FindingType)
    BY <2>2, <2>3
  <2> QED BY <2>1, <2>4
<1>5. ASSUME NEW k \in DOMAIN r
      PROVE  /\ r[k] \in FindingType
             /\ \E i \in DOMAIN fs : Tells(r[k], fs[i]) /\ r[k].agreeing = fs[i].agreeing
  <2>1. CASE Lists(fs, r[k])
    <3>1. PICK i \in DOMAIN fs : fs[i] = r[k]
      BY <2>1 DEF Lists
    <3> QED BY <1>2, <1>3, <3>1
  <2>2. ASSUME NEW gs, From(gs, fs), r[k] = fold(gs)
        PROVE  /\ r[k] \in FindingType
               /\ \E i \in DOMAIN fs : Tells(r[k], fs[i]) /\ r[k].agreeing = fs[i].agreeing
    <3>1. gs \in Seq(FindingType) /\ gs # <<>> /\ \A j \in DOMAIN gs : Recommends(gs[j])
      BY <1>4, <2>2
    <3>2. /\ fold(gs) \in FindingType
          /\ \E p \in DOMAIN gs : Tells(fold(gs), gs[p]) /\ fold(gs).agreeing = gs[p].agreeing
      BY <3>1, FoldFacts
    <3> QED BY <1>4, <2>2, <3>2
  <2> QED BY <1>1, <2>1, <2>2
<1>6. ASSUME NEW i \in DOMAIN fs
      PROVE  \E g \in FindingType :
               /\ Lists(r, g) /\ AsBad(g, fs[i])
               /\ g = fs[i] \/ Recommends(g)
               /\ \/ g.file_path = fs[i].file_path /\ Spans(g, fs[i])
                  \/ Cites(g, fs[i])
                  \/ ~Room(fs) /\ Full(g)
  <2> DEFINE f == fs[i]
  <2>1. f \in FindingType
    BY <1>2
  <2>2. CASE Lists(r, f)
    BY <1>3, <2>1, <2>2
  <2>3. ASSUME NEW gs, From(gs, fs), Lists(gs, f), Lists(r, fold(gs))
        PROVE  \E g \in FindingType :
                 /\ Lists(r, g) /\ AsBad(g, f)
                 /\ g = f \/ Recommends(g)
                 /\ \/ g.file_path = f.file_path /\ Spans(g, f)
                    \/ Cites(g, f)
                    \/ ~Room(fs) /\ Full(g)
    <3> DEFINE g == fold(gs)
    <3>1. PICK j \in DOMAIN gs : gs[j] = f
      BY <2>3 DEF Lists
    <3>2. /\ gs \in Seq(FindingType) /\ gs # <<>> /\ Len(gs) \in Nat /\ Len(gs) <= Len(fs)
          /\ \A l \in DOMAIN gs : Recommends(gs[l]) /\ \E m \in DOMAIN fs : gs[l] = fs[m]
      BY <1>4, <2>3
    <3>3. /\ g \in FindingType /\ "more" \in g.title
          /\ \E p \in DOMAIN gs :
               /\ Tells(g, gs[p])
               /\ \/ \A l \in DOMAIN gs : l = p \/ Cites(g, gs[l])
                  \/ Len(gs[p].evidence) + Len(gs) > 13 /\ Len(g.evidence) = 12
          /\ \A l \in DOMAIN gs : AsBad(g, gs[l])
      BY <3>2, FoldFacts
    <3> HIDE DEF g, f
    <3>4. PICK p \in DOMAIN gs :
            /\ Tells(g, gs[p])
            /\ \/ \A l \in DOMAIN gs : l = p \/ Cites(g, gs[l])
               \/ Len(gs[p].evidence) + Len(gs) > 13 /\ Len(g.evidence) = 12
      BY <3>3
    <3>5. AsBad(g, f) /\ Lists(r, g) /\ Recommends(g)
      BY <2>3, <3>1, <3>2, <3>3, <3>4 DEF g, Tells, Recommends
    <3>6. CASE Len(gs[p].evidence) + Len(gs) > 13 /\ Len(g.evidence) = 12
      <4>1. PICK i1 \in DOMAIN fs : gs[p] = fs[i1]
        BY <3>2
      <4>2. Len(gs[p].evidence) \in Nat
        <5>1. gs[p].evidence \in Seq(EvidenceType)
          BY <3>2, FieldFacts
        <5> QED BY <5>1
      <4>3. Len(fs) \in Nat
        OBVIOUS
      <4>4. Len(fs[i1].evidence) + Len(fs) > 13
        BY <3>2, <3>6, <4>1, <4>2, <4>3
      <4>5. ~Room(fs)
        BY <4>1, <4>2, <4>3, <4>4 DEF Room
      <4> QED BY <3>3, <3>5, <3>6, <4>5 DEF Full
    <3>7. CASE \A l \in DOMAIN gs : l = p \/ Cites(g, gs[l])
      <4>1. CASE j = p
        BY <3>1, <3>3, <3>4, <3>5, <4>1 DEF Tells, Spans
      <4>2. CASE j # p
        BY <3>1, <3>3, <3>5, <3>7, <4>2
      <4> QED BY <4>1, <4>2
    <3> QED BY <3>4, <3>6, <3>7
  <2> QED BY <1>1, <2>2, <2>3
<1>7. r \in Seq(FindingType)
  <2>1. PICK Z : r \in Seq(Z)
    BY <1>1
  <2>2. Len(r) \in Nat /\ r \in [1..Len(r) -> FindingType]
    BY <1>5, <2>1
  <2> QED BY <2>2
<1> QED BY <1>5, <1>6, <1>7 DEF r

\* What the panel found is what the review says: each of its findings is one of
\* the panel's, agreed on by agents that reported on its lines, and each finding of
\* the panel has one that is as bad, names its category or is a recommendation, and
\* is on its lines or cites them, unless twelve pieces of evidence are not enough to
\* cite them all.
LEMMA ReviewFacts ==
    ASSUME NEW vs, NEW fs, fs = RawFindings(vs), fs \in Seq(FindingType),
           \A i \in DOMAIN fs : fs[i].agreeing = {}
    PROVE  /\ aggregate(vs).findings \in Seq(FindingType)
           /\ \A k \in DOMAIN aggregate(vs).findings :
                LET g == aggregate(vs).findings[k] IN
                /\ \E i \in DOMAIN fs : Tells(g, fs[i])
                /\ Agreed(g, fs)
           /\ \A i \in DOMAIN fs : \E k \in DOMAIN aggregate(vs).findings :
                LET g == aggregate(vs).findings[k] IN
                /\ AsBad(g, fs[i])
                /\ Names(g, fs[i]) \/ Recommends(g)
                /\ Stands(g, fs[i]) \/ (~Small(fs) /\ Full(g))
<1> DEFINE m == merge(fs)
           r == collapse_repeated(m)
           s == SortFindings(r)
<1>1. aggregate(vs).findings = s
  BY DEF aggregate
<1>2. /\ m \in Seq(FindingType) /\ Len(m) \in Nat /\ Len(m) <= Len(fs) /\ Len(fs) \in Nat
      /\ \A k \in DOMAIN m :
           /\ m[k] \in FindingType
           /\ \E f \in Members(fs) : Tells(m[k], f)
           /\ Agreed(m[k], fs)
           /\ Len(m[k].evidence) <= 6 \/ \E f \in Members(fs) : m[k].evidence = f.evidence
      /\ \A f \in Members(fs) : \E k \in DOMAIN m :
           m[k].file_path = f.file_path /\ Spans(m[k], f) /\ AsBad(m[k], f) /\ Names(m[k], f)
  <2>1. Len(fs) \in Nat
    OBVIOUS
  <2> HIDE DEF m
  <2>2. /\ m \in Seq(FindingType) /\ Len(m) <= Len(fs)
        /\ \A k \in DOMAIN m :
             /\ \E f \in Members(fs) : Tells(m[k], f)
             /\ Agreed(m[k], fs)
             /\ Len(m[k].evidence) <= 6 \/ \E f \in Members(fs) : m[k].evidence = f.evidence
        /\ \A f \in Members(fs) : \E k \in DOMAIN m :
             m[k].file_path = f.file_path /\ Spans(m[k], f) /\ AsBad(m[k], f) /\ Names(m[k], f)
    BY MergeFacts DEF m
  <2> QED BY <2>1, <2>2
<1> HIDE DEF m
<1>3. Small(fs) => Room(m)
  <2> SUFFICES ASSUME Small(fs), NEW k \in DOMAIN m PROVE Len(m[k].evidence) + Len(m) <= 13
    BY DEF Room
  <2>1. Len(fs) <= 7 /\ \A i \in DOMAIN fs : Len(fs[i].evidence) + Len(fs) <= 13
    BY DEF Small, Room
  <2>2. CASE Len(m[k].evidence) <= 6
    <3>1. m[k].evidence \in Seq(EvidenceType)
      BY <1>2, FieldFacts
    <3>2. Len(m[k].evidence) \in Nat
      BY <3>1
    <3> QED BY <1>2, <2>1, <2>2, <3>2
  <2>3. ASSUME NEW i \in DOMAIN fs, m[k].evidence = fs[i].evidence
        PROVE  Len(m[k].evidence) + Len(m) <= 13
    <3>1. m[k].evidence \in Seq(EvidenceType)
      BY <1>2, FieldFacts
    <3>2. Len(m[k].evidence) \in Nat
      BY <3>1
    <3>3. Len(m[k].evidence) + Len(fs) <= 13
      BY <2>1, <2>3
    <3> QED BY <1>2, <3>2, <3>3
  <2> QED BY <1>2, <2>2, <2>3 DEF Members
<1>4. /\ r \in Seq(FindingType)
      /\ \A k \in DOMAIN r : \E i \in DOMAIN m : Tells(r[k], m[i]) /\ r[k].agreeing = m[i].agreeing
      /\ \A i \in DOMAIN m : \E g \in FindingType :
           /\ Lists(r, g) /\ AsBad(g, m[i])
           /\ g = m[i] \/ Recommends(g)
           /\ \/ g.file_path = m[i].file_path /\ Spans(g, m[i])
              \/ Cites(g, m[i])
              \/ ~Room(m) /\ Full(g)
  BY <1>2, RepeatedFacts
<1> HIDE DEF r
<1>5. /\ DOMAIN s = DOMAIN r
      /\ \A k \in DOMAIN r : Lists(r, s[k])
      /\ \A x : Lists(r, x) => Lists(s, x)
  BY <1>4, SortFacts
<1> HIDE DEF s
<1>6. ASSUME NEW k \in DOMAIN s
      PROVE  /\ s[k] \in FindingType
             /\ \E i \in DOMAIN fs : Tells(s[k], fs[i])
             /\ Agreed(s[k], fs)
  <2>1. PICK l \in DOMAIN r : r[l] = s[k]
    BY <1>5 DEF Lists
  <2>2. PICK i \in DOMAIN m : Tells(r[l], m[i]) /\ r[l].agreeing = m[i].agreeing
    BY <1>4
  <2>3. PICK f \in Members(fs) : Tells(m[i], f)
    BY <1>2
  <2>4. f \in FindingType /\ m[i] \in FindingType /\ r[l] \in FindingType
    BY <1>2, <1>4 DEF Members
  <2>5. Tells(r[l], f)
    BY <2>2, <2>3, <2>4, TellsPasses
  <2>6. Agreed(r[l], fs)
    <3> SUFFICES ASSUME NEW a \in r[l].agreeing
                 PROVE  \E j \in DOMAIN fs :
                          /\ fs[j].agent = a /\ fs[j].file_path = r[l].file_path
                          /\ r[l].line_start <= fs[j].line_start
                          /\ fs[j].line_end <= r[l].line_end
      BY DEF Agreed
    <3>1. PICK j \in DOMAIN fs :
            /\ fs[j].agent = a /\ fs[j].file_path = m[i].file_path
            /\ m[i].line_start <= fs[j].line_start /\ fs[j].line_end <= m[i].line_end
      BY <1>2, <2>2 DEF Agreed
    <3>2. /\ fs[j].line_start \in Int /\ m[i].line_start \in Int /\ r[l].line_start \in Int
          /\ fs[j].line_end \in Int /\ m[i].line_end \in Int /\ r[l].line_end \in Int
      BY <2>4, FieldFacts
    <3> QED BY <2>2, <3>1, <3>2 DEF Tells
  <2> QED BY <1>2, <2>1, <2>2, <2>4, <2>5, <2>6 DEF Members
<1>7. ASSUME NEW i \in DOMAIN fs
      PROVE  \E k \in DOMAIN s :
               /\ AsBad(s[k], fs[i])
               /\ Names(s[k], fs[i]) \/ Recommends(s[k])
               /\ Stands(s[k], fs[i]) \/ (~Small(fs) /\ Full(s[k]))
  <2> DEFINE f == fs[i]
  <2>1. f \in FindingType /\ f \in Members(fs)
    BY DEF Members
  <2> HIDE DEF f
  <2>2. PICK k \in DOMAIN m : /\ m[k].file_path = f.file_path /\ Spans(m[k], f)
                              /\ AsBad(m[k], f) /\ Names(m[k], f)
    BY <1>2, <2>1
  <2> DEFINE h == m[k]
  <2>3. h \in FindingType
    BY <1>2
  <2>4. PICK g \in FindingType :
          /\ Lists(r, g) /\ AsBad(g, h)
          /\ g = h \/ Recommends(g)
          /\ \/ g.file_path = h.file_path /\ Spans(g, h)
             \/ Cites(g, h)
             \/ ~Room(m) /\ Full(g)
    BY <1>4
  <2>5. PICK l \in DOMAIN s : s[l] = g
    BY <1>5, <2>4 DEF Lists
  <2>6. AsBad(g, f)
    BY <2>1, <2>2, <2>3, <2>4, AsBadPasses
  <2>7. /\ f.line_start \in Int /\ h.line_start \in Int /\ g.line_start \in Int
        /\ f.line_end \in Int /\ h.line_end \in Int /\ g.line_end \in Int
    BY <2>1, <2>3, FieldFacts
  <2>8. h.line_start <= f.line_start /\ f.line_end <= h.line_end /\ h.file_path = f.file_path
    BY <2>2 DEF Spans
  <2>9. Stands(g, f) \/ (~Small(fs) /\ Full(g))
    <3>1. CASE g.file_path = h.file_path /\ Spans(g, h)
      BY <2>7, <2>8, <3>1 DEF Stands, Spans
    <3>2. CASE Cites(g, h)
      BY <2>8, <3>2 DEF Stands, Cites
    <3>3. CASE ~Room(m) /\ Full(g)
      BY <1>3, <3>3
    <3> QED BY <2>4, <3>1, <3>2, <3>3
  <2>10. Names(g, f) \/ Recommends(g)
    BY <2>2, <2>4
  <2> QED BY <2>5, <2>6, <2>9, <2>10 DEF f
<1>8. s \in Seq(FindingType)
  <2>1. Len(r) \in Nat /\ DOMAIN r = 1..Len(r)
    BY <1>4
  <2>2. s = [k \in 1..Len(r) |-> s[k]]
    BY <1>5, <2>1 DEF s, SortFindings
  <2>3. s \in [1..Len(r) -> FindingType]
    BY <1>5, <1>6, <2>1, <2>2
  <2> QED BY <2>1, <2>3
<1> QED BY <1>1, <1>6, <1>7, <1>8

=============================================================================
