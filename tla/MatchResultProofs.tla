------------------------- MODULE MatchResultProofs -------------------------
(***************************************************************************)
(* What MatchResult keeps for any players, songs, scores, scoring systems  *)
(* and outgoing rules, and for any number of rounds and tiebreaks.         *)
(*                                                                         *)
(* Three things are proved of the operators first: what a ranking gives    *)
(* (Ranked), how groups are arranged after any sequence of tiebreaks       *)
(* (Arranged) and what placements come of them.  The recursive functions   *)
(* of the model are unfolded by Iterated, and what holds of all their      *)
(* steps is counted up from zero (UpFromZero), both from the fact that     *)
(* every set of numbers has a least one.                                   *)
(*                                                                         *)
(* The invariant (MatchInv) is about the state: that tiebreaks stand is    *)
(* kept by invalidating them in time, and that rounds are ranked, by       *)
(* ranking them again in time.                                             *)
(***************************************************************************)
EXTENDS MatchResult, SequenceTheorems, FiniteSetTheorems, WellFoundedInduction, TLAPS

\* Counting up from zero: the least number that is not in S would have one before it.
LEMMA UpFromZero ==
    ASSUME NEW S, 0 \in S, \A n \in Nat : n \in S => n + 1 \in S
    PROVE  \A n \in Nat : n \in S
<1> DEFINE T == Nat \ S
           R == {pair \in Nat \X Nat : pair[1] < pair[2]}
<1> SUFFICES ASSUME NEW n \in Nat, n \notin S PROVE FALSE
  OBVIOUS
<1>1. IsWellFoundedOn(R, Nat)
  BY NatLessThanWellFounded DEF OpToRel
<1>2. PICK x \in T : \A y \in T : <<y, x>> \notin R
  <2>1. T \subseteq Nat /\ T # {}
    OBVIOUS
  <2> HIDE DEF R, T
  <2> QED BY <1>1, <2>1, WFMin
<1>3. x \in Nat /\ x \notin S /\ x # 0
  OBVIOUS
<1>4. x - 1 \in Nat /\ <<x - 1, x>> \in R
  BY <1>3
<1>5. x - 1 \in S
  BY <1>2, <1>4
<1> QED BY <1>3, <1>4, <1>5

\* What is made step by step, as R says, can be made in one go.
StepsIn(A, n, R) == \A i \in 1..n : \A x \in A : \E y \in A : <<i, x, y>> \in R

Histories(A, a, n, R) ==
    {f \in [0..n -> A] : f[0] = a /\ \A i \in 1..n : <<i, f[i - 1], f[i]>> \in R}

\* A step that can always be taken can be taken n times.
LEMMA Iterated ==
    ASSUME NEW A, NEW a \in A, NEW n \in Nat, NEW R, StepsIn(A, n, R)
    PROVE  Histories(A, a, n, R) # {}
<1> DEFINE Good(m, f) == f[0] = a /\ \A i \in 1..m : <<i, f[i - 1], f[i]>> \in R
           S == {m \in Nat : m <= n => \E f \in [0..m -> A] : Good(m, f)}
<1>1. 0 \in S
  <2>1. [i \in 0..0 |-> a] \in [0..0 -> A] /\ Good(0, [i \in 0..0 |-> a])
    OBVIOUS
  <2> QED BY <2>1
<1>2. ASSUME NEW m \in S, m + 1 <= n PROVE \E f \in [0..(m + 1) -> A] : Good(m + 1, f)
  <2>1. PICK f \in [0..m -> A] : Good(m, f)
    BY <1>2
  <2>2. PICK y \in A : <<m + 1, f[m], y>> \in R
    <3>1. m + 1 \in 1..n /\ f[m] \in A
      BY <1>2
    <3> QED BY <3>1 DEF StepsIn
  <2> DEFINE g == [i \in 0..(m + 1) |-> IF i = m + 1 THEN y ELSE f[i]]
  <2>3. g \in [0..(m + 1) -> A]
    BY <2>2
  <2>4. g[0] = a
    BY <2>1
  <2>5. ASSUME NEW i \in 1..(m + 1) PROVE <<i, g[i - 1], g[i]>> \in R
    BY SMTT(40), <2>1, <2>2
  <2> QED BY <2>3, <2>4, <2>5
<1>3. \A m \in Nat : m \in S
  <2>1. \A m \in Nat : m \in S => m + 1 \in S
    BY <1>2
  <2> HIDE DEF S
  <2> QED BY <1>1, <2>1, UpFromZero
<1>4. \E f \in [0..n -> A] : Good(n, f)
  BY <1>3
<1> QED BY <1>4 DEF Histories

\* The sums up to each number, which the recursive function in Sum is.
LEMMA SumUnfolds ==
    ASSUME NEW v \in Seq(Nat)
    PROVE  \E f \in [0..Len(v) -> Nat] :
              f[0] = 0 /\ (\A i \in 1..Len(v) : f[i] = f[i - 1] + v[i]) /\ Sum(v) = f[Len(v)]
<1> DEFINE F(g) == [i \in 0..Len(v) |-> IF i = 0 THEN 0 ELSE g[i - 1] + v[i]]
           u == CHOOSE g : g = F(g)
           R == {t \in (1..Len(v)) \X Nat \X Nat : t[3] = t[2] + v[t[1]]}
<1>1. PICK f \in [0..Len(v) -> Nat] : f[0] = 0 /\ \A i \in 1..Len(v) : <<i, f[i - 1], f[i]>> \in R
  <2>1. ASSUME NEW i \in 1..Len(v), NEW x \in Nat PROVE \E y \in Nat : <<i, x, y>> \in R
    <3>1. x + v[i] \in Nat /\ <<i, x, x + v[i]>> \in R
      OBVIOUS
    <3> QED BY <3>1
  <2> HIDE DEF R
  <2>2. StepsIn(Nat, Len(v), R)
    BY <2>1 DEF StepsIn
  <2>3. Histories(Nat, 0, Len(v), R) # {}
    <3>1. Len(v) \in Nat /\ 0 \in Nat
      OBVIOUS
    <3> QED BY <2>2, <3>1, Iterated
  <2> QED BY <2>3 DEF Histories
<1>2. f = F(f)
  <2>1. \A i \in 1..Len(v) : f[i] = f[i - 1] + v[i]
    BY <1>1
  <2> QED BY <1>1, <2>1
<1>3. u = F(u)
  <2> HIDE DEF F
  <2> QED BY <1>2
<1>4. Sum(v) = u[Len(v)]
  BY DEF Sum
<1>5. u = [i \in 0..Len(v) |-> IF i = 0 THEN 0 ELSE u[i - 1] + v[i]]
  <2> HIDE DEF u
  <2> QED BY <1>3
<1>6. \A i \in 0..Len(v) : u[i] = IF i = 0 THEN 0 ELSE u[i - 1] + v[i]
  <2> HIDE DEF u
  <2> QED BY <1>5
<1> DEFINE T == {j \in Nat : j <= Len(v) => u[j] \in Nat}
<1>7. \A i \in Nat : i \in T
  <2> HIDE DEF u
  <2>1. 0 \in T
    BY <1>6
  <2>2. ASSUME NEW j \in Nat, j \in T PROVE j + 1 \in T
    BY <1>6, <2>2
  <2> HIDE DEF T
  <2> QED BY <2>1, <2>2, UpFromZero
<1> QED
  <2> HIDE DEF u
  <2>1. u = [i \in 0..Len(v) |-> u[i]]
    BY <1>5
  <2>2. \A i \in 0..Len(v) : u[i] \in Nat
    BY <1>7
  <2>3. u \in [0..Len(v) -> Nat]
    BY <2>1, <2>2
  <2>4. u[0] = 0 /\ \A i \in 1..Len(v) : u[i] = u[i - 1] + v[i]
    BY <1>6
  <2> QED BY <1>4, <2>3, <2>4

\* A function on 1..n is a sequence of length n.
LEMMA TableIsSeq ==
    ASSUME NEW n \in Nat, NEW A, NEW v \in [1..n -> A]
    PROVE  v \in Seq(A) /\ Len(v) = n
  OBVIOUS

\* FirstOf chooses the least of a set of numbers.
LEMMA FirstIsFirst ==
    ASSUME NEW S \in SUBSET Nat, S # {}
    PROVE  FirstOf(S) \in S /\ \A j \in S : FirstOf(S) <= j
<1> DEFINE R == {pair \in Nat \X Nat : pair[1] < pair[2]}
<1>1. IsWellFoundedOn(R, Nat)
  BY NatLessThanWellFounded DEF OpToRel
<1>2. PICK x \in S : \A y \in S : <<y, x>> \notin R
  <2> HIDE DEF R
  <2> QED BY <1>1, WFMin
<1>3. \A y \in S : x <= y
  <2>1. ASSUME NEW y \in S PROVE ~(y < x)
    BY <1>2
  <2>2. x \in Nat /\ \A y \in S : y \in Nat
    OBVIOUS
  <2> QED BY <2>1, <2>2
<1> QED BY <1>3 DEF FirstOf

-----------------------------------------------------------------------------
(* Groups.                                                                 *)

\* groups are all of S, in order of the value, equal values together.
InOrder(groups, S, value) ==
    /\ groups \in Seq(SUBSET S)
    /\ \A p \in S : \E i \in DOMAIN groups : p \in groups[i]
    /\ \A i, j \in DOMAIN groups : \A p \in groups[i], q \in groups[j] :
          (i < j <=> value[p] > value[q]) /\ (i = j <=> value[p] = value[q])

\* Grouped puts everybody in one group, the groups in the order of the value.
LEMMA GroupedInOrder ==
    ASSUME NEW S, IsFiniteSet(S), NEW value \in [S -> Int]
    PROVE  InOrder(Grouped(S, value), S, value)
<1> DEFINE values == {value[p] : p \in S}
           Above(p) == {v \in values : v > value[p]}
           n == Cardinality(values)
           G == [i \in 1..n |-> {p \in S : Cardinality(Above(p)) = i - 1}]
<1>1. Grouped(S, value) = G
  BY DEF Grouped
<1>2. IsFiniteSet(values) /\ n \in Nat
  <2>1. value \in Surjection(S, values)
    BY DEF Surjection
  <2> QED BY <2>1, FS_Surjection, FS_CardinalityType
<1>3. ASSUME NEW p \in S
      PROVE  /\ IsFiniteSet(Above(p)) /\ Cardinality(Above(p)) \in Nat
             /\ Cardinality(Above(p)) < n
  <2>1. Above(p) \in SUBSET values /\ Above(p) # values
    <3>1. value[p] \in values /\ value[p] \notin Above(p)
      OBVIOUS
    <3> QED BY <3>1
  <2> HIDE DEF Above, values
  <2>2. IsFiniteSet(Above(p)) /\ Cardinality(Above(p)) \in Nat
    BY <1>2, <2>1, FS_Subset, FS_CardinalityType
  <2>3. Cardinality(Above(p)) <= n /\ (n = Cardinality(Above(p)) => values = Above(p))
    BY <1>2, <2>1, FS_Subset
  <2> QED BY <2>1, <2>2, <2>3, <1>2
<1>4. ASSUME NEW p \in S, NEW q \in S, value[p] > value[q]
      PROVE  Cardinality(Above(p)) < Cardinality(Above(q))
  <2>1. Above(p) \in SUBSET Above(q) /\ Above(p) # Above(q)
    <3>1. value[p] \in Above(q) /\ value[p] \notin Above(p)
      BY <1>4
    <3>2. \A v \in values : v \in Int
      OBVIOUS
    <3>3. Above(p) \subseteq Above(q)
      BY <1>4, <3>2
    <3> QED BY <3>1, <3>3
  <2> HIDE DEF Above, values
  <2>2. /\ Cardinality(Above(p)) <= Cardinality(Above(q))
        /\ Cardinality(Above(q)) = Cardinality(Above(p)) => Above(q) = Above(p)
    BY <1>3, <2>1, FS_Subset
  <2> QED BY <1>3, <2>1, <2>2
<1>5. ASSUME NEW p \in S, NEW q \in S, value[p] = value[q]
      PROVE  Cardinality(Above(p)) = Cardinality(Above(q))
  BY <1>5
<1>6. G \in Seq(SUBSET S) /\ DOMAIN G = 1..n
  <2> DEFINE Q == SUBSET S
  <2>1. G \in [1..n -> Q]
    OBVIOUS
  <2>2. n \in Nat
    BY <1>2
  <2> HIDE DEF G, n, Q
  <2>3. G \in Seq(Q) /\ DOMAIN G = 1..n
    BY <2>1, <2>2, TableIsSeq
  <2> QED BY <2>3 DEF Q
<1>7. ASSUME NEW p \in S PROVE \E i \in DOMAIN G : p \in G[i]
  <2> HIDE DEF Above, n
  <2>1. Cardinality(Above(p)) + 1 \in 1..n
    BY <1>2, <1>3
  <2>2. p \in G[Cardinality(Above(p)) + 1]
    BY <1>2, <1>3, <2>1
  <2> HIDE DEF G
  <2> QED BY <1>6, <2>1, <2>2
<1>8. ASSUME NEW i \in DOMAIN G, NEW j \in DOMAIN G, NEW p \in G[i], NEW q \in G[j]
      PROVE  /\ i < j <=> value[p] > value[q]
             /\ i = j <=> value[p] = value[q]
  <2> HIDE DEF Above, n
  <2>1. i \in 1..n /\ j \in 1..n /\ p \in S /\ q \in S
    OBVIOUS
  <2>2. Cardinality(Above(p)) = i - 1 /\ Cardinality(Above(q)) = j - 1
    OBVIOUS
  <2>3. value[p] \in Int /\ value[q] \in Int
    BY <2>1
  <2> HIDE DEF G
  <2>4. CASE value[p] > value[q]
    BY <1>2, <2>1, <2>2, <2>3, <2>4, <1>4
  <2>5. CASE value[p] < value[q]
    <3>1. Cardinality(Above(q)) < Cardinality(Above(p))
      BY <2>1, <2>3, <2>5, <1>4
    <3> QED BY <1>2, <2>1, <2>2, <2>3, <2>5, <3>1
  <2>6. CASE value[p] = value[q]
    BY <1>2, <2>1, <2>2, <2>3, <2>6, <1>5
  <2> QED BY <2>3, <2>4, <2>5, <2>6
<1>9. /\ \A p \in S : \E i \in DOMAIN G : p \in G[i]
      /\ \A i, j \in DOMAIN G : \A p \in G[i], q \in G[j] :
            (i < j <=> value[p] > value[q]) /\ (i = j <=> value[p] = value[q])
  <2> HIDE DEF G
  <2> QED BY <1>7, <1>8
<1> HIDE DEF G, values, Above, n
<1>10. InOrder(G, S, value)
  BY <1>6, <1>9 DEF InOrder
<1> QED BY <1>1, <1>10

\* Sums of natural numbers are natural numbers.
LEMMA SumType ==
    ASSUME NEW n \in Nat, NEW value \in [1..n -> Nat]
    PROVE  Sum(value) \in Nat
<1>1. value \in Seq(Nat) /\ Len(value) = n
  BY TableIsSeq
<1>2. PICK f \in [0..Len(value) -> Nat] : Sum(value) = f[Len(value)]
  BY <1>1, SumUnfolds
<1> QED BY <1>1, <1>2

Longer(tables, option) == {Append(a, r) : a \in tables, r \in option}

\* What Remade makes has one of the options at each place.
LEMMA RemadeIsChosen ==
    ASSUME NEW n \in Nat, NEW A, NEW options, Len(options) = n,
           \A i \in 1..n : options[i] \subseteq A, NEW rs, rs \in Remade(options)
    PROVE  rs \in Seq(A) /\ Len(rs) = n /\ \A i \in 1..n : rs[i] \in options[i]
<1> DEFINE none == {<<>>}
           F(g) == [i \in 0..n |-> IF i = 0 THEN none ELSE Longer(g[i - 1], options[i])]
           u == CHOOSE g : g = F(g)
<1>2. \E f : f = F(f)
  <2>1. PICK U : U = SUBSET Seq(A)
    OBVIOUS
  <2>2. PICK R : R = {t \in (1..n) \X U \X U : t[3] = Longer(t[2], options[t[1]])}
    OBVIOUS
  <2>3. PICK a : a = none
    OBVIOUS
  <2>4. a \in U
    BY <2>1, <2>3
  <2>5. ASSUME NEW i \in 1..n, NEW x \in U PROVE \E y \in U : <<i, x, y>> \in R
    <3>1. Longer(x, options[i]) \in U
      <4>1. options[i] \subseteq A /\ x \subseteq Seq(A)
        BY <2>1
      <4>2. ASSUME NEW s \in x, NEW r \in options[i] PROVE Append(s, r) \in Seq(A)
        BY <4>1, AppendProperties
      <4> QED BY <2>1, <4>2 DEF Longer
    <3>2. <<i, x, Longer(x, options[i])>> \in R
      BY <2>2, <3>1
    <3> QED BY <3>1, <3>2
  <2>6. PICK f \in [0..n -> U] : f[0] = a /\ \A i \in 1..n : <<i, f[i - 1], f[i]>> \in R
    <3>1. StepsIn(U, n, R)
      BY <2>5 DEF StepsIn
    <3>2. Histories(U, a, n, R) # {}
      BY <2>4, <3>1, Iterated
    <3> QED BY <3>2 DEF Histories
  <2>7. \A i \in 1..n : f[i] = Longer(f[i - 1], options[i])
    BY <2>2, <2>6
  <2>8. f = F(f)
    BY <2>3, <2>6, <2>7
  <2> HIDE DEF F
  <2> QED BY <2>8
<1>3. u = F(u)
  <2> HIDE DEF F
  <2> QED BY <1>2
<1>4. Remade(options) = u[n]
  BY DEF Remade, Longer
<1>5. u = [i \in 0..n |->
             IF i = 0 THEN none ELSE Longer(u[i - 1], options[i])]
  <2> HIDE DEF u
  <2> QED BY <1>3
<1> HIDE DEF u
<1>6. u[0] = none /\ \A i \in 1..n : u[i] = Longer(u[i - 1], options[i])
  <2> HIDE DEF none
  <2>1. \A i \in 0..n : u[i] = IF i = 0 THEN none ELSE Longer(u[i - 1], options[i])
    BY <1>5
  <2> QED BY <2>1
<1> DEFINE Fine(s, j) == s \in Seq(A) /\ Len(s) = j /\ \A i \in 1..j : s[i] \in options[i]
           T == {j \in Nat : j <= n => \A s \in u[j] : Fine(s, j)}
<1>7. 0 \in T
  <2>1. u[0] = {<<>>}
    BY <1>6
  <2>2. ASSUME NEW s \in u[0] PROVE Fine(s, 0)
    <3>1. s = <<>>
      BY <2>1
    <3> QED BY <3>1
  <2> HIDE DEF Fine
  <2> QED BY <2>2
<1>8. ASSUME NEW j \in Nat, j \in T, j + 1 <= n, NEW s \in u[j + 1] PROVE Fine(s, j + 1)
  <2>1. j + 1 \in 1..n /\ j \in 0..n /\ j <= n
    BY <1>8
  <2>2. u[j + 1] = Longer(u[j], options[j + 1])
    BY <1>6, <2>1
  <2>3. PICK a \in u[j], r \in options[j + 1] : s = Append(a, r)
    BY <2>2 DEF Longer
  <2>4. Fine(a, j) /\ r \in A
    BY <1>8, <2>1
  <2>5. /\ s \in Seq(A) /\ Len(s) = j + 1
        /\ \A i \in 1..j : s[i] = a[i]
        /\ s[j + 1] = r
    BY <2>3, <2>4, AppendProperties
  <2>6. ASSUME NEW i \in 1..(j + 1) PROVE s[i] \in options[i]
    <3>1. CASE i = j + 1
      BY <3>1, <2>5
    <3>2. CASE i # j + 1
      <4>1. i \in 1..j
        BY <3>2
      <4> QED BY <4>1, <2>4, <2>5
    <3> QED BY <3>1, <3>2
  <2> QED BY <2>5, <2>6
<1>9. \A j \in Nat : j \in T
  <2>1. \A j \in Nat : j \in T => j + 1 \in T
    BY <1>8
  <2> HIDE DEF T
  <2> QED BY <1>7, <2>1, UpFromZero
<1> QED BY <1>4, <1>9

-----------------------------------------------------------------------------
(* Ranking a round.                                                        *)

SongStanding == [score : Scores, points : Nat]

\* A standing is not None.
LEMMA StandingIsThere == None \notin SongStanding
  BY NoneAssumption DEF SongStanding

\* The standings of a song are typed, and finitely many.
LEMMA HeldTypes ==
    ASSUME NEW r \in SongRound
    PROVE  /\ Held(r) \subseteq Players /\ IsFiniteSet(Held(r)) /\ Cardinality(Held(r)) \in Nat
           /\ \A p \in Held(r) : /\ r.of[p] \in SongStanding
                                 /\ r.of[p].score.percentage \in Nat
                                 /\ r.of[p].score.isFailed \in BOOLEAN
<1>1. Held(r) \in SUBSET Players
  BY DEF Held
<1>2. IsFiniteSet(Held(r)) /\ Cardinality(Held(r)) \in Nat
  BY <1>1, PlayersAssumption, FS_Subset, FS_CardinalityType
<1>3. ASSUME NEW p \in Held(r)
      PROVE  /\ r.of[p] \in SongStanding
             /\ r.of[p].score.percentage \in Nat /\ r.of[p].score.isFailed \in BOOLEAN
  <2>1. p \in Players /\ r.of[p] # None
    BY DEF Held
  <2>2. r.of[p] \in SongStanding
    BY <2>1 DEF SongRound, SongStanding
  <2>3. r.of[p].score \in [percentage : Nat, isFailed : BOOLEAN]
    BY <2>2, ScoresAssumption DEF SongStanding
  <2> QED BY <2>2, <2>3
<1> QED BY <1>1, <1>2, <1>3

\* Pointed changes the points of the standings only.
LEMMA PointedIs ==
    ASSUME NEW r \in SongRound, NEW points, \A p \in Held(r) : points[p] \in Nat
    PROVE  /\ Pointed(r, points) \in SongRound /\ Pointed(r, points).song = r.song
           /\ Held(Pointed(r, points)) = Held(r)
           /\ \A p \in Held(r) : /\ Pointed(r, points).of[p].score = r.of[p].score
                                 /\ Pointed(r, points).of[p].points = points[p]
<1> DEFINE of == [p \in Players |->
                    IF r.of[p] = None THEN None ELSE [r.of[p] EXCEPT !.points = points[p]]]
<1>1. Pointed(r, points) = [r EXCEPT !.of = of]
  BY DEF Pointed
<1>2. ASSUME NEW p \in Players, p \in Held(r)
      PROVE  /\ of[p] \in SongStanding /\ of[p] # None
             /\ of[p].score = r.of[p].score /\ of[p].points = points[p]
  <2>1. r.of[p] \in SongStanding /\ r.of[p] # None
    BY <1>2, HeldTypes DEF Held
  <2>2. of[p] = [r.of[p] EXCEPT !.points = points[p]]
    BY <2>1
  <2>3. of[p] \in SongStanding /\ of[p].score = r.of[p].score /\ of[p].points = points[p]
    BY <2>1, <2>2, <1>2 DEF SongStanding
  <2> QED BY <2>3, StandingIsThere
<1>3. ASSUME NEW p \in Players, p \notin Held(r) PROVE of[p] = None
  BY <1>3 DEF Held
<1>4. of \in [Players -> SongStanding \union {None}]
  <2>1. \A p \in Players : of[p] \in SongStanding \union {None}
    BY <1>2, <1>3
  <2>2. of = [p \in Players |-> of[p]]
    OBVIOUS
  <2> HIDE DEF of
  <2> QED BY <2>1, <2>2
<1> HIDE DEF of
<1>5. /\ [r EXCEPT !.of = of] \in SongRound /\ [r EXCEPT !.of = of].song = r.song
      /\ [r EXCEPT !.of = of].of = of
  BY <1>4 DEF SongRound, SongStanding
<1>6. Held(Pointed(r, points)) = {p \in Players : of[p] # None}
  BY <1>1, <1>5 DEF Held
<1>7. {p \in Players : of[p] # None} = Held(r)
  BY <1>2, <1>3 DEF Held
<1>8. ASSUME NEW p \in Held(r)
      PROVE  /\ Pointed(r, points).of[p].score = r.of[p].score
             /\ Pointed(r, points).of[p].points = points[p]
  <2>1. p \in Players
    BY DEF Held
  <2> QED BY <2>1, <1>1, <1>2, <1>5
<1> QED BY <1>1, <1>5, <1>6, <1>7, <1>8

\* Zeroed leaves no points.
LEMMA ZeroedIs ==
    ASSUME NEW r \in SongRound
    PROVE  /\ Zeroed(r) \in SongRound /\ Zeroed(r).song = r.song /\ Held(Zeroed(r)) = Held(r)
           /\ \A p \in Held(r) : Zeroed(r).of[p].points = 0
<1> DEFINE points == [p \in Players |-> 0]
<1>1. \A p \in Held(r) : points[p] \in Nat /\ points[p] = 0
  BY DEF Held
<1>2. Zeroed(r) = Pointed(r, points)
  BY DEF Zeroed
<1> HIDE DEF points
<1> QED BY <1>1, <1>2, PointedIs

\* Whose score counts in a round, and whose is better than that of p.
Eligible(r, sys) ==
    {p \in Held(r) : sys = "PlacementPointsWithFailZero" => ~r.of[p].score.isFailed}

BetterIn(r, sys, p) ==
    {q \in Eligible(r, sys) : r.of[q].score.percentage > r.of[p].score.percentage}

\* awardPlacementPoints gives a point for each standing that is not better.
LEMMA AwardedIs ==
    ASSUME NEW r \in SongRound, NEW includeFails \in BOOLEAN,
           NEW sys, includeFails <=> sys # "PlacementPointsWithFailZero"
    PROVE  \A p \in Held(r) :
              /\ Awarded(r, includeFails)[p] \in Nat
              /\ Awarded(r, includeFails)[p] =
                    IF p \in Eligible(r, sys)
                    THEN Cardinality(Held(r)) - Cardinality(BetterIn(r, sys, p)) ELSE 0
<1> DEFINE E == Eligible(r, sys)
           value == [p \in E |-> r.of[p].score.percentage]
           groups == Grouped(E, value)
<1>1. E = {p \in Held(r) : includeFails \/ ~r.of[p].score.isFailed}
  BY DEF Eligible
<1>2. Awarded(r, includeFails) =
        [p \in Held(r) |->
            IF p \in E
            THEN LET i == CHOOSE i \in DOMAIN groups : p \in groups[i]
                 IN  Cardinality(Held(r)) - AheadOf(groups, i)
            ELSE 0]
  BY <1>1 DEF Awarded
<1>3. E \in SUBSET Held(r) /\ IsFiniteSet(E) /\ value \in [E -> Int]
  <2>1. E \in SUBSET Held(r)
    BY DEF Eligible
  <2>2. IsFiniteSet(E)
    BY <2>1, HeldTypes, FS_Subset
  <2>3. \A p \in E : r.of[p].score.percentage \in Int
    BY <2>1, HeldTypes
  <2> HIDE DEF E
  <2> QED BY <2>1, <2>2, <2>3
<1> HIDE DEF E
<1>4. ASSUME NEW p \in E
      PROVE  LET i == CHOOSE i \in DOMAIN groups : p \in groups[i]
             IN  UNION {groups[j] : j \in 1..(i - 1)} = BetterIn(r, sys, p)
  <2> DEFINE i == CHOOSE i \in DOMAIN groups : p \in groups[i]
  <2>1. /\ groups \in Seq(SUBSET E)
        /\ \A q \in E : \E j \in DOMAIN groups : q \in groups[j]
        /\ \A j, k \in DOMAIN groups : \A q \in groups[j], o \in groups[k] :
              (j < k <=> value[q] > value[o]) /\ (j = k <=> value[q] = value[o])
    <3> HIDE DEF value
    <3>1. InOrder(groups, E, value)
      BY <1>3, GroupedInOrder
    <3> HIDE DEF groups
    <3> QED BY <3>1 DEF InOrder
  <2> HIDE DEF groups
  <2>2. i \in DOMAIN groups /\ p \in groups[i]
    BY <2>1
  <2> HIDE DEF i
  <2>3. DOMAIN groups = 1..Len(groups) /\ Len(groups) \in Nat
    BY <2>1
  <2>4. ASSUME NEW q \in BetterIn(r, sys, p) PROVE q \in UNION {groups[j] : j \in 1..(i - 1)}
    <3>1. q \in E /\ value[q] > value[p]
      BY DEF BetterIn, E
    <3>2. PICK j \in DOMAIN groups : q \in groups[j]
      BY <3>1, <2>1
    <3>3. j < i
      BY <2>1, <2>2, <3>1, <3>2
    <3>4. j \in 1..(i - 1)
      BY <2>2, <2>3, <3>3
    <3> QED BY <3>2, <3>4
  <2>5. ASSUME NEW q \in UNION {groups[j] : j \in 1..(i - 1)} PROVE q \in BetterIn(r, sys, p)
    <3>1. PICK j \in 1..(i - 1) : q \in groups[j]
      OBVIOUS
    <3>2. j \in DOMAIN groups /\ j < i
      BY <2>2, <2>3
    <3>3. q \in E
      BY <3>1, <3>2, <2>1, <2>3
    <3>4. value[q] > value[p]
      BY <3>1, <3>2, <2>1, <2>2
    <3> QED BY <3>3, <3>4 DEF BetterIn, E
  <2> QED BY <2>4, <2>5 DEF i
<1>5. ASSUME NEW p \in Held(r)
      PROVE  /\ IsFiniteSet(BetterIn(r, sys, p)) /\ Cardinality(BetterIn(r, sys, p)) \in Nat
             /\ Cardinality(BetterIn(r, sys, p)) <= Cardinality(Held(r))
  <2>1. BetterIn(r, sys, p) \in SUBSET Held(r)
    BY <1>3 DEF BetterIn, E
  <2> QED BY <2>1, HeldTypes, FS_Subset, FS_CardinalityType
<1>6. ASSUME NEW p \in Held(r)
      PROVE  Awarded(r, includeFails)[p] =
                IF p \in E THEN Cardinality(Held(r)) - Cardinality(BetterIn(r, sys, p)) ELSE 0
  <2> DEFINE i == CHOOSE i \in DOMAIN groups : p \in groups[i]
  <2>1. Awarded(r, includeFails)[p] =
          IF p \in E THEN Cardinality(Held(r)) - AheadOf(groups, i) ELSE 0
    BY <1>2
  <2>2. p \in E => AheadOf(groups, i) = Cardinality(BetterIn(r, sys, p))
    BY <1>4 DEF AheadOf
  <2> QED BY <2>1, <2>2
<1>7. ASSUME NEW p \in Held(r) PROVE Awarded(r, includeFails)[p] \in Nat
  BY <1>5, <1>6, HeldTypes
<1> QED BY <1>6, <1>7 DEF E

\* The points of a round are those its scores come to.
Ranked(r, S, sys) ==
    IF ~Complete(r, S) THEN \A p \in Held(r) : r.of[p].points = 0
    ELSE IF sys = "RoundWinner"
    THEN \E w \in Held(r) : /\ BetterIn(r, sys, w) = {}
                            /\ \A p \in Held(r) : r.of[p].points = IF p = w THEN 1 ELSE 0
    ELSE \A p \in Held(r) : r.of[p].points =
            IF p \in Eligible(r, sys)
            THEN Cardinality(Held(r)) - Cardinality(BetterIn(r, sys, p)) ELSE 0

\* What each scoring system gives.
LEMMA AwardsAreNat ==
    ASSUME NEW r \in SongRound, NEW sys \in Systems, NEW award \in Awards(r, sys)
    PROVE  /\ \A p \in Held(r) : award[p] \in Nat
           /\ sys = "RoundWinner" =>
                 \E w \in Held(r) : /\ BetterIn(r, sys, w) = {}
                                    /\ \A p \in Held(r) : award[p] = IF p = w THEN 1 ELSE 0
           /\ sys # "RoundWinner" =>
                 \A p \in Held(r) : award[p] =
                    IF p \in Eligible(r, sys)
                    THEN Cardinality(Held(r)) - Cardinality(BetterIn(r, sys, p)) ELSE 0
<1>1. CASE sys = "RoundWinner"
  <2>1. PICK w \in Winners(r) : award = [p \in Held(r) |-> IF p = w THEN 1 ELSE 0]
    BY <1>1 DEF Awards
  <2>2. w \in Held(r)
    BY DEF Winners
  <2>3. BetterIn(r, sys, w) = {}
    <3>1. ASSUME NEW q \in BetterIn(r, sys, w) PROVE FALSE
      <4>1. q \in Held(r) /\ r.of[q].score.percentage > r.of[w].score.percentage
        BY DEF BetterIn, Eligible
      <4>2. r.of[q].score.percentage <= r.of[w].score.percentage
        BY <4>1 DEF Winners
      <4> QED BY <4>1, <4>2, <2>2, HeldTypes
    <3> QED BY <3>1
  <2> QED BY <1>1, <2>1, <2>2, <2>3
<1>2. CASE sys # "RoundWinner"
  <2>1. PICK includeFails \in BOOLEAN :
           /\ includeFails <=> sys # "PlacementPointsWithFailZero"
           /\ award = Awarded(r, includeFails)
    BY <1>2, SystemsAssumption DEF Awards
  <2> QED BY <1>2, <2>1, AwardedIs
<1> QED BY <1>1, <1>2

\* Ranking depends on the scores, not on the points there are.
LEMMA SameScores ==
    ASSUME NEW r, NEW made, Held(made) = Held(r),
           \A p \in Held(r) : made.of[p].score = r.of[p].score, NEW sys
    PROVE  /\ Eligible(made, sys) = Eligible(r, sys)
           /\ \A p \in Held(r) : BetterIn(made, sys, p) = BetterIn(r, sys, p)
<1>1. Eligible(made, sys) = Eligible(r, sys)
  BY DEF Eligible
<1>2. Eligible(r, sys) \subseteq Held(r)
  BY DEF Eligible
<1> QED BY <1>1, <1>2 DEF BetterIn

\* A round that is ranked if it is complete is as its scores say.
LEMMA RankingRanks ==
    ASSUME NEW r \in SongRound, NEW S, NEW sys \in Systems,
           NEW made \in RankIfComplete(r, S, sys),
           ~Complete(r, S) => \A p \in Held(r) : r.of[p].points = 0
    PROVE  /\ made \in SongRound /\ made.song = r.song /\ Held(made) = Held(r)
           /\ Ranked(made, S, sys)
<1>1. CASE Complete(r, S)
  <2>1. PICK award \in Awards(r, sys) : made = Pointed(r, award)
    BY <1>1 DEF RankIfComplete
  <2>2. \A p \in Held(r) : award[p] \in Nat
    BY AwardsAreNat
  <2>3. /\ made \in SongRound /\ made.song = r.song /\ Held(made) = Held(r)
        /\ \A p \in Held(r) : /\ made.of[p].score = r.of[p].score
                              /\ made.of[p].points = award[p]
    BY <2>1, <2>2, PointedIs
  <2>4. Complete(made, S)
    BY <1>1, <2>3 DEF Complete
  <2>5. Eligible(made, sys) = Eligible(r, sys)
        /\ \A p \in Held(r) : BetterIn(made, sys, p) = BetterIn(r, sys, p)
    BY <2>3, SameScores
  <2>6. CASE sys = "RoundWinner"
    <3>1. PICK w \in Held(r) : /\ BetterIn(r, sys, w) = {}
                               /\ \A p \in Held(r) : award[p] = IF p = w THEN 1 ELSE 0
      BY <2>6, AwardsAreNat
    <3>2. /\ w \in Held(made) /\ BetterIn(made, sys, w) = {}
          /\ \A p \in Held(made) : made.of[p].points = IF p = w THEN 1 ELSE 0
      BY <2>3, <2>5, <3>1
    <3> QED BY <2>3, <2>4, <2>6, <3>2 DEF Ranked
  <2>7. CASE sys # "RoundWinner"
    <3>1. \A p \in Held(made) : made.of[p].points =
            IF p \in Eligible(made, sys)
            THEN Cardinality(Held(made)) - Cardinality(BetterIn(made, sys, p)) ELSE 0
      BY <2>3, <2>5, <2>7, AwardsAreNat
    <3> QED BY <2>3, <2>4, <2>7, <3>1 DEF Ranked
  <2> QED BY <2>6, <2>7
<1>2. CASE ~Complete(r, S)
  <2>1. made = r
    BY <1>2 DEF RankIfComplete
  <2> QED BY <1>2, <2>1 DEF Ranked
<1> QED BY <1>1, <1>2

\* Ranking a round keeps its song and its standings.
LEMMA RankingType ==
    ASSUME NEW r \in SongRound, NEW S, NEW sys \in Systems,
           NEW made \in RankIfComplete(r, S, sys)
    PROVE  made \in SongRound /\ made.song = r.song /\ Held(made) = Held(r)
<1>1. CASE Complete(r, S)
  <2>1. PICK award \in Awards(r, sys) : made = Pointed(r, award)
    BY <1>1 DEF RankIfComplete
  <2>2. \A p \in Held(r) : award[p] \in Nat
    BY AwardsAreNat
  <2> QED BY <2>1, <2>2, PointedIs
<1>2. CASE ~Complete(r, S)
  BY <1>2 DEF RankIfComplete
<1> QED BY <1>1, <1>2

-----------------------------------------------------------------------------
(* What the commands make of a round.                                      *)

Round == SongRound \union HandRound

HandStanding == [score : {None}, points : Nat]

\* The two kinds of rounds, and a round as a record.
LEMMA KindOfRound ==
    ASSUME NEW r \in Round
    PROVE  /\ r \in SongRound <=> r.song # None
           /\ r \in HandRound <=> r.song = None
           /\ r.song # None => r.song \in Songs
           /\ Held(r) \in SUBSET Players
           /\ r = [song |-> r.song, of |-> r.of]
           /\ r.of = [p \in Players |-> r.of[p]]
  BY NoneAssumption DEF Round, SongRound, HandRound, Held

\* The standings of a round are of its kind.
LEMMA RoundParts ==
    ASSUME NEW r \in Round
    PROVE  /\ r.song # None => \A p \in Players : r.of[p] = None \/ r.of[p] \in SongStanding
           /\ r.song = None => \A p \in Players : r.of[p] = None \/ r.of[p] \in HandStanding
           /\ \E song, of : r = [song |-> song, of |-> of]
  BY NoneAssumption DEF Round, SongRound, HandRound, SongStanding, HandStanding

\* A record of a song and standings of its kind is a round.
LEMMA RoundFrom ==
    ASSUME NEW song \in Songs \union {None}, NEW of, of = [p \in Players |-> of[p]],
           song # None => \A p \in Players : of[p] = None \/ of[p] \in SongStanding,
           song = None => \A p \in Players : of[p] = None \/ of[p] \in HandStanding
    PROVE  [song |-> song, of |-> of] \in Round
<1>1. CASE song # None
  <2>1. of \in [Players -> SongStanding \union {None}]
    BY <1>1
  <2> QED BY <2>1, <1>1 DEF Round, SongRound, SongStanding
<1>2. CASE song = None
  <2>1. of \in [Players -> HandStanding \union {None}]
    BY <1>2
  <2> QED BY <2>1, <1>2 DEF Round, HandRound, HandStanding
<1> QED BY <1>1, <1>2

\* Staying drops the standings of everybody else.
LEMMA StayingIs ==
    ASSUME NEW r \in Round, NEW S
    PROVE  /\ Staying(r, S) \in Round /\ Staying(r, S).song = r.song
           /\ Held(Staying(r, S)) = Held(r) \intersect S
<1> DEFINE of == [p \in Players |-> IF p \in S THEN r.of[p] ELSE None]
<1>1. Staying(r, S) = [song |-> r.song, of |-> of]
  BY RoundParts DEF Staying
<1>2. \A p \in Players : of[p] = IF p \in S THEN r.of[p] ELSE None
  OBVIOUS
<1>3. of = [p \in Players |-> of[p]]
  OBVIOUS
<1> HIDE DEF of
<1>4. Staying(r, S) \in Round
  <2>1. r.song \in Songs \union {None}
    BY KindOfRound
  <2>2. /\ r.song # None => \A p \in Players : of[p] = None \/ of[p] \in SongStanding
        /\ r.song = None => \A p \in Players : of[p] = None \/ of[p] \in HandStanding
    BY <1>2, RoundParts
  <2> QED BY <1>1, <1>3, <2>1, <2>2, RoundFrom
<1>5. Held(Staying(r, S)) = Held(r) \intersect S
  BY <1>1, <1>2 DEF Held
<1> QED BY <1>1, <1>4, <1>5

\* A round that is settled again is as its scores say.
LEMMA SettledAgainIs ==
    ASSUME NEW r \in Round, NEW S, NEW sys \in Systems, NEW made \in SettledAgain(r, S, sys)
    PROVE  /\ made \in Round /\ made.song = r.song /\ Held(made) = Held(r)
           /\ made.song # None => Ranked(made, S, sys)
<1>1. CASE r.song = None
  BY <1>1 DEF SettledAgain
<1>2. CASE r.song # None /\ Complete(r, S)
  <2>1. made \in RankIfComplete(r, S, sys) /\ r \in SongRound
    BY <1>2, KindOfRound DEF SettledAgain
  <2> QED BY <1>2, <2>1, RankingRanks DEF Round
<1>3. CASE r.song # None /\ ~Complete(r, S)
  <2>1. made = Zeroed(r) /\ r \in SongRound
    BY <1>3, KindOfRound DEF SettledAgain
  <2>2. /\ made \in SongRound /\ made.song = r.song /\ Held(made) = Held(r)
        /\ \A p \in Held(r) : made.of[p].points = 0
    BY <2>1, ZeroedIs
  <2>3. ~Complete(made, S)
    BY <1>3, <2>2 DEF Complete
  <2> QED BY <2>2, <2>3 DEF Ranked, Round
<1> QED BY <1>1, <1>2, <1>3

\* What may be written of a player in a round of the song.
MayStand(song, score, points) ==
    /\ points \in Nat
    /\ song = None => score = None
    /\ song # None => score \in Scores

\* Written puts one standing in.
LEMMA WrittenIs ==
    ASSUME NEW r \in Round, NEW p \in Players, NEW score, NEW points, MayStand(r.song, score, points)
    PROVE  /\ Written(r, p, score, points) \in Round
           /\ Written(r, p, score, points).song = r.song
           /\ Held(Written(r, p, score, points)) = Held(r) \union {p}
           /\ \A q \in Players : Written(r, p, score, points).of[q] =
                 IF q = p THEN [score |-> score, points |-> points] ELSE r.of[q]
<1> DEFINE new == [score |-> score, points |-> points]
           of == [r.of EXCEPT ![p] = new]
<1>1. Written(r, p, score, points) = [song |-> r.song, of |-> of]
  BY RoundParts DEF Written
<1>2. new # None
  BY NoneAssumption DEF MayStand
<1>3. \A q \in Players : of[q] = IF q = p THEN new ELSE r.of[q]
  BY KindOfRound
<1>4. of = [q \in Players |-> of[q]]
  BY KindOfRound
<1>5. /\ r.song # None => new \in SongStanding
      /\ r.song = None => new \in HandStanding
  BY DEF SongStanding, HandStanding, MayStand
<1> HIDE DEF of, new
<1>6. Written(r, p, score, points) \in Round
  <2>1. r.song \in Songs \union {None}
    BY KindOfRound
  <2>2. /\ r.song # None => \A q \in Players : of[q] = None \/ of[q] \in SongStanding
        /\ r.song = None => \A q \in Players : of[q] = None \/ of[q] \in HandStanding
    BY <1>3, <1>5, RoundParts
  <2> QED BY <1>1, <1>4, <2>1, <2>2, RoundFrom
<1>7. Held(Written(r, p, score, points)) = Held(r) \union {p}
  BY <1>1, <1>2, <1>3 DEF Held
<1> QED BY <1>1, <1>3, <1>6, <1>7 DEF new

\* Without takes one standing out, and leaves a song without points.
LEMMA WithoutIs ==
    ASSUME NEW r \in Round, NEW p \in Players
    PROVE  /\ Without(r, p) \in Round /\ Without(r, p).song = r.song
           /\ Held(Without(r, p)) = Held(r) \ {p}
           /\ r.song # None => \A q \in Held(Without(r, p)) : Without(r, p).of[q].points = 0
<1> DEFINE of == [r.of EXCEPT ![p] = None]
           left == [r EXCEPT !.of[p] = None]
<1>1. left = [song |-> r.song, of |-> of]
  BY RoundParts
<1>2. \A q \in Players : of[q] = IF q = p THEN None ELSE r.of[q]
  BY KindOfRound
<1>3. of = [q \in Players |-> of[q]]
  BY KindOfRound
<1> HIDE DEF of
<1>4. left \in Round /\ left.song = r.song
  <2>1. r.song \in Songs \union {None}
    BY KindOfRound
  <2>2. /\ r.song # None => \A q \in Players : of[q] = None \/ of[q] \in SongStanding
        /\ r.song = None => \A q \in Players : of[q] = None \/ of[q] \in HandStanding
    BY <1>2, RoundParts
  <2>3. [song |-> r.song, of |-> of] \in Round
    BY <1>3, <2>1, <2>2, RoundFrom
  <2> HIDE DEF left
  <2> QED BY <1>1, <2>3
<1>5. Held(left) = Held(r) \ {p}
  BY <1>1, <1>2 DEF Held
<1>6. Without(r, p) = IF r.song # None THEN Zeroed(left) ELSE left
  BY DEF Without
<1> HIDE DEF left
<1>7. CASE r.song = None
  BY <1>4, <1>5, <1>6, <1>7
<1>8. CASE r.song # None
  <2>1. left \in SongRound
    BY <1>4, <1>8, KindOfRound
  <2> QED BY <1>4, <1>5, <1>6, <1>8, <2>1, ZeroedIs DEF Round
<1> QED BY <1>7, <1>8

\* A new round has no standings.
LEMMA NewRoundIs ==
    ASSUME NEW song \in Songs \union {None}
    PROVE  NewRound(song) \in Round /\ NewRound(song).song = song /\ Held(NewRound(song)) = {}
<1> DEFINE of == [p \in Players |-> None]
<1>1. NewRound(song) = [song |-> song, of |-> of]
  BY DEF NewRound
<1>2. \A p \in Players : of[p] = None
  OBVIOUS
<1>3. of = [p \in Players |-> of[p]]
  OBVIOUS
<1> HIDE DEF of
<1>4. NewRound(song) \in Round
  BY <1>1, <1>2, <1>3, RoundFrom DEF Round
<1> QED BY <1>1, <1>2, <1>4 DEF Held

\* The round r with the runs of W.
Scored(r, runs, W) ==
    [r EXCEPT !.of = [p \in Players |->
        IF p \in W THEN [score |-> runs[p], points |-> 0] ELSE @[p]]]

\* Of each of W there is a score.
RunsOf(runs, W) == \A p \in W : runs[p] \in Scores

\* Scored puts the standings of W in.
LEMMA ScoredIs ==
    ASSUME NEW r \in SongRound, NEW W \in SUBSET Players, NEW runs, RunsOf(runs, W)
    PROVE  /\ Scored(r, runs, W) \in SongRound /\ Scored(r, runs, W).song = r.song
           /\ Held(Scored(r, runs, W)) = Held(r) \union W
           /\ \A p \in Players : Scored(r, runs, W).of[p] =
                 IF p \in W THEN [score |-> runs[p], points |-> 0] ELSE r.of[p]
<1> DEFINE of == [p \in Players |-> IF p \in W THEN [score |-> runs[p], points |-> 0] ELSE r.of[p]]
<1>0. r \in Round
  BY DEF Round
<1>1. Scored(r, runs, W) = [song |-> r.song, of |-> of]
  BY <1>0, RoundParts DEF Scored
<1>2. \A p \in Players : of[p] = IF p \in W THEN [score |-> runs[p], points |-> 0] ELSE r.of[p]
  OBVIOUS
<1>3. of = [p \in Players |-> of[p]]
  OBVIOUS
<1> HIDE DEF of
<1>4. \A p \in W : [score |-> runs[p], points |-> 0] \in SongStanding
  BY DEF SongStanding, RunsOf
<1>5. r.song \in Songs /\ r.song # None
  BY <1>0, KindOfRound
<1>6. Scored(r, runs, W) \in SongRound
  <2>1. \A p \in Players : of[p] = None \/ of[p] \in SongStanding
    BY <1>0, <1>2, <1>4, <1>5, RoundParts
  <2>2. [song |-> r.song, of |-> of] \in Round
    BY <1>3, <1>5, <2>1, RoundFrom
  <2> QED BY <1>1, <1>5, <2>2, KindOfRound
<1>7. Held(Scored(r, runs, W)) = Held(r) \union W
  <2>1. \A p \in W : [score |-> runs[p], points |-> 0] # None
    BY <1>4, StandingIsThere
  <2>2. \A p \in Players : of[p] # None <=> p \in W \/ r.of[p] # None
    BY <1>2, <2>1
  <2>3. Held(Scored(r, runs, W)) = {p \in Players : of[p] # None}
    BY <1>1 DEF Held
  <2> QED BY <2>2, <2>3 DEF Held
<1> QED BY <1>1, <1>2, <1>6, <1>7

-----------------------------------------------------------------------------
(* What a match amounts to.                                                *)

Tiebreak == SongTiebreak \union HandTiebreak

\* Points and percentages are natural numbers.
LEMMA PointsAreNat ==
    ASSUME NEW r \in Round, NEW p \in Players
    PROVE  /\ r.of[p] # None => r.of[p].points \in Nat
           /\ Passed(r, p) => r.of[p].score.percentage \in Nat
<1>1. CASE r.song = None
  <2>1. r.of[p] # None => r.of[p] \in HandStanding
    BY <1>1, RoundParts
  <2> QED BY <2>1 DEF HandStanding, Passed
<1>2. CASE r.song # None
  <2>1. r.of[p] # None => r.of[p] \in SongStanding
    BY <1>2, RoundParts
  <2> QED BY <2>1, ScoresAssumption DEF SongStanding, Passed
<1> QED BY <1>1, <1>2

\* So are totals, and what averages are made of.
LEMMA TotalsAreNat ==
    ASSUME rounds \in Seq(Round), NEW p \in Players
    PROVE  Total(p) \in Nat /\ PassedSum(p) \in Nat /\ Count(p) \in Nat
<1>1. Len(rounds) \in Nat /\ DOMAIN rounds = 1..Len(rounds) /\ \A i \in 1..Len(rounds) : rounds[i] \in Round
  OBVIOUS
<1>2. Total(p) \in Nat
  <2> DEFINE points == [i \in 1..Len(rounds) |->
                           IF rounds[i].of[p] = None THEN 0 ELSE rounds[i].of[p].points]
  <2>1. points \in [1..Len(rounds) -> Nat]
    BY <1>1, PointsAreNat
  <2>2. Total(p) = Sum(points)
    BY DEF Total
  <2> HIDE DEF points
  <2> QED BY <1>1, <2>1, <2>2, SumType
<1>3. PassedSum(p) \in Nat
  <2> DEFINE passed == [i \in 1..Len(rounds) |->
                           IF Passed(rounds[i], p) THEN rounds[i].of[p].score.percentage ELSE 0]
  <2>1. passed \in [1..Len(rounds) -> Nat]
    BY <1>1, PointsAreNat
  <2>2. PassedSum(p) = Sum(passed)
    BY DEF PassedSum
  <2> HIDE DEF passed
  <2> QED BY <1>1, <2>1, <2>2, SumType
<1>4. Count(p) \in Nat
  <2>1. {i \in DOMAIN rounds : Passed(rounds[i], p)} \in SUBSET (1..Len(rounds))
    BY <1>1
  <2>2. IsFiniteSet(1..Len(rounds))
    BY <1>1, FS_Interval
  <2> QED BY <2>1, <2>2, FS_Subset, FS_CardinalityType DEF Count
<1> QED BY <1>2, <1>3, <1>4

\* The two kinds of tiebreaks, and a tiebreak as a record.
LEMMA KindOfTiebreak ==
    ASSUME NEW t \in Tiebreak
    PROVE  /\ DOMAIN t.of \in SUBSET Players /\ t.invalidated \in BOOLEAN
           /\ t.song # None => t.song \in Songs /\ \A p \in DOMAIN t.of : t.of[p] \in Scores \union {None}
           /\ t.song = None => \A p \in DOMAIN t.of : t.of[p] \in Nat
           /\ t.of = [p \in DOMAIN t.of |-> t.of[p]]
           /\ t = [song |-> t.song, invalidated |-> t.invalidated, of |-> t.of]
           /\ \E song, invalidated, of : t = [song |-> song, invalidated |-> invalidated, of |-> of]
<1>1. CASE t \in SongTiebreak
  <2>1. PICK S \in SUBSET Players : t \in [song : Songs, invalidated : BOOLEAN, of : [S -> Scores \union {None}]]
    BY <1>1 DEF SongTiebreak
  <2> QED BY <2>1, NoneAssumption
<1>2. CASE t \in HandTiebreak
  <2>1. PICK S \in SUBSET Players : t \in [song : {None}, invalidated : BOOLEAN, of : [S -> Nat]]
    BY <1>2 DEF HandTiebreak
  <2> QED BY <2>1
<1> QED BY <1>1, <1>2 DEF Tiebreak

\* A record of a song and evidence of its kind is a tiebreak.
LEMMA TiebreakFrom ==
    ASSUME NEW song \in Songs \union {None}, NEW invalidated \in BOOLEAN,
           NEW S \in SUBSET Players, NEW of, of = [p \in S |-> of[p]],
           song # None => \A p \in S : of[p] \in Scores \union {None},
           song = None => \A p \in S : of[p] \in Nat
    PROVE  [song |-> song, invalidated |-> invalidated, of |-> of] \in Tiebreak
<1>1. CASE song # None
  <2>1. of \in [S -> Scores \union {None}]
    BY <1>1
  <2> QED BY <2>1, <1>1 DEF Tiebreak, SongTiebreak
<1>2. CASE song = None
  <2>1. of \in [S -> Nat]
    BY <1>2
  <2> QED BY <2>1, <1>2 DEF Tiebreak, HandTiebreak
<1> QED BY <1>1, <1>2

\* Evidence is compared as integers.
LEMMA MeritsAreInt ==
    ASSUME NEW t \in Tiebreak
    PROVE  /\ Merits(t) \in [DOMAIN t.of -> Int]
           /\ \A p \in DOMAIN t.of : Merits(t)[p] = Merit(t, p)
<1>1. ASSUME NEW p \in DOMAIN t.of PROVE Merit(t, p) \in Int
  <2>1. CASE t.song = None
    <3>1. t.of[p] \in Nat
      BY <2>1, KindOfTiebreak
    <3> QED BY <2>1, <3>1 DEF Merit
  <2>2. CASE t.song # None /\ t.of[p] = None
    BY <2>2 DEF Merit
  <2>3. CASE t.song # None /\ t.of[p] # None
    <3>1. t.of[p] \in [percentage : Nat, isFailed : BOOLEAN]
      BY <2>3, KindOfTiebreak, ScoresAssumption
    <3> QED BY <2>3, <3>1 DEF Merit
  <2> QED BY <2>1, <2>2, <2>3
<1> QED BY <1>1 DEF Merits

-----------------------------------------------------------------------------
(* Splitting the groups.                                                   *)

\* made is g with the i-th group in the parts h.
Spliced(made, g, i, h) ==
    /\ Len(made) = Len(g) - 1 + Len(h)
    /\ \A k \in 1..(i - 1) : made[k] = g[k]
    /\ \A k \in i..(i + Len(h) - 1) : made[k] = h[k - i + 1]
    /\ \A k \in (i + Len(h))..Len(made) : made[k] = g[k - Len(h) + 1]

\* Concatenating what is before, the parts and what is after splices them.
LEMMA SpliceIs ==
    ASSUME NEW A, NEW g \in Seq(A), NEW i \in 1..Len(g), NEW h \in Seq(A)
    PROVE  /\ SubSeq(g, 1, i - 1) \o h \o SubSeq(g, i + 1, Len(g)) \in Seq(A)
           /\ Spliced(SubSeq(g, 1, i - 1) \o h \o SubSeq(g, i + 1, Len(g)), g, i, h)
<1> DEFINE a == SubSeq(g, 1, i - 1)
           c == SubSeq(g, i + 1, Len(g))
<1>1. Len(g) \in Nat /\ Len(h) \in Nat /\ \A k \in 1..Len(g) : g[k] \in A
  OBVIOUS
<1>2. a \in Seq(A) /\ Len(a) = i - 1 /\ \A k \in 1..(i - 1) : a[k] = g[k]
  <2>1. \A k \in 1..(i - 1) : g[k] \in A
    BY <1>1
  <2>2. /\ a \in Seq(A) /\ Len(a) = IF 1 <= i - 1 THEN (i - 1) - 1 + 1 ELSE 0
        /\ \A k \in 1..((i - 1) - 1 + 1) : a[k] = g[1 + k - 1]
    BY <2>1, SubSeqProperties
  <2> HIDE DEF a
  <2> QED BY <2>2
<1>3. c \in Seq(A) /\ Len(c) = Len(g) - i /\ \A k \in 1..(Len(g) - i) : c[k] = g[k + i]
  <2>1. \A k \in (i + 1)..Len(g) : g[k] \in A
    BY <1>1
  <2>2. /\ c \in Seq(A) /\ Len(c) = IF i + 1 <= Len(g) THEN Len(g) - (i + 1) + 1 ELSE 0
        /\ \A k \in 1..(Len(g) - (i + 1) + 1) : c[k] = g[(i + 1) + k - 1]
    BY <1>1, <2>1, SubSeqProperties
  <2> HIDE DEF c
  <2> QED BY <1>1, <2>2
<1> HIDE DEF a, c
<1>4. /\ a \o h \in Seq(A) /\ Len(a \o h) = i - 1 + Len(h)
      /\ \A k \in 1..(i - 1 + Len(h)) : (a \o h)[k] = IF k <= i - 1 THEN a[k] ELSE h[k - (i - 1)]
  BY <1>2, ConcatProperties
<1>5. PICK ah \in Seq(A) : ah = a \o h
  BY <1>4
<1>6. /\ ah \o c \in Seq(A) /\ Len(ah \o c) = Len(ah) + Len(c)
      /\ \A k \in 1..(Len(ah) + Len(c)) :
            (ah \o c)[k] = IF k <= Len(ah) THEN ah[k] ELSE c[k - Len(ah)]
  BY <1>3, ConcatProperties
<1>7. PICK made \in Seq(A) : made = ah \o c
  BY <1>6
<1>8. Len(made) = Len(g) - 1 + Len(h)
  BY <1>1, <1>3, <1>4, <1>5, <1>6, <1>7
<1>9. ASSUME NEW k \in 1..Len(made)
      PROVE  made[k] = IF k <= i - 1 THEN g[k]
                       ELSE IF k <= i - 1 + Len(h) THEN h[k - i + 1] ELSE g[k - Len(h) + 1]
  <2>1. CASE k <= i - 1
    BY SMTT(40), <2>1, <1>1, <1>2, <1>4, <1>5, <1>6, <1>7, <1>8, <1>3
  <2>2. CASE k > i - 1 /\ k <= i - 1 + Len(h)
    BY SMTT(40), <2>2, <1>1, <1>4, <1>5, <1>6, <1>7, <1>8, <1>3
  <2>3. CASE k > i - 1 + Len(h)
    <3>1. k - (i - 1 + Len(h)) \in 1..(Len(g) - i)
      BY <2>3, <1>1, <1>8
    <3>2. made[k] = c[k - (i - 1 + Len(h))]
      BY SMTT(40), <2>3, <1>1, <1>3, <1>4, <1>5, <1>6, <1>7, <1>8
    <3>3. c[k - (i - 1 + Len(h))] = g[k - (i - 1 + Len(h)) + i]
      BY <3>1, <1>3
    <3>4. k - (i - 1 + Len(h)) + i = k - Len(h) + 1
      BY <1>1
    <3> QED BY <2>3, <3>2, <3>3, <3>4, <1>1
  <2> QED BY <2>1, <2>2, <2>3, <1>1
<1>10. Spliced(made, g, i, h)
  <2>1. ASSUME NEW k \in 1..(i - 1) PROVE made[k] = g[k]
    <3>1. k \in 1..Len(made)
      BY <1>1, <1>8
    <3> QED BY <3>1, <1>9
  <2>2. ASSUME NEW k \in i..(i + Len(h) - 1) PROVE made[k] = h[k - i + 1]
    <3>1. k \in 1..Len(made) /\ ~(k <= i - 1) /\ k <= i - 1 + Len(h)
      BY <1>1, <1>8
    <3> QED BY <3>1, <1>9
  <2>3. ASSUME NEW k \in (i + Len(h))..Len(made) PROVE made[k] = g[k - Len(h) + 1]
    <3>1. k \in 1..Len(made) /\ ~(k <= i - 1) /\ ~(k <= i - 1 + Len(h))
      BY <1>1, <1>8
    <3> QED BY <3>1, <1>9
  <2> QED BY <1>8, <2>1, <2>2, <2>3 DEF Spliced
<1> QED BY <1>5, <1>7, <1>10 DEF a, c

\* SplitBy changes nothing, or one group.
LEMMA SplitByIs ==
    ASSUME NEW A, NEW g \in Seq(SUBSET A), NEW t
    PROVE  \/ SplitBy(g, t) = g
           \/ \E i \in 1..Len(g) :
                 /\ g[i] = DOMAIN t.of
                 /\ SplitBy(g, t) = SubSeq(g, 1, i - 1) \o Grouped(g[i], Merits(t))
                                       \o SubSeq(g, i + 1, Len(g))
<1> DEFINE hit == {i \in DOMAIN g : g[i] = DOMAIN t.of}
           i == CHOOSE i \in hit : TRUE
<1>1. CASE hit = {}
  BY <1>1 DEF SplitBy
<1>2. CASE hit # {}
  <2>1. i \in hit
    BY <1>2
  <2>2. SplitBy(g, t) = SubSeq(g, 1, i - 1) \o Grouped(g[i], Merits(t)) \o SubSeq(g, i + 1, Len(g))
    BY <1>2 DEF SplitBy
  <2> HIDE DEF i
  <2>3. i \in 1..Len(g) /\ g[i] = DOMAIN t.of
    BY <2>1
  <2> HIDE DEF hit
  <2> QED BY <2>2, <2>3
<1> QED BY <1>1, <1>2

\* The group it changes is that of its players, in the order of their merits.
LEMMA SplitBySplices ==
    ASSUME NEW g \in Seq(SUBSET Players), NEW t \in Tiebreak
    PROVE  /\ SplitBy(g, t) \in Seq(SUBSET Players)
           /\ \/ SplitBy(g, t) = g
              \/ \E i \in 1..Len(g), h \in Seq(SUBSET Players) :
                    /\ g[i] = DOMAIN t.of /\ h = Grouped(g[i], Merits(t))
                    /\ InOrder(h, g[i], Merits(t))
                    /\ Spliced(SplitBy(g, t), g, i, h)
<1> DEFINE A == SUBSET Players
<1>1. CASE SplitBy(g, t) = g
  BY <1>1
<1>2. CASE SplitBy(g, t) # g
  <2>1. PICK i \in 1..Len(g) :
            /\ g[i] = DOMAIN t.of
            /\ SplitBy(g, t) = SubSeq(g, 1, i - 1) \o Grouped(g[i], Merits(t))
                                  \o SubSeq(g, i + 1, Len(g))
    BY <1>2, SplitByIs
  <2>2. g[i] \in SUBSET Players /\ IsFiniteSet(g[i])
    <3>1. g[i] \in SUBSET Players
      OBVIOUS
    <3> QED BY <3>1, PlayersAssumption, FS_Subset
  <2>3. Merits(t) \in [g[i] -> Int]
    BY <2>1, MeritsAreInt
  <2>4. PICK h : h = Grouped(g[i], Merits(t))
    OBVIOUS
  <2>5. InOrder(h, g[i], Merits(t))
    BY <2>2, <2>3, <2>4, GroupedInOrder
  <2>6. h \in Seq(A)
    <3>1. h \in Seq(SUBSET g[i])
      BY <2>5 DEF InOrder
    <3>2. SUBSET g[i] \subseteq A
      BY <2>2
    <3> QED BY <3>1, <3>2, SeqMonotonic
  <2>7. g \in Seq(A)
    OBVIOUS
  <2>8. PICK made : made = SubSeq(g, 1, i - 1) \o h \o SubSeq(g, i + 1, Len(g))
    OBVIOUS
  <2> HIDE DEF A
  <2>9. made \in Seq(A) /\ Spliced(made, g, i, h)
    BY <2>6, <2>7, <2>8, SpliceIs
  <2>10. SplitBy(g, t) = made
    BY <2>1, <2>4, <2>8
  <2> QED BY <2>1, <2>4, <2>5, <2>6, <2>9, <2>10 DEF A
<1> QED BY <1>1, <1>2

\* A tiebreak that counts has p before q.
TiebreakSays(p, q) ==
    \E i \in DOMAIN tiebreaks :
        /\ ~tiebreaks[i].invalidated /\ TiebreakComplete(tiebreaks[i])
        /\ {p, q} \subseteq DOMAIN tiebreaks[i].of
        /\ Merit(tiebreaks[i], p) > Merit(tiebreaks[i], q)

\* The groups are all entrants, each in one; who is in an earlier one has more
\* points, or as many and the better of a tiebreak.
Arranged(g) ==
    /\ g \in Seq(SUBSET Players)
    /\ \A k \in DOMAIN g : g[k] \subseteq entrants
    /\ \A p \in entrants : \E k \in DOMAIN g : p \in g[k]
    /\ \A k, l \in DOMAIN g : \A p \in g[k], q \in g[l] :
          /\ p = q => k = l
          /\ k = l => Total(p) = Total(q)
          /\ k < l => Total(p) > Total(q) \/ (Total(p) = Total(q) /\ TiebreakSays(p, q))

\* Grouped by points, the players are arranged.
LEMMA ArrangedByTotal ==
    ASSUME rounds \in Seq(Round), entrants \in SUBSET Players
    PROVE  Arranged(Grouped(entrants, [p \in entrants |-> Total(p)]))
<1> DEFINE value == [p \in entrants |-> Total(p)]
<1>1. value \in [entrants -> Int] /\ IsFiniteSet(entrants)
  BY TotalsAreNat, PlayersAssumption, FS_Subset
<1>2. \A p \in entrants : value[p] = Total(p) /\ Total(p) \in Int
  BY TotalsAreNat
<1> HIDE DEF value
<1>3. PICK g : g = Grouped(entrants, value)
  OBVIOUS
<1>4. InOrder(g, entrants, value)
  BY <1>1, <1>3, GroupedInOrder
<1>5. /\ g \in Seq(SUBSET entrants)
      /\ \A p \in entrants : \E k \in DOMAIN g : p \in g[k]
      /\ \A k, l \in DOMAIN g : \A p \in g[k], q \in g[l] :
            (k < l <=> value[p] > value[q]) /\ (k = l <=> value[p] = value[q])
  BY <1>4 DEF InOrder
<1>6. \A k \in DOMAIN g : g[k] \subseteq entrants
  BY <1>5
<1>7. g \in Seq(SUBSET Players)
  <2>1. SUBSET entrants \subseteq SUBSET Players
    OBVIOUS
  <2> QED BY <2>1, <1>5, SeqMonotonic
<1>8. ASSUME NEW k \in DOMAIN g, NEW l \in DOMAIN g, NEW p \in g[k], NEW q \in g[l]
      PROVE  /\ p = q => k = l
             /\ k = l => Total(p) = Total(q)
             /\ k < l => Total(p) > Total(q)
  <2>1. p \in entrants /\ q \in entrants
    BY <1>6
  <2>2. (k < l <=> value[p] > value[q]) /\ (k = l <=> value[p] = value[q])
    BY <1>5
  <2> QED BY <2>1, <2>2, <1>2
<1>9. \A k, l \in DOMAIN g : \A p \in g[k], q \in g[l] :
         /\ p = q => k = l
         /\ k = l => Total(p) = Total(q)
         /\ k < l => Total(p) > Total(q) \/ (Total(p) = Total(q) /\ TiebreakSays(p, q))
  BY <1>8
<1>10. Arranged(g)
  BY <1>5, <1>6, <1>7, <1>9 DEF Arranged
<1> QED BY <1>3, <1>10 DEF value

\* A tiebreak that counts leaves them arranged.
LEMMA ArrangedSplit ==
    ASSUME rounds \in Seq(Round), tiebreaks \in Seq(Tiebreak), NEW g, Arranged(g),
           NEW j \in DOMAIN tiebreaks, ~tiebreaks[j].invalidated, TiebreakComplete(tiebreaks[j])
    PROVE  Arranged(SplitBy(g, tiebreaks[j]))
<1> DEFINE t == tiebreaks[j]
<1>1. /\ g \in Seq(SUBSET Players)
      /\ \A k \in DOMAIN g : g[k] \subseteq entrants
      /\ \A p \in entrants : \E k \in DOMAIN g : p \in g[k]
      /\ \A k, l \in DOMAIN g : \A p \in g[k], q \in g[l] :
            /\ p = q => k = l
            /\ k = l => Total(p) = Total(q)
            /\ k < l => Total(p) > Total(q) \/ (Total(p) = Total(q) /\ TiebreakSays(p, q))
  BY DEF Arranged
<1>2. t \in Tiebreak
  OBVIOUS
<1>3. PICK s : s = SplitBy(g, t)
  OBVIOUS
<1>4. CASE s = g
  BY <1>3, <1>4
<1>5. CASE s # g
  <2>1. /\ s \in Seq(SUBSET Players)
        /\ \E i \in 1..Len(g), h \in Seq(SUBSET Players) :
              /\ g[i] = DOMAIN t.of /\ h = Grouped(g[i], Merits(t))
              /\ InOrder(h, g[i], Merits(t)) /\ Spliced(s, g, i, h)
    <3> HIDE DEF t
    <3> QED BY <1>1, <1>2, <1>3, <1>5, SplitBySplices
  <2>2. PICK i \in 1..Len(g), h \in Seq(SUBSET Players) :
              /\ g[i] = DOMAIN t.of /\ InOrder(h, g[i], Merits(t)) /\ Spliced(s, g, i, h)
    BY <2>1
  <2>3. /\ DOMAIN g = 1..Len(g) /\ Len(g) \in Nat /\ DOMAIN h = 1..Len(h) /\ Len(h) \in Nat
        /\ DOMAIN s = 1..Len(s) /\ Len(s) \in Nat
    BY <1>1, <2>1, <2>2
  <2>4. /\ \A k \in DOMAIN h : h[k] \subseteq g[i]
        /\ \A p \in g[i] : \E k \in DOMAIN h : p \in h[k]
        /\ \A k, l \in DOMAIN h : \A p \in h[k], q \in h[l] :
              (k < l <=> Merit(t, p) > Merit(t, q)) /\ (k = l <=> Merit(t, p) = Merit(t, q))
    <3>1. h \in Seq(SUBSET g[i])
      BY <2>2 DEF InOrder
    <3>2. \A k \in DOMAIN h : h[k] \subseteq g[i]
      BY <3>1
    <3>3. \A p \in g[i] : Merits(t)[p] = Merit(t, p)
      BY <1>2, <2>2, MeritsAreInt
    <3> QED BY <2>2, <3>2, <3>3 DEF InOrder
  <2> HIDE DEF t
  <2>5. /\ Len(s) = Len(g) - 1 + Len(h)
        /\ \A k \in 1..(i - 1) : s[k] = g[k]
        /\ \A k \in i..(i + Len(h) - 1) : s[k] = h[k - i + 1]
        /\ \A k \in (i + Len(h))..Len(s) : s[k] = g[k - Len(h) + 1]
    BY <2>2 DEF Spliced
  <2> DEFINE o(k) == IF k < i THEN k ELSE IF k < i + Len(h) THEN i ELSE k - Len(h) + 1
  <2>6. ASSUME NEW k \in DOMAIN s PROVE o(k) \in DOMAIN g /\ s[k] \subseteq g[o(k)]
    <3>1. CASE k < i
      <4>1. k \in 1..(i - 1) /\ o(k) = k
        BY <3>1, <2>3
      <4> QED BY <4>1, <2>3, <2>5
    <3>2. CASE k >= i /\ k < i + Len(h)
      <4>1. k \in i..(i + Len(h) - 1) /\ o(k) = i /\ k - i + 1 \in DOMAIN h
        BY <3>2, <2>3
      <4> QED BY <4>1, <2>3, <2>4, <2>5
    <3>3. CASE k >= i + Len(h)
      <4>1. k \in (i + Len(h))..Len(s) /\ o(k) = k - Len(h) + 1
        BY <3>3, <2>3
      <4>2. o(k) \in DOMAIN g
        BY <4>1, <2>3, <2>5
      <4> QED BY <4>1, <4>2, <2>5
    <3> QED BY <3>1, <3>2, <3>3, <2>3
  <2>7. ASSUME NEW k \in DOMAIN s, NEW l \in DOMAIN s, k < l
        PROVE  \/ o(k) < o(l)
               \/ /\ o(k) = i /\ o(l) = i
                  /\ k - i + 1 \in DOMAIN h /\ l - i + 1 \in DOMAIN h
                  /\ s[k] = h[k - i + 1] /\ s[l] = h[l - i + 1]
    <3>1. CASE k >= i /\ l < i + Len(h)
      <4>1. k \in i..(i + Len(h) - 1) /\ l \in i..(i + Len(h) - 1)
        BY <3>1, <2>3, <2>7
      <4>2. k - i + 1 \in DOMAIN h /\ l - i + 1 \in DOMAIN h /\ o(k) = i /\ o(l) = i
        BY <4>1, <2>3
      <4>3. s[k] = h[k - i + 1] /\ s[l] = h[l - i + 1]
        BY <4>1, <2>5
      <4> QED BY <4>2, <4>3
    <3>2. CASE ~(k >= i /\ l < i + Len(h))
      <4>1. o(k) < o(l)
        BY <3>2, <2>3, <2>7
      <4> QED BY <4>1
    <3> QED BY <3>1, <3>2
  <2>8. \A k \in DOMAIN s : s[k] \subseteq entrants
    BY <2>6, <1>1
  <2>9. ASSUME NEW p \in entrants PROVE \E k \in DOMAIN s : p \in s[k]
    <3>1. PICK k \in DOMAIN g : p \in g[k]
      BY <1>1
    <3>2. CASE k < i
      <4>1. k \in 1..(i - 1) /\ k \in DOMAIN s
        BY <3>2, <2>3, <2>5
      <4> QED BY <3>1, <4>1, <2>5
    <3>3. CASE k = i
      <4>1. PICK l \in DOMAIN h : p \in h[l]
        BY <3>1, <3>3, <2>4
      <4>2. l + i - 1 \in i..(i + Len(h) - 1) /\ l + i - 1 \in DOMAIN s /\ (l + i - 1) - i + 1 = l
        BY <2>3, <2>5
      <4>3. s[l + i - 1] = h[l]
        BY <4>2, <2>5
      <4> QED BY <4>1, <4>2, <4>3
    <3>4. CASE k > i
      <4>1. /\ k + Len(h) - 1 \in (i + Len(h))..Len(s) /\ k + Len(h) - 1 \in DOMAIN s
            /\ (k + Len(h) - 1) - Len(h) + 1 = k
        BY <3>4, <2>3, <2>5
      <4>2. s[k + Len(h) - 1] = g[k]
        BY <4>1, <2>5
      <4> QED BY <3>1, <4>1, <4>2
    <3> QED BY <3>2, <3>3, <3>4, <2>3
  <2>10. ASSUME NEW k \in DOMAIN s, NEW l \in DOMAIN s, k < l, NEW p \in s[k], NEW q \in s[l]
         PROVE  p # q /\ (Total(p) > Total(q) \/ (Total(p) = Total(q) /\ TiebreakSays(p, q)))
    <3>1. CASE o(k) < o(l)
      <4>1. o(k) \in DOMAIN g /\ o(l) \in DOMAIN g /\ p \in g[o(k)] /\ q \in g[o(l)]
        BY <2>6
      <4> HIDE DEF o
      <4>2. o(k) # o(l)
        BY <3>1, <4>1, <2>3
      <4> QED BY <3>1, <4>1, <4>2, <1>1
    <3>2. CASE /\ o(k) = i /\ o(l) = i
               /\ k - i + 1 \in DOMAIN h /\ l - i + 1 \in DOMAIN h
               /\ s[k] = h[k - i + 1] /\ s[l] = h[l - i + 1]
      <4>1. p \in g[i] /\ q \in g[i]
        BY <3>2, <2>4
      <4>2. Total(p) = Total(q)
        BY <4>1, <1>1, <2>3
      <4>3. k - i + 1 < l - i + 1
        BY <2>10, <2>3
      <4>4. Merit(t, p) > Merit(t, q) /\ Merit(t, p) # Merit(t, q)
        BY <3>2, <4>3, <2>4, <2>3
      <4>5. TiebreakSays(p, q)
        BY <4>1, <4>4, <2>2 DEF TiebreakSays, t
      <4> QED BY <4>2, <4>4, <4>5
    <3> HIDE DEF o
    <3> QED BY <2>7, <2>10, <3>1, <3>2
  <2>11. ASSUME NEW k \in DOMAIN s, NEW p \in s[k], NEW q \in s[k] PROVE Total(p) = Total(q)
    <3>1. o(k) \in DOMAIN g /\ p \in g[o(k)] /\ q \in g[o(k)]
      BY <2>6
    <3> HIDE DEF o
    <3> QED BY <3>1, <1>1
  <2>12. ASSUME NEW k \in DOMAIN s, NEW l \in DOMAIN s, NEW p \in s[k], NEW q \in s[l]
         PROVE  /\ p = q => k = l
                /\ k = l => Total(p) = Total(q)
                /\ k < l => Total(p) > Total(q) \/ (Total(p) = Total(q) /\ TiebreakSays(p, q))
    <3>1. k < l \/ k = l \/ l < k
      BY <2>3
    <3> HIDE DEF o
    <3>2. CASE k < l
      BY <3>2, <2>10, <2>3
    <3>3. CASE l < k
      <4>1. q # p
        BY <3>3, <2>10
      <4> QED BY <3>3, <4>1, <2>3
    <3>4. CASE k = l
      BY <3>4, <2>11, <2>3
    <3> QED BY <3>1, <3>2, <3>3, <3>4
  <2> HIDE DEF o
  <2>13. Arranged(s)
    BY <2>1, <2>8, <2>9, <2>12 DEF Arranged
  <2> QED BY <2>13, <1>3 DEF t
<1> QED BY <1>4, <1>5

\* What the tiebreaks that count make of the groups, one after the other.
After(f, counts) ==
    /\ f[0] = Grouped(entrants, [p \in entrants |-> Total(p)])
    /\ \A i \in 1..Len(tiebreaks) :
          f[i] = IF i \in counts /\ ~tiebreaks[i].invalidated
                 THEN SplitBy(f[i - 1], tiebreaks[i]) ELSE f[i - 1]

\* The groups are the last of those that After tells.
LEMMA GroupsUnfold ==
    ASSUME rounds \in Seq(Round), entrants \in SUBSET Players, tiebreaks \in Seq(Tiebreak),
           NEW counts \in SUBSET DOMAIN tiebreaks
    PROVE  \E f : After(f, counts) /\ Groups(counts) = f[Len(tiebreaks)]
<1> DEFINE start == Grouped(entrants, [p \in entrants |-> Total(p)])
           n == Len(tiebreaks)
           Then(i, x) == IF i \in counts /\ ~tiebreaks[i].invalidated
                         THEN SplitBy(x, tiebreaks[i]) ELSE x
           F(g) == [i \in 0..n |->
                      CASE i = 0 -> start
                        [] i \in counts /\ ~tiebreaks[i].invalidated -> SplitBy(g[i - 1], tiebreaks[i])
                        [] OTHER -> g[i - 1]]
           u == CHOOSE g : g = F(g)
<1>1. PICK A : A = Seq(SUBSET Players)
  OBVIOUS
<1>2. PICK R : R = {s \in (1..n) \X A \X A : s[3] = Then(s[1], s[2])}
  OBVIOUS
<1>3. n \in Nat /\ 0 \notin counts /\ \A i \in 1..n : tiebreaks[i] \in Tiebreak
  OBVIOUS
<1>4. start \in A
  BY <1>1, ArrangedByTotal DEF Arranged
<1>5. ASSUME NEW i \in 1..n, NEW x \in A PROVE \E y \in A : <<i, x, y>> \in R
  <2>1. SplitBy(x, tiebreaks[i]) \in A
    BY <1>1, <1>3, SplitBySplices
  <2>2. Then(i, x) \in A
    BY <2>1
  <2> HIDE DEF Then
  <2>3. <<i, x, Then(i, x)>> \in R
    BY <1>2, <2>2
  <2> QED BY <2>2, <2>3
<1>6. PICK f \in [0..n -> A] : f[0] = start /\ \A i \in 1..n : <<i, f[i - 1], f[i]>> \in R
  <2> HIDE DEF start, n
  <2>1. StepsIn(A, n, R)
    BY <1>5 DEF StepsIn
  <2>2. Histories(A, start, n, R) # {}
    BY <1>3, <1>4, <2>1, Iterated
  <2> QED BY <2>2 DEF Histories
<1>7. \A i \in 1..n : f[i] = Then(i, f[i - 1])
  <2> HIDE DEF Then
  <2> QED BY <1>2, <1>6
<1>8. f = F(f)
  <2> HIDE DEF start, n
  <2>1. \A i \in 0..n : f[i] = F(f)[i]
    BY SMTT(40), <1>6, <1>7, <1>3
  <2>2. f = [i \in 0..n |-> f[i]]
    BY <1>6
  <2>3. F(f) = [i \in 0..n |-> F(f)[i]]
    OBVIOUS
  <2> HIDE DEF F
  <2> QED BY <2>1, <2>2, <2>3
<1>9. u = F(u)
  <2> HIDE DEF F
  <2> QED BY <1>8
<1>10. Groups(counts) = u[n]
  BY DEF Groups
<1>11. u[0] = start /\ \A i \in 1..n : u[i] = Then(i, u[i - 1])
  <2> HIDE DEF u, start, n
  <2>1. \A i \in 0..n : u[i] = F(u)[i]
    <3> HIDE DEF F
    <3> QED BY <1>9
  <2>2. F(u)[0] = start
    BY <1>3
  <2>3. \A i \in 1..n : F(u)[i] = Then(i, u[i - 1])
    BY <1>3
  <2> HIDE DEF F, Then
  <2> QED BY <1>3, <2>1, <2>2, <2>3
<1>12. After(u, counts)
  <2> HIDE DEF u
  <2> QED BY <1>11 DEF After
<1> HIDE DEF u
<1> QED BY <1>10, <1>12

\* The groups that the aggregate ends with are arranged.
LEMMA ResolvedArranged ==
    ASSUME rounds \in Seq(Round), entrants \in SUBSET Players, tiebreaks \in Seq(Tiebreak)
    PROVE  Arranged(Resolved)
<1> DEFINE counts == {i \in DOMAIN tiebreaks : TiebreakComplete(tiebreaks[i])}
           n == Len(tiebreaks)
<1>1. PICK f : After(f, counts) /\ Groups(counts) = f[n]
  <2>1. counts \in SUBSET DOMAIN tiebreaks
    OBVIOUS
  <2> HIDE DEF counts
  <2> QED BY <2>1, GroupsUnfold
<1>2. n \in Nat /\ DOMAIN tiebreaks = 1..n
  OBVIOUS
<1> DEFINE T == {i \in Nat : i <= n => Arranged(f[i])}
<1>3. 0 \in T
  BY <1>1, ArrangedByTotal DEF After
<1>4. ASSUME NEW i \in Nat, i \in T PROVE i + 1 \in T
  <2>1. SUFFICES ASSUME i + 1 <= n PROVE Arranged(f[i + 1])
    OBVIOUS
  <2>2. Arranged(f[i]) /\ i + 1 \in 1..n /\ (i + 1) - 1 = i
    BY <1>2, <1>4, <2>1
  <2>3. f[i + 1] = IF i + 1 \in counts /\ ~tiebreaks[i + 1].invalidated
                   THEN SplitBy(f[i], tiebreaks[i + 1]) ELSE f[i]
    <3> HIDE DEF counts
    <3> QED BY <1>1, <2>2 DEF After
  <2>4. CASE i + 1 \in counts /\ ~tiebreaks[i + 1].invalidated
    <3>1. TiebreakComplete(tiebreaks[i + 1])
      BY <2>4
    <3> QED BY <1>2, <2>2, <2>3, <2>4, <3>1, ArrangedSplit
  <2>5. CASE ~(i + 1 \in counts /\ ~tiebreaks[i + 1].invalidated)
    <3> HIDE DEF counts
    <3> QED BY <2>2, <2>3, <2>5
  <2> QED BY <2>4, <2>5
<1>5. \A i \in Nat : i \in T
  <2>1. \A i \in Nat : i \in T => i + 1 \in T
    BY <1>4
  <2> HIDE DEF T
  <2> QED BY <1>3, <2>1, UpFromZero
<1>6. Arranged(f[n])
  BY <1>2, <1>5
<1> QED BY <1>1, <1>6 DEF Resolved

-----------------------------------------------------------------------------
(* Placements.                                                             *)

\* Averages, compared without a division, are in order.
LEMMA Scaled ==
    ASSUME NEW a \in Nat, NEW b \in Nat, NEW c \in Nat \ {0}
    PROVE  a > b <=> a * c > b * c
<1>1. ASSUME a > b PROVE a * c > b * c
  <2>1. PICK d \in Nat \ {0} : a = b + d
    <3>1. a - b \in Nat \ {0} /\ a = b + (a - b)
      BY <1>1
    <3> QED BY <3>1
  <2>2. a * c = b * c + d * c
    BY <2>1
  <2>3. d * c > 0
    BY <2>1
  <2> QED BY <2>2, <2>3
<1>2. ASSUME b > a PROVE b * c > a * c
  <2>1. PICK d \in Nat \ {0} : b = a + d
    <3>1. b - a \in Nat \ {0} /\ b = a + (b - a)
      BY <1>2
    <3> QED BY <3>1
  <2>2. b * c = a * c + d * c
    BY <2>1
  <2>3. d * c > 0
    BY <2>1
  <2> QED BY <2>2, <2>3
<1>3. CASE a = b
  BY <1>3
<1>4. a * c \in Nat /\ b * c \in Nat
  OBVIOUS
<1> QED BY <1>1, <1>2, <1>3, <1>4

\* If q is ahead of p and o is not, then q is ahead of o.
LEMMA AveragesCompare ==
    ASSUME NEW sq \in Nat, NEW sp \in Nat, NEW so \in Nat,
           NEW cq \in Nat \ {0}, NEW cp \in Nat \ {0}, NEW co \in Nat \ {0},
           sq * cp > sp * cq, ~(so * cp > sp * co)
    PROVE  sq * co > so * cq
<1>1. (sq * cp) * co > (sp * cq) * co
  <2>1. sq * cp \in Nat /\ sp * cq \in Nat
    OBVIOUS
  <2> QED BY <2>1, Scaled
<1>2. ~((so * cp) * cq > (sp * co) * cq)
  <2>1. so * cp \in Nat /\ sp * co \in Nat
    OBVIOUS
  <2> QED BY <2>1, Scaled
<1>3. (sp * cq) * co = (sp * co) * cq
  OBVIOUS
<1>4. (sq * co) * cp > (so * cq) * cp
  <2>1. (sq * cp) * co = (sq * co) * cp
    OBVIOUS
  <2>2. (so * cp) * cq = (so * cq) * cp
    OBVIOUS
  <2>3. /\ (sq * co) * cp \in Nat /\ (so * cq) * cp \in Nat
        /\ (sp * co) * cq \in Nat
    OBVIOUS
  <2> QED BY <1>1, <1>2, <1>3, <2>1, <2>2, <2>3
<1> QED
  <2>1. sq * co \in Nat /\ so * cq \in Nat
    OBVIOUS
  <2> QED BY <1>4, <2>1, Scaled

\* The same of averages; and nobody is ahead of themselves, nor two of each other.
LEMMA AveragesInOrder ==
    ASSUME rounds \in Seq(Round), NEW o \in Players, NEW p \in Players, NEW q \in Players,
           Count(o) > 0, Count(p) > 0, Count(q) > 0
    PROVE  /\ ~BetterAverage(p, p)
           /\ BetterAverage(q, p) => ~BetterAverage(p, q)
           /\ BetterAverage(q, p) /\ ~BetterAverage(o, p) => BetterAverage(q, o)
<1>1. /\ PassedSum(o) \in Nat /\ PassedSum(p) \in Nat /\ PassedSum(q) \in Nat
      /\ Count(o) \in Nat \ {0} /\ Count(p) \in Nat \ {0} /\ Count(q) \in Nat \ {0}
  BY TotalsAreNat
<1>2. \A a, b \in Nat : a * b \in Nat
  OBVIOUS
<1>3. ~BetterAverage(p, p)
  BY <1>1, <1>2 DEF BetterAverage
<1>4. BetterAverage(q, p) => ~BetterAverage(p, q)
  <2>1. PassedSum(q) * Count(p) \in Nat /\ PassedSum(p) * Count(q) \in Nat
    BY <1>1, <1>2
  <2> QED BY <2>1 DEF BetterAverage
<1>5. ASSUME BetterAverage(q, p), ~BetterAverage(o, p) PROVE BetterAverage(q, o)
  BY <1>1, <1>5, AveragesCompare DEF BetterAverage
<1> QED BY <1>3, <1>4, <1>5

\* A group whose tie does not matter, and everybody in it passed something.
ByAverage(g, k) == ~Separates(AheadOf(g, k) + 1, g[k]) /\ \A q \in g[k] : Count(q) > 0

\* Who is in an earlier group than the k-th, and who of the k-th is before p.
Ahead(g, k) == UNION {g[j] : j \in 1..(k - 1)}
Better(g, k, p) == {q \in g[k] : ByAverage(g, k) /\ BetterAverage(q, p)}

\* The entry of p, in terms of the group of p.
LEMMA EntryOf ==
    ASSUME NEW g, Arranged(g), NEW k \in DOMAIN g, NEW p \in g[k]
    PROVE  /\ p \in entrants /\ DOMAIN Entries(g) = entrants
           /\ Entries(g)[p] = [points |-> Total(p),
                               placement |-> AheadOf(g, k) + 1 + Cardinality(Better(g, k, p))]
<1>1. p \in entrants
  BY DEF Arranged
<1>2. \A l \in DOMAIN g : p \in g[l] => l = k
  BY DEF Arranged
<1> DEFINE i == CHOOSE i \in DOMAIN g : p \in g[i]
<1>3. i = k
  BY <1>2
<1>4. Entries(g)[p] =
        LET first   == AheadOf(g, i) + 1
            settles == ~Separates(first, g[i]) /\ \A q \in g[i] : Count(q) > 0
            better  == {q \in g[i] : settles /\ BetterAverage(q, p)}
        IN  [points |-> Total(p), placement |-> first + Cardinality(better)]
  BY <1>1 DEF Entries
<1>5. DOMAIN Entries(g) = entrants
  BY DEF Entries
<1> HIDE DEF i
<1> QED BY <1>1, <1>3, <1>4, <1>5 DEF Better, ByAverage

\* The players in the groups before are counted.
LEMMA AheadIs ==
    ASSUME entrants \in SUBSET Players, NEW g, Arranged(g), NEW k \in DOMAIN g
    PROVE  /\ Ahead(g, k) \in SUBSET entrants /\ IsFiniteSet(Ahead(g, k))
           /\ AheadOf(g, k) = Cardinality(Ahead(g, k)) /\ AheadOf(g, k) \in Nat
           /\ \A p : p \in Ahead(g, k) <=> \E j \in DOMAIN g : j < k /\ p \in g[j]
           /\ IsFiniteSet(g[k]) /\ Cardinality(g[k]) \in Nat
           /\ Ahead(g, k) \intersect g[k] = {}
           /\ \A p : IsFiniteSet(Better(g, k, p)) /\ Cardinality(Better(g, k, p)) \in Nat
<1>1. g \in Seq(SUBSET Players) /\ DOMAIN g = 1..Len(g) /\ Len(g) \in Nat
  BY DEF Arranged
<1>2. IsFiniteSet(entrants)
  BY PlayersAssumption, FS_Subset
<1>3. \A p : p \in Ahead(g, k) <=> \E j \in DOMAIN g : j < k /\ p \in g[j]
  <2>1. \A j : j \in 1..(k - 1) <=> j \in DOMAIN g /\ j < k
    BY <1>1
  <2> QED BY <2>1 DEF Ahead
<1>4. \A j \in DOMAIN g : g[j] \in SUBSET entrants
  BY DEF Arranged
<1>5. Ahead(g, k) \in SUBSET entrants
  BY <1>3, <1>4
<1>6. IsFiniteSet(Ahead(g, k)) /\ Cardinality(Ahead(g, k)) \in Nat
  BY <1>2, <1>5, FS_Subset, FS_CardinalityType
<1>7. AheadOf(g, k) = Cardinality(Ahead(g, k))
  BY DEF Ahead, AheadOf
<1>8. IsFiniteSet(g[k]) /\ Cardinality(g[k]) \in Nat
  BY <1>2, <1>4, FS_Subset, FS_CardinalityType
<1>9. Ahead(g, k) \intersect g[k] = {}
  <2>1. ASSUME NEW p \in g[k], NEW j \in DOMAIN g, j < k, p \in g[j] PROVE FALSE
    <3>1. j = k
      BY <2>1 DEF Arranged
    <3> QED BY <3>1, <2>1, <1>1
  <2> QED BY <2>1, <1>3
<1>10. ASSUME NEW p PROVE IsFiniteSet(Better(g, k, p)) /\ Cardinality(Better(g, k, p)) \in Nat
  <2>1. Better(g, k, p) \in SUBSET g[k]
    BY DEF Better
  <2> QED BY <2>1, <1>8, FS_Subset, FS_CardinalityType
<1> QED BY <1>3, <1>5, <1>6, <1>7, <1>8, <1>9, <1>10

\* Who is placed ahead of p, of the k-th group.
InFrontOf(g, k, p) == Ahead(g, k) \union Better(g, k, p)

\* The placement of p is one more than the number of players in front of p.
LEMMA PlacedBehindThem ==
    ASSUME entrants \in SUBSET Players, NEW g, Arranged(g), NEW k \in DOMAIN g, NEW p \in g[k]
    PROVE  /\ InFrontOf(g, k, p) \in SUBSET entrants /\ IsFiniteSet(InFrontOf(g, k, p))
           /\ Cardinality(InFrontOf(g, k, p)) \in Nat
           /\ Entries(g)[p].placement = 1 + Cardinality(InFrontOf(g, k, p))
<1>1. Better(g, k, p) \in SUBSET g[k]
  BY DEF Better
<1>2. g[k] \in SUBSET entrants
  BY DEF Arranged
<1>3. Ahead(g, k) \intersect Better(g, k, p) = {}
  BY <1>1, AheadIs
<1>4. InFrontOf(g, k, p) \in SUBSET entrants
  BY <1>1, <1>2, AheadIs DEF InFrontOf
<1>5. IsFiniteSet(InFrontOf(g, k, p)) /\ Cardinality(InFrontOf(g, k, p)) \in Nat
  BY <1>4, PlayersAssumption, FS_Subset, FS_CardinalityType
<1>6. Cardinality(InFrontOf(g, k, p)) = Cardinality(Ahead(g, k)) + Cardinality(Better(g, k, p))
  <2>1. IsFiniteSet(Ahead(g, k)) /\ IsFiniteSet(Better(g, k, p))
        /\ Cardinality(Ahead(g, k)) \in Nat /\ Cardinality(Better(g, k, p)) \in Nat
    BY AheadIs
  <2>2. Cardinality(Ahead(g, k) \intersect Better(g, k, p)) = 0
    BY <1>3, FS_EmptySet
  <2>3. Cardinality(Ahead(g, k) \union Better(g, k, p)) =
          Cardinality(Ahead(g, k)) + Cardinality(Better(g, k, p))
            - Cardinality(Ahead(g, k) \intersect Better(g, k, p))
    BY <2>1, FS_Union
  <2> QED BY <2>1, <2>2, <2>3 DEF InFrontOf
<1>7. Entries(g)[p].placement = AheadOf(g, k) + 1 + Cardinality(Better(g, k, p))
  <2>1. Entries(g)[p] = [points |-> Total(p),
                         placement |-> AheadOf(g, k) + 1 + Cardinality(Better(g, k, p))]
    BY EntryOf
  <2> QED BY <2>1
<1>8. AheadOf(g, k) = Cardinality(Ahead(g, k)) /\ AheadOf(g, k) \in Nat
      /\ Cardinality(Better(g, k, p)) \in Nat
  BY AheadIs
<1> QED BY <1>4, <1>5, <1>6, <1>7, <1>8

\* Who is in front has the lower placement.
LEMMA FrontsCompare ==
    ASSUME rounds \in Seq(Round), entrants \in SUBSET Players, NEW g, Arranged(g),
           NEW j \in DOMAIN g, NEW o \in g[j], NEW k \in DOMAIN g, NEW p \in g[k]
    PROVE  /\ o \in InFrontOf(g, k, p) =>
                 Entries(g)[o].placement < Entries(g)[p].placement
           /\ o \notin InFrontOf(g, k, p) =>
                 Entries(g)[p].placement <= Entries(g)[o].placement
<1>1. DOMAIN g = 1..Len(g) /\ Len(g) \in Nat
  BY DEF Arranged
<1>2. g[j] \in SUBSET Players /\ g[k] \in SUBSET Players
  BY DEF Arranged
<1>3. /\ \A q : q \in Ahead(g, k) <=> \E l \in DOMAIN g : l < k /\ q \in g[l]
      /\ \A q : q \in Ahead(g, j) <=> \E l \in DOMAIN g : l < j /\ q \in g[l]
      /\ Ahead(g, k) \intersect g[k] = {} /\ Ahead(g, j) \intersect g[j] = {}
  BY AheadIs
<1>4. j # k => o \notin g[k]
  BY DEF Arranged
<1>5. o \notin InFrontOf(g, j, o)
  <2>1. o \notin Ahead(g, j)
    BY <1>3
  <2>2. o \notin Better(g, j, o)
    BY <1>2, AveragesInOrder DEF Better, ByAverage
  <2> QED BY <2>1, <2>2 DEF InFrontOf
<1>6. /\ IsFiniteSet(InFrontOf(g, j, o)) /\ IsFiniteSet(InFrontOf(g, k, p))
      /\ Cardinality(InFrontOf(g, j, o)) \in Nat /\ Cardinality(InFrontOf(g, k, p)) \in Nat
      /\ Entries(g)[o].placement = 1 + Cardinality(InFrontOf(g, j, o))
      /\ Entries(g)[p].placement = 1 + Cardinality(InFrontOf(g, k, p))
  BY PlacedBehindThem
<1>7. ASSUME o \in InFrontOf(g, k, p) PROVE Entries(g)[o].placement < Entries(g)[p].placement
  <2>1. InFrontOf(g, j, o) \in SUBSET InFrontOf(g, k, p)
    <3>1. CASE o \in Ahead(g, k)
      <4>1. PICK l \in DOMAIN g : l < k /\ o \in g[l]
        BY <3>1, <1>3
      <4>2. l = j
        BY <4>1 DEF Arranged
      <4>3. j < k
        BY <4>1, <4>2
      <4>4. Ahead(g, j) \subseteq Ahead(g, k)
        BY <1>1, <1>3, <4>3
      <4>5. g[j] \subseteq Ahead(g, k)
        BY <1>3, <4>3
      <4> QED BY <4>4, <4>5 DEF InFrontOf, Better
    <3>2. CASE o \in Better(g, k, p)
      <4>1. j = k /\ ByAverage(g, k) /\ BetterAverage(o, p)
        BY <3>2, <1>4 DEF Better
      <4>2. ASSUME NEW q \in Better(g, j, o) PROVE q \in Better(g, k, p)
        <5>1. q \in g[k] /\ BetterAverage(q, o)
          BY <4>1 DEF Better
        <5>2. Count(o) > 0 /\ Count(p) > 0 /\ Count(q) > 0
          BY <4>1, <5>1 DEF ByAverage
        <5>3. o \in Players /\ p \in Players /\ q \in Players
          BY <1>2, <5>1
        <5>4. BetterAverage(o, p) /\ ~BetterAverage(q, p) => BetterAverage(o, q)
          BY <5>2, <5>3, AveragesInOrder
        <5>5. BetterAverage(o, q) => ~BetterAverage(q, o)
          BY <5>2, <5>3, AveragesInOrder
        <5> QED BY <4>1, <5>1, <5>4, <5>5 DEF Better
      <4> QED BY <4>1, <4>2 DEF InFrontOf
    <3> QED BY <1>7, <3>1, <3>2 DEF InFrontOf
  <2>2. InFrontOf(g, j, o) # InFrontOf(g, k, p)
    BY <1>5, <1>7
  <2>3. /\ Cardinality(InFrontOf(g, j, o)) <= Cardinality(InFrontOf(g, k, p))
        /\ Cardinality(InFrontOf(g, k, p)) = Cardinality(InFrontOf(g, j, o))
              => InFrontOf(g, k, p) = InFrontOf(g, j, o)
    BY <1>6, <2>1, FS_Subset
  <2> QED BY <1>6, <2>2, <2>3
<1>8. ASSUME o \notin InFrontOf(g, k, p) PROVE Entries(g)[p].placement <= Entries(g)[o].placement
  <2>1. ~(j < k)
    BY <1>3, <1>8 DEF InFrontOf
  <2>2. InFrontOf(g, k, p) \in SUBSET InFrontOf(g, j, o)
    <3>1. CASE k < j
      <4>1. Ahead(g, k) \subseteq Ahead(g, j)
        BY <1>1, <1>3, <3>1
      <4>2. g[k] \subseteq Ahead(g, j)
        BY <1>3, <3>1
      <4> QED BY <4>1, <4>2 DEF InFrontOf, Better
    <3>2. CASE k = j
      <4>1. ASSUME NEW q \in Better(g, k, p) PROVE q \in Better(g, j, o)
        <5>1. q \in g[k] /\ BetterAverage(q, p) /\ ByAverage(g, k)
          BY DEF Better
        <5>2. ~BetterAverage(o, p)
          BY <1>8, <3>2, <5>1 DEF InFrontOf, Better
        <5>3. Count(o) > 0 /\ Count(p) > 0 /\ Count(q) > 0
          BY <3>2, <5>1 DEF ByAverage
        <5>4. o \in Players /\ p \in Players /\ q \in Players
          BY <1>2, <5>1
        <5>5. BetterAverage(q, o)
          BY <5>1, <5>2, <5>3, <5>4, AveragesInOrder
        <5> QED BY <3>2, <5>1, <5>5 DEF Better
      <4> QED BY <3>2, <4>1 DEF InFrontOf
    <3> QED BY <1>1, <2>1, <3>1, <3>2
  <2>3. Cardinality(InFrontOf(g, k, p)) <= Cardinality(InFrontOf(g, j, o))
    BY <1>6, <2>2, FS_Subset
  <2> QED BY <1>6, <2>3
<1> QED BY <1>7, <1>8

\* Placements of arranged groups are fair.
LEMMA ArrangedIsFair ==
    ASSUME TypeOK PROVE FairlyPlaced
<1> DEFINE g == Resolved
           place == Entries(g)
<1>1. rounds \in Seq(Round) /\ entrants \in SUBSET Players /\ tiebreaks \in Seq(Tiebreak)
  BY DEF TypeOK, Round, Tiebreak
<1>2. Arranged(g)
  BY <1>1, ResolvedArranged
<1> HIDE DEF g
<1>3. /\ DOMAIN g = 1..Len(g) /\ Len(g) \in Nat
      /\ \A p \in entrants : \E k \in DOMAIN g : p \in g[k]
  BY <1>2 DEF Arranged
<1>4. ASSUME NEW p \in entrants, NEW q \in entrants
      PROVE  /\ Total(p) > Total(q) => place[p].placement < place[q].placement
             /\ place[p].placement =
                   1 + Cardinality({o \in entrants : place[o].placement < place[p].placement})
             /\ Total(p) = Total(q) /\ place[p].placement < place[q].placement =>
                   TiebreakSays(p, q) \/ BetterAverage(p, q)
  <2>1. PICK k \in DOMAIN g : p \in g[k]
    BY <1>3
  <2>2. PICK l \in DOMAIN g : q \in g[l]
    BY <1>3
  <2>3. Total(p) \in Nat /\ Total(q) \in Nat
    BY <1>1, TotalsAreNat
  <2>4. /\ k < l => Total(p) > Total(q) \/ (Total(p) = Total(q) /\ TiebreakSays(p, q))
        /\ l < k => Total(q) > Total(p) \/ Total(q) = Total(p)
        /\ k = l => Total(p) = Total(q)
    BY <1>2, <2>1, <2>2 DEF Arranged
  <2>5. /\ p \in InFrontOf(g, l, q) => place[p].placement < place[q].placement
        /\ p \notin InFrontOf(g, l, q) => place[q].placement <= place[p].placement
    BY <1>1, <1>2, <2>1, <2>2, FrontsCompare
  <2>6. /\ Cardinality(InFrontOf(g, k, p)) \in Nat /\ Cardinality(InFrontOf(g, l, q)) \in Nat
        /\ InFrontOf(g, k, p) \in SUBSET entrants
        /\ place[p].placement = 1 + Cardinality(InFrontOf(g, k, p))
        /\ place[q].placement = 1 + Cardinality(InFrontOf(g, l, q))
    BY <1>1, <1>2, <2>1, <2>2, PlacedBehindThem
  <2>7. \A o : o \in Ahead(g, l) <=> \E j \in DOMAIN g : j < l /\ o \in g[j]
    BY <1>1, <1>2, <2>2, AheadIs
  <2>8. ASSUME Total(p) > Total(q) PROVE place[p].placement < place[q].placement
    <3>1. k < l
      BY <1>3, <2>3, <2>4, <2>8
    <3>2. p \in InFrontOf(g, l, q)
      BY <2>1, <2>7, <3>1 DEF InFrontOf
    <3> QED BY <3>2, <2>5
  <2>9. {o \in entrants : place[o].placement < place[p].placement} = InFrontOf(g, k, p)
    <3>1. ASSUME NEW o \in entrants
          PROVE  place[o].placement < place[p].placement <=> o \in InFrontOf(g, k, p)
      <4>1. PICK j \in DOMAIN g : o \in g[j]
        BY <1>3
      <4>2. /\ o \in InFrontOf(g, k, p) => place[o].placement < place[p].placement
            /\ o \notin InFrontOf(g, k, p) => place[p].placement <= place[o].placement
        BY <1>1, <1>2, <2>1, <4>1, FrontsCompare
      <4>3. place[o].placement = 1 + Cardinality(InFrontOf(g, j, o)) /\ Cardinality(InFrontOf(g, j, o)) \in Nat
        BY <1>1, <1>2, <4>1, PlacedBehindThem
      <4> QED BY <2>6, <4>2, <4>3
    <3> QED BY <2>6, <3>1
  <2>10. ASSUME Total(p) = Total(q), place[p].placement < place[q].placement
         PROVE  TiebreakSays(p, q) \/ BetterAverage(p, q)
    <3>1. p \in InFrontOf(g, l, q)
      BY <2>5, <2>6, <2>10
    <3>2. CASE p \in Ahead(g, l)
      <4>1. PICK j \in DOMAIN g : j < l /\ p \in g[j]
        BY <3>2, <2>7
      <4>2. Total(p) > Total(q) \/ (Total(p) = Total(q) /\ TiebreakSays(p, q))
        BY <1>2, <4>1, <2>2 DEF Arranged
      <4> QED BY <4>2, <2>3, <2>10
    <3>3. CASE p \in Better(g, l, q)
      BY <3>3 DEF Better
    <3> QED BY <3>1, <3>2, <3>3 DEF InFrontOf
  <2> QED BY <2>6, <2>8, <2>9, <2>10
<1> QED BY <1>4 DEF FairlyPlaced, TiebreakSays, g

\* Who is placed in a tie that does not matter goes the way its placement says.
LEMMA TiesGoOneWay ==
    ASSUME rounds \in Seq(Round), entrants \in SUBSET Players, NEW g, Arranged(g),
           AmbiguousTies(g) = {}, NEW p \in entrants
    PROVE  LET k      == Entries(g)[p].placement
               shared == {q \in entrants : Entries(g)[q].placement = k}
           IN  \A j \in Span(k, shared) : OutcomeOf(j) = OutcomeOf(k)
<1> DEFINE k == Entries(g)[p].placement
           shared == {q \in entrants : Entries(g)[q].placement = k}
<1>1. PICK i \in DOMAIN g : p \in g[i]
  BY DEF Arranged
<1> DEFINE first == AheadOf(g, i) + 1
           better == Better(g, i, p)
<1>2. /\ DOMAIN g = 1..Len(g) /\ Len(g) \in Nat
      /\ \A q \in entrants : \E j \in DOMAIN g : q \in g[j]
      /\ g[i] \in SUBSET entrants
  BY DEF Arranged
<1>3. /\ AheadOf(g, i) \in Nat /\ Cardinality(better) \in Nat /\ IsFiniteSet(better)
      /\ IsFiniteSet(g[i]) /\ Cardinality(g[i]) \in Nat
  BY <1>1, AheadIs
<1>4. k = first + Cardinality(better)
  <2>1. Entries(g)[p] = [points |-> Total(p),
                         placement |-> AheadOf(g, i) + 1 + Cardinality(Better(g, i, p))]
    BY <1>1, EntryOf
  <2> QED BY <2>1
<1>5. ASSUME NEW q \in shared PROVE q \in g[i] /\ q \notin better
  <2>1. PICK j \in DOMAIN g : q \in g[j]
    BY <1>2
  <2>2. /\ q \in InFrontOf(g, i, p) => Entries(g)[q].placement < Entries(g)[p].placement
        /\ p \in InFrontOf(g, j, q) => Entries(g)[p].placement < Entries(g)[q].placement
    BY <1>1, <2>1, FrontsCompare
  <2>3. Entries(g)[q].placement = Entries(g)[p].placement /\ k \in Nat
    BY <1>3, <1>4
  <2>4. q \notin InFrontOf(g, i, p) /\ p \notin InFrontOf(g, j, q)
    BY <2>2, <2>3
  <2>5. /\ \A o : o \in Ahead(g, i) <=> \E l \in DOMAIN g : l < i /\ o \in g[l]
        /\ \A o : o \in Ahead(g, j) <=> \E l \in DOMAIN g : l < j /\ o \in g[l]
    BY <1>1, <2>1, AheadIs
  <2>6. ~(j < i) /\ ~(i < j)
    BY <1>1, <2>1, <2>4, <2>5 DEF InFrontOf
  <2>7. j = i
    BY <1>2, <2>6
  <2> QED BY <2>1, <2>4, <2>7 DEF InFrontOf
<1>6. p \in shared
  OBVIOUS
<1>7. /\ IsFiniteSet(shared) /\ Cardinality(shared) \in Nat
      /\ Cardinality(better) + Cardinality(shared) <= Cardinality(g[i])
      /\ Cardinality(shared) > 0
  <2>1. shared \in SUBSET g[i] /\ better \in SUBSET g[i] /\ better \intersect shared = {}
    BY <1>5 DEF Better
  <2> HIDE DEF shared, better
  <2>2. IsFiniteSet(shared) /\ Cardinality(shared) \in Nat
    BY <1>3, <2>1, FS_Subset, FS_CardinalityType
  <2>3. Cardinality(better \union shared) =
          Cardinality(better) + Cardinality(shared) - Cardinality(better \intersect shared)
    BY <1>3, <2>2, FS_Union
  <2>4. Cardinality(better \intersect shared) = 0
    BY <2>1, FS_EmptySet
  <2>5. Cardinality(better \union shared) <= Cardinality(g[i])
    <3>1. better \union shared \in SUBSET g[i]
      BY <2>1
    <3> QED BY <3>1, <1>3, FS_Subset
  <2>6. Cardinality(shared) # 0
    BY <1>6, <2>2, FS_EmptySet
  <2> QED BY <1>3, <2>2, <2>3, <2>4, <2>5, <2>6
<1>8. k \in Span(first, g[i]) /\ \A j \in Span(k, shared) : j \in Span(first, g[i])
  <2> HIDE DEF shared, better, k
  <2> QED BY <1>3, <1>4, <1>7 DEF Span
<1>9. ~Separates(first, g[i])
  <2>1. g[i] \notin AmbiguousTies(g)
    OBVIOUS
  <2> QED BY <2>1 DEF AmbiguousTies
<1>10. ASSUME NEW j \in Span(first, g[i]) PROVE OutcomeOf(j) = OutcomeOf(k)
  <2> DEFINE outcomes == {OutcomeOf(n) : n \in Span(first, g[i])}
             value == [n \in Span(first, g[i]) |-> OutcomeOf(n)]
  <2>1. IsFiniteSet(outcomes) /\ Cardinality(outcomes) \in Nat
    <3>1. IsFiniteSet(Span(first, g[i]))
      BY <1>3, FS_Interval DEF Span
    <3>2. value \in Surjection(Span(first, g[i]), outcomes)
      BY DEF Surjection
    <3> HIDE DEF value, outcomes
    <3> QED BY <3>1, <3>2, FS_Surjection, FS_CardinalityType
  <2>2. ~(Cardinality(outcomes) > 1)
    BY <1>9 DEF Separates
  <2>3. OutcomeOf(j) \in outcomes /\ OutcomeOf(k) \in outcomes
    BY <1>8
  <2> HIDE DEF outcomes
  <2>4. Cardinality(outcomes) = 1
    <3>1. outcomes # {}
      BY <2>3
    <3>2. Cardinality(outcomes) # 0
      BY <2>1, <3>1, FS_EmptySet
    <3> QED BY <2>1, <2>2, <3>2
  <2>5. PICK x : outcomes = {x}
    BY <2>1, <2>4, FS_Singleton
  <2> QED BY <2>3, <2>5
<1> QED
  <2> HIDE DEF shared, k
  <2>1. \A j \in Span(k, shared) : OutcomeOf(j) = OutcomeOf(k)
    BY <1>8, <1>10
  <2> QED BY <2>1 DEF shared, k

-----------------------------------------------------------------------------
(* The invariant.                                                          *)

\* In a round there are only entrants, and the points of a song are as ranked.
RoundFits(r, S, sys) == Held(r) \subseteq S /\ (r.song # None => Ranked(r, S, sys))

\* A round by hand is the only one; and if no guest is scored, each round fits.
RoundsAre(rs, S, sys) ==
    /\ rs \in Seq(Round)
    /\ \A i \in DOMAIN rs : rs[i].song = None => Len(rs) = 1
    /\ Guests = {} => \A i \in DOMAIN rs : RoundFits(rs[i], S, sys)

ResultIs(r) ==
    r = None \/ r \in UNION {[S -> [points : Nat, placement : Nat]] : S \in SUBSET Players}

MatchInv ==
    /\ entrants \in SUBSET Players /\ system \in Systems
    /\ RoundsAre(rounds, entrants, system)
    /\ tiebreaks \in Seq(Tiebreak) /\ ResultIs(result)
    /\ LiveTiebreaksStand

\* The types in the invariant.
LEMMA MatchInvTypes ==
    ASSUME MatchInv
    PROVE  /\ TypeOK /\ rounds \in Seq(Round)
           /\ DOMAIN rounds = 1..Len(rounds) /\ Len(rounds) \in Nat
           /\ \A i \in DOMAIN rounds : rounds[i] \in Round
           /\ DOMAIN tiebreaks = 1..Len(tiebreaks) /\ Len(tiebreaks) \in Nat
           /\ \A i \in DOMAIN tiebreaks : tiebreaks[i] \in Tiebreak
<1>1. rounds \in Seq(Round)
  BY DEF MatchInv, RoundsAre
<1>2. TypeOK
  BY <1>1 DEF MatchInv, TypeOK, ResultIs, Round, Tiebreak
<1> QED BY <1>1, <1>2 DEF MatchInv

\* Changes of the tiebreaks.

\* Invalidating a tiebreak keeps its kind.
LEMMA InvalidatedIs ==
    ASSUME NEW t \in Tiebreak
    PROVE  /\ [t EXCEPT !.invalidated = TRUE] \in Tiebreak
           /\ [t EXCEPT !.invalidated = TRUE].invalidated
<1>1. CASE t \in SongTiebreak
  <2>1. PICK S \in SUBSET Players : t \in [song : Songs, invalidated : BOOLEAN, of : [S -> Scores \union {None}]]
    BY <1>1 DEF SongTiebreak
  <2>2. /\ [t EXCEPT !.invalidated = TRUE] \in [song : Songs, invalidated : BOOLEAN, of : [S -> Scores \union {None}]]
        /\ [t EXCEPT !.invalidated = TRUE].invalidated
    BY <2>1
  <2> QED BY <2>2 DEF Tiebreak, SongTiebreak
<1>2. CASE t \in HandTiebreak
  <2>1. PICK S \in SUBSET Players : t \in [song : {None}, invalidated : BOOLEAN, of : [S -> Nat]]
    BY <1>2 DEF HandTiebreak
  <2>2. /\ [t EXCEPT !.invalidated = TRUE] \in [song : {None}, invalidated : BOOLEAN, of : [S -> Nat]]
        /\ [t EXCEPT !.invalidated = TRUE].invalidated
    BY <2>1
  <2> QED BY <2>2 DEF Tiebreak, HandTiebreak
<1> QED BY <1>1, <1>2 DEF Tiebreak

\* When all tiebreaks are invalidated, none has to stand.
LEMMA AllInvalidated ==
    ASSUME tiebreaks \in Seq(Tiebreak), InvalidateTiebreaks
    PROVE  /\ tiebreaks' \in Seq(Tiebreak)
           /\ LiveTiebreaksStand'
<1>1. \A i \in 1..Len(tiebreaks) : tiebreaks[i] \in Tiebreak
  OBVIOUS
<1>2. tiebreaks' = [i \in 1..Len(tiebreaks) |-> [tiebreaks[i] EXCEPT !.invalidated = TRUE]]
  BY DEF InvalidateTiebreaks
<1>3. \A i \in 1..Len(tiebreaks) :
         [tiebreaks[i] EXCEPT !.invalidated = TRUE] \in Tiebreak
         /\ [tiebreaks[i] EXCEPT !.invalidated = TRUE].invalidated
  BY <1>1, InvalidatedIs
<1>4. tiebreaks' \in [1..Len(tiebreaks) -> Tiebreak]
      /\ \A i \in DOMAIN tiebreaks' : tiebreaks'[i].invalidated
  BY <1>2, <1>3
<1>5. tiebreaks' \in Seq(Tiebreak)
  <2>1. Len(tiebreaks) \in Nat
    OBVIOUS
  <2> QED BY <1>4, <2>1, TableIsSeq
<1>6. LiveTiebreaksStand'
  BY <1>4 DEF LiveTiebreaksStand
<1> QED BY <1>5, <1>6

\* Totals follow from the rounds and the entrants.
LEMMA TotalsStay ==
    ASSUME rounds' = rounds, entrants' = entrants
    PROVE  (Settled' <=> Settled) /\ \A p : Total(p)' = Total(p)
<1>1. Settled' <=> Settled
  BY DEF Settled
<1>2. ASSUME NEW p PROVE Total(p)' = Total(p)
  BY DEF Total
<1> QED BY <1>1, <1>2

\* As long as these stay, so do the tiebreaks that stand.
LEMMA TiebreaksStay ==
    ASSUME LiveTiebreaksStand, rounds' = rounds, entrants' = entrants,
           \A i \in DOMAIN tiebreaks' : ~tiebreaks'[i].invalidated =>
              \E j \in DOMAIN tiebreaks :
                 /\ ~tiebreaks[j].invalidated
                 /\ DOMAIN tiebreaks'[i].of = DOMAIN tiebreaks[j].of
    PROVE  LiveTiebreaksStand'
<1>1. (Settled' <=> Settled) /\ \A p : Total(p)' = Total(p)
  BY TotalsStay
<1>2. ASSUME NEW i \in DOMAIN tiebreaks', ~tiebreaks'[i].invalidated
      PROVE  /\ DOMAIN tiebreaks'[i].of \subseteq entrants' /\ Settled'
             /\ \A p, q \in DOMAIN tiebreaks'[i].of : Total(p)' = Total(q)'
  <2>1. PICK j \in DOMAIN tiebreaks :
                 /\ ~tiebreaks[j].invalidated
                 /\ DOMAIN tiebreaks'[i].of = DOMAIN tiebreaks[j].of
    BY <1>2
  <2>2. /\ DOMAIN tiebreaks[j].of \subseteq entrants /\ Settled
        /\ \A p, q \in DOMAIN tiebreaks[j].of : Total(p) = Total(q)
    BY <2>1 DEF LiveTiebreaksStand
  <2> QED BY <1>1, <2>1, <2>2
<1> QED BY <1>2 DEF LiveTiebreaksStand

\* What RemoveAt leaves was there before.
LEMMA RemovedIs ==
    ASSUME NEW A, NEW s \in Seq(A), NEW i \in DOMAIN s
    PROVE  /\ RemoveAt(s, i) \in Seq(A) /\ Len(RemoveAt(s, i)) = Len(s) - 1
           /\ \A k \in DOMAIN RemoveAt(s, i) : \E j \in DOMAIN s : RemoveAt(s, i)[k] = s[j]
<1>1. i \in 1..Len(s) /\ Len(s) \in Nat /\ <<>> \in Seq(A) /\ Len(<<>>) = 0
  OBVIOUS
<1> DEFINE a == SubSeq(s, 1, i - 1)
           c == SubSeq(s, i + 1, Len(s))
<1>2. a \in Seq(A)
  <2>1. \A k \in 1..(i - 1) : s[k] \in A
    BY <1>1
  <2> QED BY <1>1, <2>1, SubSeqProperties
<1>3. a \o <<>> \o c = RemoveAt(s, i)
  <2>1. a \o <<>> = a
    <3> HIDE DEF a
    <3> QED BY <1>2, ConcatEmptySeq
  <2> QED BY <2>1 DEF RemoveAt
<1>4. PICK e \in Seq(A) : e = <<>>
  BY <1>1
<1>5. a \o e \o c \in Seq(A) /\ Spliced(a \o e \o c, s, i, e)
  BY <1>1, SpliceIs
<1>6. PICK made : made = RemoveAt(s, i)
  OBVIOUS
<1>7. made \in Seq(A) /\ Spliced(made, s, i, e) /\ Len(e) = 0
  BY <1>1, <1>3, <1>4, <1>5, <1>6
<1>8. /\ Len(made) = Len(s) - 1
      /\ \A k \in 1..(i - 1) : made[k] = s[k]
      /\ \A k \in i..Len(made) : made[k] = s[k + 1]
  <2>1. /\ Len(made) = Len(s) - 1 + Len(e)
        /\ \A k \in 1..(i - 1) : made[k] = s[k]
        /\ \A k \in (i + Len(e))..Len(made) : made[k] = s[k - Len(e) + 1]
    BY <1>7 DEF Spliced
  <2> QED BY <1>1, <1>7, <2>1
<1>9. ASSUME NEW k \in DOMAIN made PROVE \E j \in DOMAIN s : made[k] = s[j]
  <2>1. k \in 1..Len(made)
    BY <1>7
  <2>2. CASE k < i
    <3>1. k \in 1..(i - 1) /\ k \in DOMAIN s
      BY <1>1, <2>1, <2>2
    <3> QED BY <3>1, <1>8
  <2>3. CASE k >= i
    <3>1. k \in i..Len(made) /\ k + 1 \in DOMAIN s
      BY <1>1, <1>8, <2>1, <2>3
    <3> QED BY <3>1, <1>8
  <2> QED BY <1>1, <2>1, <2>2, <2>3
<1> QED BY <1>6, <1>7, <1>8, <1>9

\* Changes of the rounds.

\* A round is removed.
LEMMA RoundsWithout ==
    ASSUME NEW rs, NEW S, NEW sys, RoundsAre(rs, S, sys), NEW i \in DOMAIN rs
    PROVE  RoundsAre(RemoveAt(rs, i), S, sys)
<1>1. rs \in Seq(Round)
  BY DEF RoundsAre
<1>2. /\ RemoveAt(rs, i) \in Seq(Round) /\ Len(RemoveAt(rs, i)) = Len(rs) - 1
      /\ \A k \in DOMAIN RemoveAt(rs, i) : \E j \in DOMAIN rs : RemoveAt(rs, i)[k] = rs[j]
  BY <1>1, RemovedIs
<1>3. PICK made : made = RemoveAt(rs, i)
  OBVIOUS
<1>4. ASSUME NEW k \in DOMAIN made, made[k].song = None PROVE Len(made) = 1
  <2>1. PICK j \in DOMAIN rs : made[k] = rs[j]
    BY <1>2, <1>3
  <2>2. Len(rs) = 1
    BY <1>4, <2>1 DEF RoundsAre
  <2>3. made \in Seq(Round) /\ Len(made) = 0
    BY <1>2, <1>3, <2>2
  <2> QED BY <2>3
<1>5. ASSUME Guests = {}, NEW k \in DOMAIN made PROVE RoundFits(made[k], S, sys)
  <2>1. PICK j \in DOMAIN rs : made[k] = rs[j]
    BY <1>2, <1>3
  <2> QED BY <1>5, <2>1 DEF RoundsAre
<1> QED BY <1>2, <1>3, <1>4, <1>5 DEF RoundsAre

\* A round is added.
LEMMA RoundsWithNew ==
    ASSUME NEW rs, NEW S, NEW sys, RoundsAre(rs, S, sys),
           NEW song \in Songs \union {None}, SourceAllowed(song, rs)
    PROVE  RoundsAre(Append(rs, NewRound(song)), S, sys)
<1>1. PICK r \in Round : r = NewRound(song) /\ r.song = song /\ Held(r) = {}
  BY NewRoundIs
<1>2. rs \in Seq(Round) /\ Len(rs) \in Nat /\ DOMAIN rs = 1..Len(rs)
  BY DEF RoundsAre
<1>3. PICK made : made = Append(rs, r)
  OBVIOUS
<1>4. /\ made \in Seq(Round) /\ Len(made) = Len(rs) + 1
      /\ \A k \in 1..Len(rs) : made[k] = rs[k]
      /\ made[Len(rs) + 1] = r
      /\ DOMAIN made = 1..(Len(rs) + 1)
  BY <1>2, <1>3, AppendProperties
<1>5. ASSUME NEW k \in DOMAIN made, made[k].song = None PROVE Len(made) = 1
  <2>1. CASE song = None
    BY <2>1, <1>2, <1>4 DEF SourceAllowed
  <2>2. CASE song # None
    <3>1. k # Len(rs) + 1
      BY <1>1, <1>4, <1>5, <2>2
    <3>2. k \in DOMAIN rs /\ made[k] = rs[k]
      BY <1>2, <1>4, <3>1
    <3> QED BY <1>5, <2>2, <3>2 DEF SourceAllowed, Range
  <2> QED BY <2>1, <2>2
<1>6. ASSUME Guests = {}, NEW k \in DOMAIN made PROVE RoundFits(made[k], S, sys)
  <2>1. CASE k = Len(rs) + 1
    BY <2>1, <1>1, <1>4 DEF RoundFits, Ranked, Complete
  <2>2. CASE k # Len(rs) + 1
    <3>1. k \in DOMAIN rs /\ made[k] = rs[k]
      BY <1>2, <1>4, <2>2
    <3> QED BY <1>6, <3>1 DEF RoundsAre
  <2> QED BY <2>1, <2>2
<1>7. RoundsAre(made, S, sys)
  BY <1>4, <1>5, <1>6 DEF RoundsAre
<1> QED BY <1>1, <1>3, <1>7

\* A round is changed.
LEMMA RoundsWith ==
    ASSUME NEW rs, NEW S, NEW sys, RoundsAre(rs, S, sys), NEW i \in DOMAIN rs,
           NEW r \in Round, r.song = rs[i].song, Guests = {} => RoundFits(r, S, sys)
    PROVE  RoundsAre([rs EXCEPT ![i] = r], S, sys)
<1>1. rs \in Seq(Round) /\ Len(rs) \in Nat /\ DOMAIN rs = 1..Len(rs)
  BY DEF RoundsAre
<1>2. PICK made : made = [rs EXCEPT ![i] = r]
  OBVIOUS
<1>3. /\ made \in Seq(Round) /\ Len(made) = Len(rs) /\ DOMAIN made = DOMAIN rs
      /\ \A k \in DOMAIN rs : made[k] = IF k = i THEN r ELSE rs[k]
  BY <1>1, <1>2, ExceptSeq
<1>4. ASSUME NEW k \in DOMAIN made, made[k].song = None PROVE Len(made) = 1
  <2>1. rs[k].song = None
    BY <1>3, <1>4
  <2> QED BY <1>3, <2>1 DEF RoundsAre
<1>5. ASSUME Guests = {}, NEW k \in DOMAIN made PROVE RoundFits(made[k], S, sys)
  BY <1>3, <1>5 DEF RoundsAre
<1> QED BY <1>2, <1>3, <1>4, <1>5 DEF RoundsAre

\* The commands.

\* When entrants or system change everything is settled again, guests' standings dropped.
LEMMA ResettleInv ==
    ASSUME MatchInv, NEW S \in SUBSET Players, NEW sys \in Systems, Resettle(S, sys)
    PROVE  MatchInv'
<1> DEFINE n == Len(rounds)
           options == [i \in 1..n |-> SettledAgain(Staying(rounds[i], S), S, sys)]
<1>1. n \in Nat /\ DOMAIN rounds = 1..n /\ \A i \in 1..n : rounds[i] \in Round
  BY MatchInvTypes
<1>2. ASSUME NEW i \in 1..n, NEW made \in options[i]
      PROVE  made \in Round /\ made.song = rounds[i].song /\ RoundFits(made, S, sys)
  <2>1. rounds[i] \in Round
    BY <1>1
  <2>2. PICK r : r = Staying(rounds[i], S)
    OBVIOUS
  <2>3. r \in Round /\ r.song = rounds[i].song /\ Held(r) \subseteq S
    BY <2>1, <2>2, StayingIs
  <2>4. made \in SettledAgain(r, S, sys)
    BY <2>2
  <2>5. /\ made \in Round /\ made.song = r.song /\ Held(made) = Held(r)
        /\ made.song # None => Ranked(made, S, sys)
    BY <2>3, <2>4, SettledAgainIs
  <2> QED BY <2>3, <2>5 DEF RoundFits
<1>3. /\ rounds' \in Seq(Round) /\ Len(rounds') = n
      /\ \A i \in 1..n : rounds'[i] \in options[i]
  <2>1. Len(options) = n
    BY <1>1
  <2>2. \A i \in 1..n : options[i] \subseteq Round
    BY <1>2
  <2>3. rounds' \in Remade(options)
    BY DEF Resettle, Resettled
  <2> HIDE DEF options
  <2> QED BY <1>1, <2>1, <2>2, <2>3, RemadeIsChosen
<1> HIDE DEF options
<1>4. DOMAIN rounds' = 1..n
  BY <1>3
<1>5. ASSUME NEW i \in DOMAIN rounds', rounds'[i].song = None PROVE Len(rounds') = 1
  <2>1. rounds[i].song = None
    BY <1>2, <1>3, <1>4, <1>5
  <2> QED BY <1>1, <1>3, <1>4, <2>1 DEF MatchInv, RoundsAre
<1>6. \A i \in DOMAIN rounds' : RoundFits(rounds'[i], S, sys)
  BY <1>2, <1>3, <1>4
<1>7. RoundsAre(rounds', S, sys)
  BY <1>3, <1>5, <1>6 DEF RoundsAre
<1>8. entrants' = S /\ system' = sys /\ result' = result /\ InvalidateTiebreaks
  BY DEF Resettle
<1>9. tiebreaks' \in Seq(Tiebreak) /\ LiveTiebreaksStand'
  BY <1>8, AllInvalidated DEF MatchInv
<1> QED BY <1>7, <1>8, <1>9 DEF MatchInv

\* A command of the rounds leaves the rest, and invalidates the tiebreaks.
LEMMA RoundsInv ==
    ASSUME MatchInv, RoundsAre(rounds', entrants, system), InvalidateTiebreaks,
           UNCHANGED <<entrants, system, result>>
    PROVE  MatchInv'
<1>1. tiebreaks' \in Seq(Tiebreak) /\ LiveTiebreaksStand'
  BY AllInvalidated DEF MatchInv
<1> QED BY <1>1 DEF MatchInv

\* A new round has no standings, so there is nothing to rank.
LEMMA AddRoundInv ==
    ASSUME MatchInv, NEW song \in Songs \union {None}, AddRound(song)
    PROVE  MatchInv'
<1>1. RoundsAre(rounds, entrants, system)
  BY DEF MatchInv
<1>2. RoundsAre(rounds', entrants, system)
  BY <1>1, RoundsWithNew DEF AddRound
<1> QED BY <1>2, RoundsInv DEF AddRound

\* With a round gone, the others fit as before.
LEMMA RemoveRoundInv ==
    ASSUME MatchInv, NEW i \in DOMAIN rounds, RemoveRound(i)
    PROVE  MatchInv'
<1>1. RoundsAre(rounds, entrants, system)
  BY DEF MatchInv
<1>2. RoundsAre(rounds', entrants, system)
  BY <1>1, RoundsWithout DEF RemoveRound
<1> QED BY <1>2, RoundsInv DEF RemoveRound

\* The song is taken out, and a new one put in.
LEMMA ReplaceRoundSongInv ==
    ASSUME MatchInv, NEW i \in DOMAIN rounds, NEW song \in Songs \union {None},
           ReplaceRoundSong(i, song)
    PROVE  MatchInv'
<1>1. RoundsAre(rounds, entrants, system)
  BY DEF MatchInv
<1>2. RoundsAre(RemoveAt(rounds, i), entrants, system)
  BY <1>1, RoundsWithout
<1>3. RoundsAre(rounds', entrants, system)
  BY <1>2, RoundsWithNew DEF ReplaceRoundSong
<1> QED BY <1>3, RoundsInv DEF ReplaceRoundSong

\* If the round is not complete with the score, it had no points already.
LEMMA UpsertScoreInv ==
    ASSUME MatchInv, NEW i \in DOMAIN rounds, NEW p \in Players, NEW score \in Scores,
           UpsertScore(i, p, score)
    PROVE  MatchInv'
<1>1. RoundsAre(rounds, entrants, system) /\ rounds[i] \in Round /\ system \in Systems
  BY MatchInvTypes DEF MatchInv
<1>2. rounds[i].song # None /\ p \in entrants \union Guests
  BY DEF UpsertScore
<1>3. PICK w : w = Written(rounds[i], p, score, 0)
  OBVIOUS
<1>4. /\ w \in Round /\ w.song = rounds[i].song /\ Held(w) = Held(rounds[i]) \union {p}
      /\ \A q \in Players : w.of[q] =
            IF q = p THEN [score |-> score, points |-> 0] ELSE rounds[i].of[q]
  <2>1. MayStand(rounds[i].song, score, 0)
    BY <1>2 DEF MayStand
  <2> QED BY <1>1, <1>3, <2>1, WrittenIs
<1>5. w \in SongRound
  BY <1>2, <1>4, KindOfRound
<1>6. PICK made \in RankIfComplete(w, entrants, system) : rounds' = [rounds EXCEPT ![i] = made]
  BY <1>3 DEF UpsertScore
<1>7. made \in SongRound /\ made.song = w.song /\ Held(made) = Held(w)
  BY <1>1, <1>5, <1>6, RankingType
<1>8. ASSUME Guests = {} PROVE RoundFits(made, entrants, system)
  <2>1. Held(rounds[i]) \subseteq entrants /\ Ranked(rounds[i], entrants, system)
    BY <1>1, <1>2, <1>8 DEF RoundsAre, RoundFits
  <2>2. Held(made) \subseteq entrants
    BY <1>2, <1>4, <1>7, <1>8, <2>1
  <2>3. ~Complete(w, entrants) => \A q \in Held(w) : w.of[q].points = 0
    <3>1. SUFFICES ASSUME ~Complete(w, entrants), NEW q \in Held(w) PROVE w.of[q].points = 0
      OBVIOUS
    <3>2. ~Complete(rounds[i], entrants)
      BY <3>1, <1>4 DEF Complete
    <3>3. q \in Players
      BY DEF Held
    <3>4. CASE q = p
      BY <1>4, <3>3, <3>4
    <3>5. CASE q # p
      BY <1>4, <2>1, <3>2, <3>3, <3>5 DEF Ranked
    <3> QED BY <3>4, <3>5
  <2>4. Ranked(made, entrants, system)
    BY <1>1, <1>5, <1>6, <2>3, RankingRanks
  <2> QED BY <2>2, <2>4 DEF RoundFits
<1>9. RoundsAre(rounds', entrants, system)
  <2>1. made \in Round /\ made.song = rounds[i].song
    BY <1>4, <1>7 DEF Round
  <2> QED BY <1>1, <1>6, <1>8, <2>1, RoundsWith
<1> QED BY <1>9, RoundsInv DEF UpsertScore

\* Points by hand are not ranked.
LEMMA UpsertPointsInv ==
    ASSUME MatchInv, NEW i \in DOMAIN rounds, NEW p \in Players, NEW points \in HandPoints,
           UpsertPoints(i, p, points)
    PROVE  MatchInv'
<1>1. RoundsAre(rounds, entrants, system) /\ rounds[i] \in Round
  BY MatchInvTypes DEF MatchInv
<1>2. rounds[i].song = None /\ p \in entrants \union Guests /\ points \in Nat
  BY ScoresAssumption DEF UpsertPoints
<1>3. PICK w : w = Written(rounds[i], p, None, points)
  OBVIOUS
<1>4. /\ w \in Round /\ w.song = rounds[i].song /\ Held(w) = Held(rounds[i]) \union {p}
      /\ \A q \in Players : w.of[q] =
            IF q = p THEN [score |-> None, points |-> points] ELSE rounds[i].of[q]
  <2>1. MayStand(rounds[i].song, None, points)
    BY <1>2 DEF MayStand
  <2> QED BY <1>1, <1>3, <2>1, WrittenIs
<1>5. Guests = {} => RoundFits(w, entrants, system)
  BY <1>1, <1>2, <1>4 DEF RoundsAre, RoundFits
<1>6. rounds' = [rounds EXCEPT ![i] = w]
  BY <1>3 DEF UpsertPoints
<1>7. RoundsAre(rounds', entrants, system)
  BY <1>1, <1>4, <1>5, <1>6, RoundsWith
<1> QED BY <1>7, RoundsInv DEF UpsertPoints

\* Without a standing of an entrant a round is not complete.
LEMMA RemoveStandingInv ==
    ASSUME MatchInv, NEW i \in DOMAIN rounds, NEW p \in Players, RemoveStanding(i, p)
    PROVE  MatchInv'
<1>1. RoundsAre(rounds, entrants, system) /\ rounds[i] \in Round
  BY MatchInvTypes DEF MatchInv
<1>2. PICK w : w = Without(rounds[i], p)
  OBVIOUS
<1>3. /\ w \in Round /\ w.song = rounds[i].song /\ Held(w) = Held(rounds[i]) \ {p}
      /\ rounds[i].song # None => \A q \in Held(w) : w.of[q].points = 0
  BY <1>1, <1>2, WithoutIs
<1>4. ASSUME Guests = {} PROVE RoundFits(w, entrants, system)
  <2>1. Held(rounds[i]) \subseteq entrants /\ p \in Held(rounds[i])
    BY <1>1, <1>4 DEF RoundsAre, RoundFits, RemoveStanding
  <2>2. ~Complete(w, entrants)
    BY <1>3, <2>1 DEF Complete
  <2> QED BY <1>3, <2>1, <2>2 DEF RoundFits, Ranked
<1>5. rounds' = [rounds EXCEPT ![i] = w]
  BY <1>2 DEF RemoveStanding
<1>6. RoundsAre(rounds', entrants, system)
  BY <1>1, <1>3, <1>4, <1>5, RoundsWith
<1> QED BY <1>6, RoundsInv DEF RemoveStanding

\* The new tiebreak is of a group, whose players have equal points.
LEMMA AddTiebreakInv ==
    ASSUME MatchInv, NEW song \in Songs \union {None}, AddTiebreak(song)
    PROVE  MatchInv'
<1>1. /\ rounds \in Seq(Round) /\ entrants \in SUBSET Players /\ tiebreaks \in Seq(Tiebreak)
      /\ DOMAIN tiebreaks = 1..Len(tiebreaks) /\ Len(tiebreaks) \in Nat
  BY MatchInvTypes DEF MatchInv
<1>2. PICK S \in AmbiguousTies(Resolved) :
         tiebreaks' = Append(tiebreaks,
              [song |-> song, invalidated |-> FALSE,
               of |-> [p \in S |-> IF song = None THEN 0 ELSE None]])
  BY DEF AddTiebreak
<1>3. PICK k \in DOMAIN Resolved : S = Resolved[k]
  BY DEF AmbiguousTies
<1>4. Arranged(Resolved)
  BY <1>1, ResolvedArranged
<1>5. S \in SUBSET entrants /\ \A p, q \in S : Total(p) = Total(q)
  BY <1>3, <1>4 DEF Arranged
<1> DEFINE of == [p \in S |-> IF song = None THEN 0 ELSE None]
           t == [song |-> song, invalidated |-> FALSE, of |-> of]
<1>6. t \in Tiebreak
  <2>1. of = [p \in S |-> of[p]] /\ S \in SUBSET Players
    BY <1>1, <1>5
  <2>2. /\ song # None => \A p \in S : of[p] \in Scores \union {None}
        /\ song = None => \A p \in S : of[p] \in Nat
    OBVIOUS
  <2> HIDE DEF of
  <2> QED BY <2>1, <2>2, TiebreakFrom
<1>7. t.invalidated = FALSE /\ DOMAIN t.of = S
  OBVIOUS
<1>8. tiebreaks' = Append(tiebreaks, t)
  BY <1>2
<1> HIDE DEF t
<1>9. /\ tiebreaks' \in Seq(Tiebreak) /\ DOMAIN tiebreaks' = 1..(Len(tiebreaks) + 1)
      /\ \A i \in 1..Len(tiebreaks) : tiebreaks'[i] = tiebreaks[i]
      /\ tiebreaks'[Len(tiebreaks) + 1] = t
  BY <1>1, <1>6, <1>8, AppendProperties
<1>10. /\ UNCHANGED <<entrants, system, rounds, result>> /\ Settled
  BY DEF AddTiebreak
<1>11. (Settled' <=> Settled) /\ \A p : Total(p)' = Total(p)
  BY <1>10, TotalsStay
<1>12. ASSUME NEW i \in DOMAIN tiebreaks', ~tiebreaks'[i].invalidated
       PROVE  /\ DOMAIN tiebreaks'[i].of \subseteq entrants' /\ Settled'
              /\ \A p, q \in DOMAIN tiebreaks'[i].of : Total(p)' = Total(q)'
  <2>1. CASE i = Len(tiebreaks) + 1
    BY <2>1, <1>5, <1>7, <1>9, <1>10, <1>11
  <2>2. CASE i # Len(tiebreaks) + 1
    <3>1. i \in 1..Len(tiebreaks) /\ i \in DOMAIN tiebreaks
      BY <2>2, <1>1, <1>9
    <3>2. tiebreaks'[i] = tiebreaks[i]
      BY <3>1, <1>9
    <3>3. /\ DOMAIN tiebreaks[i].of \subseteq entrants
          /\ \A p, q \in DOMAIN tiebreaks[i].of : Total(p) = Total(q)
      BY <1>12, <3>1, <3>2 DEF MatchInv, LiveTiebreaksStand
    <3> QED BY <3>2, <3>3, <1>10, <1>11
  <2> QED BY <2>1, <2>2
<1>13. LiveTiebreaksStand'
  BY <1>12 DEF LiveTiebreaksStand
<1> QED BY <1>9, <1>10, <1>13 DEF MatchInv

\* A command of the tiebreaks only.
LEMMA TiebreaksInv ==
    ASSUME MatchInv, tiebreaks' \in Seq(Tiebreak),
           UNCHANGED <<entrants, system, rounds, result>>,
           \A i \in DOMAIN tiebreaks' : ~tiebreaks'[i].invalidated =>
              \E j \in DOMAIN tiebreaks :
                 /\ ~tiebreaks[j].invalidated
                 /\ DOMAIN tiebreaks'[i].of = DOMAIN tiebreaks[j].of
    PROVE  MatchInv'
<1>1. LiveTiebreaksStand'
  BY TiebreaksStay DEF MatchInv
<1> QED BY <1>1 DEF MatchInv

\* The other tiebreaks stay.
LEMMA RemoveTiebreakInv ==
    ASSUME MatchInv, NEW i \in DOMAIN tiebreaks, RemoveTiebreak(i)
    PROVE  MatchInv'
<1>1. tiebreaks \in Seq(Tiebreak)
  BY DEF MatchInv
<1>2. /\ tiebreaks' \in Seq(Tiebreak)
      /\ \A k \in DOMAIN tiebreaks' : \E j \in DOMAIN tiebreaks : tiebreaks'[k] = tiebreaks[j]
  BY <1>1, RemovedIs DEF RemoveTiebreak
<1>3. \A k \in DOMAIN tiebreaks' : ~tiebreaks'[k].invalidated =>
         \E j \in DOMAIN tiebreaks :
            ~tiebreaks[j].invalidated /\ DOMAIN tiebreaks'[k].of = DOMAIN tiebreaks[j].of
  BY <1>2
<1> QED BY <1>2, <1>3, TiebreaksInv DEF RemoveTiebreak

\* A standing of a tiebreak changes.
LEMMA TiebreakWith ==
    ASSUME NEW t \in Tiebreak, NEW p \in DOMAIN t.of, NEW x,
           IF t.song = None THEN x \in Nat ELSE x \in Scores \union {None}
    PROVE  /\ [t EXCEPT !.of[p] = x] \in Tiebreak
           /\ [t EXCEPT !.of[p] = x].invalidated = t.invalidated
           /\ DOMAIN [t EXCEPT !.of[p] = x].of = DOMAIN t.of
<1>1. CASE t \in SongTiebreak
  <2>1. PICK S \in SUBSET Players : t \in [song : Songs, invalidated : BOOLEAN, of : [S -> Scores \union {None}]]
    BY <1>1 DEF SongTiebreak
  <2>2. x \in Scores \union {None}
    BY <2>1, NoneAssumption
  <2>3. /\ [t EXCEPT !.of[p] = x] \in [song : Songs, invalidated : BOOLEAN, of : [S -> Scores \union {None}]]
        /\ [t EXCEPT !.of[p] = x].invalidated = t.invalidated
        /\ DOMAIN [t EXCEPT !.of[p] = x].of = DOMAIN t.of
    BY <2>1, <2>2
  <2> QED BY <2>3 DEF Tiebreak, SongTiebreak
<1>2. CASE t \in HandTiebreak
  <2>1. PICK S \in SUBSET Players : t \in [song : {None}, invalidated : BOOLEAN, of : [S -> Nat]]
    BY <1>2 DEF HandTiebreak
  <2>2. x \in Nat
    BY <2>1
  <2>3. /\ [t EXCEPT !.of[p] = x] \in [song : {None}, invalidated : BOOLEAN, of : [S -> Nat]]
        /\ [t EXCEPT !.of[p] = x].invalidated = t.invalidated
        /\ DOMAIN [t EXCEPT !.of[p] = x].of = DOMAIN t.of
    BY <2>1, <2>2
  <2> QED BY <2>3 DEF Tiebreak, HandTiebreak
<1> QED BY <1>1, <1>2 DEF Tiebreak

\* One standing of one tiebreak becomes x.
LEMMA TiebreakStandingInv ==
    ASSUME MatchInv, NEW i \in DOMAIN tiebreaks, NEW p \in DOMAIN tiebreaks[i].of, NEW x,
           IF tiebreaks[i].song = None THEN x \in Nat ELSE x \in Scores \union {None},
           tiebreaks' = [tiebreaks EXCEPT ![i].of[p] = x],
           UNCHANGED <<entrants, system, rounds, result>>
    PROVE  MatchInv'
<1>1. tiebreaks \in Seq(Tiebreak) /\ tiebreaks[i] \in Tiebreak /\ DOMAIN tiebreaks = 1..Len(tiebreaks)
  BY MatchInvTypes DEF MatchInv
<1>2. PICK t : t = [tiebreaks[i] EXCEPT !.of[p] = x]
  OBVIOUS
<1>3. t \in Tiebreak /\ t.invalidated = tiebreaks[i].invalidated /\ DOMAIN t.of = DOMAIN tiebreaks[i].of
  BY ZenonT(40), <1>1, <1>2, TiebreakWith
<1>4. tiebreaks' = [tiebreaks EXCEPT ![i] = t]
  BY <1>2
<1>5. /\ tiebreaks' \in Seq(Tiebreak) /\ DOMAIN tiebreaks' = DOMAIN tiebreaks
      /\ \A k \in DOMAIN tiebreaks : tiebreaks'[k] = IF k = i THEN t ELSE tiebreaks[k]
  BY <1>1, <1>3, <1>4, ExceptSeq
<1>6. \A k \in DOMAIN tiebreaks' : ~tiebreaks'[k].invalidated =>
         ~tiebreaks[k].invalidated /\ DOMAIN tiebreaks'[k].of = DOMAIN tiebreaks[k].of
  BY <1>3, <1>5
<1> QED BY <1>5, <1>6, TiebreaksInv

\* A score in a tiebreak.
LEMMA UpsertTiebreakScoreInv ==
    ASSUME MatchInv, NEW i \in DOMAIN tiebreaks, NEW p \in Players, NEW score \in Deciders,
           UpsertTiebreakScore(i, p, score)
    PROVE  MatchInv'
<1>1. /\ p \in DOMAIN tiebreaks[i].of /\ tiebreaks[i].song # None
      /\ tiebreaks' = [tiebreaks EXCEPT ![i].of[p] = score]
      /\ UNCHANGED <<entrants, system, rounds, result>>
  BY DEF UpsertTiebreakScore
<1>2. score \in Scores
  BY ScoresAssumption
<1> QED BY <1>1, <1>2, TiebreakStandingInv

\* Points in a tiebreak.
LEMMA UpsertTiebreakPointsInv ==
    ASSUME MatchInv, NEW i \in DOMAIN tiebreaks, NEW p \in Players, NEW points \in HandPoints,
           UpsertTiebreakPoints(i, p, points)
    PROVE  MatchInv'
<1>1. /\ p \in DOMAIN tiebreaks[i].of /\ tiebreaks[i].song = None
      /\ tiebreaks' = [tiebreaks EXCEPT ![i].of[p] = points]
      /\ UNCHANGED <<entrants, system, rounds, result>>
  BY DEF UpsertTiebreakPoints
<1>2. points \in Nat
  BY ScoresAssumption
<1> QED BY <1>1, <1>2, TiebreakStandingInv

\* A standing of a tiebreak is emptied.
LEMMA ClearTiebreakStandingInv ==
    ASSUME MatchInv, NEW i \in DOMAIN tiebreaks, NEW p \in Players,
           ClearTiebreakStanding(i, p)
    PROVE  MatchInv'
<1>1. PICK x : x = IF tiebreaks[i].song = None THEN 0 ELSE None
  OBVIOUS
<1>2. /\ p \in DOMAIN tiebreaks[i].of
      /\ tiebreaks' = [tiebreaks EXCEPT ![i].of[p] = x]
      /\ UNCHANGED <<entrants, system, rounds, result>>
  BY <1>1 DEF ClearTiebreakStanding
<1>3. IF tiebreaks[i].song = None THEN x \in Nat ELSE x \in Scores \union {None}
  BY <1>1
<1> QED BY <1>2, <1>3, TiebreakStandingInv

\* The result has entries of the entrants.
LEMMA CommitResultInv ==
    ASSUME MatchInv, CommitResult PROVE MatchInv'
<1>1. PICK groups : groups = Resolved
  OBVIOUS
<1>2. result' = Entries(groups) /\ UNCHANGED <<entrants, system, rounds, tiebreaks>>
  BY <1>1 DEF CommitResult
<1>3. rounds \in Seq(Round) /\ entrants \in SUBSET Players /\ tiebreaks \in Seq(Tiebreak)
  BY MatchInvTypes DEF MatchInv
<1>4. Arranged(groups)
  BY <1>1, <1>3, ResolvedArranged
<1>5. ASSUME NEW p \in entrants
      PROVE  Entries(groups)[p] \in [points : Nat, placement : Nat]
  <2>1. PICK k \in DOMAIN groups : p \in groups[k]
    BY <1>4 DEF Arranged
  <2>2. Entries(groups)[p] = [points |-> Total(p),
           placement |-> AheadOf(groups, k) + 1 + Cardinality(Better(groups, k, p))]
    BY <1>4, <2>1, EntryOf
  <2>3. AheadOf(groups, k) \in Nat /\ Cardinality(Better(groups, k, p)) \in Nat
    BY <1>3, <1>4, <2>1, AheadIs
  <2>4. Total(p) \in Nat
    BY <1>3, TotalsAreNat
  <2> QED BY <2>2, <2>3, <2>4
<1>6. Entries(groups) = [p \in entrants |-> Entries(groups)[p]]
  BY DEF Entries
<1>7. Entries(groups) \in [entrants -> [points : Nat, placement : Nat]]
  BY <1>5, <1>6
<1>8. ResultIs(result')
  BY <1>2, <1>3, <1>7 DEF ResultIs
<1>9. LiveTiebreaksStand'
  <2>1. UNCHANGED <<entrants, rounds, tiebreaks>>
    BY <1>2
  <2> QED BY <2>1, TiebreaksStay DEF MatchInv
<1> QED BY <1>2, <1>8, <1>9 DEF MatchInv

\* Without the result the rest is as before.
LEMMA ReopenResultInv ==
    ASSUME MatchInv, ReopenResult PROVE MatchInv'
<1>1. result' = None /\ UNCHANGED <<entrants, system, rounds, tiebreaks>>
  BY DEF ReopenResult
<1>2. LiveTiebreaksStand'
  BY <1>1, TiebreaksStay DEF MatchInv
<1> QED BY <1>1, <1>2 DEF MatchInv, ResultIs

\* With no runs a round stays as it is.
LEMMA ScoredOfNone ==
    ASSUME NEW r \in Round, NEW runs
    PROVE  Scored(r, runs, {}) = r
<1> DEFINE of == [p \in Players |-> r.of[p]]
<1>1. Scored(r, runs, {}) = [song |-> r.song, of |-> of]
  BY RoundParts DEF Scored
<1>2. of = r.of
  BY KindOfRound
<1> HIDE DEF of
<1> QED BY <1>1, <1>2, KindOfRound

\* A round that W's runs are written to still fits.
LEMMA ScoredFits ==
    ASSUME NEW r \in Round, NEW S \in SUBSET Players, NEW sys \in Systems, NEW W, W \subseteq S,
           NEW runs, RunsOf(runs, W), W # {} => r.song # None,
           Guests = {} => RoundFits(r, S, sys),
           NEW made, IF Scored(r, runs, W) = r THEN made = r
                     ELSE made \in RankIfComplete(Scored(r, runs, W), S, sys)
    PROVE  made \in Round /\ made.song = r.song /\ (Guests = {} => RoundFits(made, S, sys))
<1>1. CASE Scored(r, runs, W) = r
  BY <1>1
<1>2. CASE Scored(r, runs, W) # r
  <2>1. W # {} /\ r.song # None
    BY <1>2, ScoredOfNone
  <2>2. r \in SongRound /\ W \in SUBSET Players
    BY <2>1, KindOfRound
  <2>3. PICK w : w = Scored(r, runs, W)
    OBVIOUS
  <2>4. /\ w \in SongRound /\ w.song = r.song /\ Held(w) = Held(r) \union W
        /\ \A p \in Players : w.of[p] = IF p \in W THEN [score |-> runs[p], points |-> 0] ELSE r.of[p]
    <3>1. RunsOf(runs, W)
      OBVIOUS
    <3>2. /\ Scored(r, runs, W) \in SongRound /\ Scored(r, runs, W).song = r.song
          /\ Held(Scored(r, runs, W)) = Held(r) \union W
          /\ \A p \in Players : Scored(r, runs, W).of[p] =
                IF p \in W THEN [score |-> runs[p], points |-> 0] ELSE r.of[p]
      BY <2>2, <3>1, ScoredIs
    <3> QED BY <2>3, <3>2
  <2>5. made \in RankIfComplete(w, S, sys)
    BY <1>2, <2>3
  <2>6. made \in SongRound /\ made.song = w.song /\ Held(made) = Held(w)
    BY <2>4, <2>5, RankingType
  <2>7. ASSUME Guests = {} PROVE RoundFits(made, S, sys)
    <3>1. Held(r) \subseteq S /\ Ranked(r, S, sys)
      BY <2>1, <2>7 DEF RoundFits
    <3>2. Held(made) \subseteq S
      BY <2>4, <2>6, <3>1
    <3>3. ~Complete(w, S) => \A q \in Held(w) : w.of[q].points = 0
      <4>1. SUFFICES ASSUME ~Complete(w, S), NEW q \in Held(w) PROVE w.of[q].points = 0
        OBVIOUS
      <4>2. ~Complete(r, S)
        BY <4>1, <2>4 DEF Complete
      <4>3. q \in Players
        BY DEF Held
      <4>4. CASE q \in W
        <5>1. w.of[q] = [score |-> runs[q], points |-> 0]
          BY <2>4, <4>3, <4>4
        <5> QED BY <5>1
      <4>5. CASE q \notin W
        BY <2>4, <3>1, <4>2, <4>3, <4>5 DEF Ranked
      <4> QED BY <4>4, <4>5
    <3>4. Ranked(made, S, sys)
      BY <2>4, <2>5, <3>3, RankingRanks
    <3> QED BY <3>2, <3>4 DEF RoundFits
  <2> QED BY <2>4, <2>6, <2>7 DEF Round
<1> QED BY <1>1, <1>2

\* A tiebreak t that W's runs are written to.
ScoredTiebreak(t, runs, W, off) ==
    [t EXCEPT !.invalidated = @ \/ off,
              !.of = [p \in DOMAIN @ |-> IF p \in W THEN runs[p] ELSE @[p]]]

\* Runs written to a tiebreak leave its players.
LEMMA TiebreakScored ==
    ASSUME NEW t \in Tiebreak, NEW W, NEW runs, NEW off \in BOOLEAN,
           RunsOf(runs, W), W # {} => t.song # None, NEW made,
           made = ScoredTiebreak(t, runs, W, off)
    PROVE  /\ made \in Tiebreak /\ DOMAIN made.of = DOMAIN t.of
           /\ made.invalidated = (t.invalidated \/ off)
<1> DEFINE of == [p \in DOMAIN t.of |-> IF p \in W THEN runs[p] ELSE t.of[p]]
           gone == t.invalidated \/ off
<1>1. made = [song |-> t.song, invalidated |-> gone, of |-> of]
  <2>1. PICK song, invalidated, f : t = [song |-> song, invalidated |-> invalidated, of |-> f]
    BY KindOfTiebreak
  <2> QED BY <2>1 DEF ScoredTiebreak
<1>2. gone \in BOOLEAN
  OBVIOUS
<1>3. /\ of = [p \in DOMAIN t.of |-> of[p]] /\ DOMAIN of = DOMAIN t.of
      /\ \A p \in DOMAIN t.of : of[p] = IF p \in W THEN runs[p] ELSE t.of[p]
  OBVIOUS
<1>4. /\ t.song # None => \A p \in DOMAIN t.of : of[p] \in Scores \union {None}
      /\ t.song = None => \A p \in DOMAIN t.of : of[p] \in Nat
  BY <1>3, KindOfTiebreak DEF RunsOf
<1> HIDE DEF of, gone
<1>5. made \in Tiebreak
  <2>1. PICK S \in SUBSET Players : S = DOMAIN t.of
    BY KindOfTiebreak
  <2>2. t.song \in Songs \union {None}
    BY KindOfTiebreak
  <2>3. PICK song \in Songs \union {None} : song = t.song
    BY <2>2
  <2>4. /\ of = [p \in S |-> of[p]]
        /\ song # None => \A p \in S : of[p] \in Scores \union {None}
        /\ song = None => \A p \in S : of[p] \in Nat
    BY <1>3, <1>4, <2>1, <2>3
  <2>5. [song |-> song, invalidated |-> gone, of |-> of] \in Tiebreak
    BY <1>2, <2>4, TiebreakFrom
  <2> QED BY <1>1, <2>3, <2>5
<1> QED BY <1>1, <1>3, <1>5 DEF gone

\* Where a run goes is a target.
LEMMA TargetsAre ==
    ASSUME rounds \in Seq(Round), tiebreaks \in Seq(Tiebreak), NEW song, NEW p
    PROVE  /\ LiveRounds(song, p) # {} => FirstOf(LiveRounds(song, p)) \in LiveRounds(song, p)
           /\ LiveTiebreaks(song, p) # {} => FirstOf(LiveTiebreaks(song, p)) \in LiveTiebreaks(song, p)
<1>1. /\ Len(rounds) \in Nat /\ DOMAIN rounds = 1..Len(rounds)
      /\ Len(tiebreaks) \in Nat /\ DOMAIN tiebreaks = 1..Len(tiebreaks)
  OBVIOUS
<1>2. LiveRounds(song, p) \in SUBSET Nat /\ LiveTiebreaks(song, p) \in SUBSET Nat
  BY <1>1 DEF LiveRounds, LiveTiebreaks
<1> QED BY <1>2, FirstIsFirst

\* Each run goes to a target; if one of them is a round, all tiebreaks are invalidated.
LEMMA ApplyCompletedSongInv ==
    ASSUME MatchInv, NEW song \in Songs, NEW S \in SUBSET Live(song), NEW runs \in [S -> Scores],
           ApplyCompletedSong(song, runs)
    PROVE  MatchInv'
<1> DEFINE n      == Len(rounds)
           tied   == {p \in DOMAIN runs : LiveTiebreaks(song, p) # {}}
           played == DOMAIN runs \ tied
           W(i)   == {p \in Players : p \in played /\ FirstOf(LiveRounds(song, p)) = i}
           V(i)   == {p \in DOMAIN tiebreaks[i].of : p \in tied /\ FirstOf(LiveTiebreaks(song, p)) = i}
           Put(i) == [rounds[i] EXCEPT !.of = [p \in Players |->
                        IF p \in played /\ FirstOf(LiveRounds(song, p)) = i
                        THEN [score |-> runs[p], points |-> 0] ELSE @[p]]]
           options == [i \in 1..n |->
                        IF Put(i) = rounds[i] THEN {rounds[i]}
                        ELSE RankIfComplete(Put(i), entrants, system)]
           settled == [i \in DOMAIN tiebreaks |->
              [tiebreaks[i] EXCEPT
                  !.invalidated = @ \/ played # {},
                  !.of = [p \in DOMAIN @ |->
                     IF p \in tied /\ FirstOf(LiveTiebreaks(song, p)) = i THEN runs[p] ELSE @[p]]]]
<1>1. /\ rounds \in Seq(Round) /\ tiebreaks \in Seq(Tiebreak)
      /\ n \in Nat /\ DOMAIN rounds = 1..n /\ \A i \in 1..n : rounds[i] \in Round
      /\ DOMAIN tiebreaks = 1..Len(tiebreaks) /\ Len(tiebreaks) \in Nat
      /\ \A i \in DOMAIN tiebreaks : tiebreaks[i] \in Tiebreak
      /\ entrants \in SUBSET Players /\ system \in Systems
      /\ RoundsAre(rounds, entrants, system) /\ LiveTiebreaksStand
  BY MatchInvTypes DEF MatchInv
<1>2. /\ UNCHANGED <<entrants, system, result>>
      /\ tiebreaks' = settled
      /\ IF played = {} THEN UNCHANGED rounds ELSE rounds' \in Remade(options)
      /\ song # None
  BY NoneAssumption DEF ApplyCompletedSong
<1>3. DOMAIN runs = S /\ \A p \in DOMAIN runs : runs[p] \in Scores /\ p \in Players
  BY DEF Live
<1>4. ASSUME NEW i, NEW p \in W(i)
      PROVE  p \in entrants /\ i \in DOMAIN rounds /\ rounds[i].song = song /\ runs[p] \in Scores
  <2>1. LiveRounds(song, p) # {} /\ runs[p] \in Scores
    BY <1>3 DEF Live
  <2>2. i \in LiveRounds(song, p)
    BY <1>1, <2>1, TargetsAre
  <2> QED BY <2>1, <2>2 DEF LiveRounds
<1>5. ASSUME NEW i, NEW p \in V(i)
      PROVE  tiebreaks[i].song = song /\ runs[p] \in Scores
  <2>1. LiveTiebreaks(song, p) # {} /\ runs[p] \in Scores
    BY <1>3
  <2>2. i \in LiveTiebreaks(song, p)
    BY <1>1, <2>1, TargetsAre
  <2> QED BY <2>1, <2>2 DEF LiveTiebreaks
<1>6. ASSUME NEW i \in 1..n, NEW made \in options[i]
      PROVE  made \in Round /\ made.song = rounds[i].song
             /\ (Guests = {} => RoundFits(made, entrants, system))
  <2>1. rounds[i] \in Round /\ (Guests = {} => RoundFits(rounds[i], entrants, system))
    BY <1>1 DEF RoundsAre
  <2>2. Put(i) = Scored(rounds[i], runs, W(i))
    BY DEF Scored
  <2>3. /\ W(i) \subseteq entrants /\ RunsOf(runs, W(i))
        /\ W(i) # {} => rounds[i].song # None
    BY <1>2, <1>4 DEF RunsOf
  <2>4. made \in IF Put(i) = rounds[i] THEN {rounds[i]}
                 ELSE RankIfComplete(Put(i), entrants, system)
    OBVIOUS
  <2>5. PICK w : w = W(i)
    OBVIOUS
  <2> HIDE DEF W, Put
  <2>6. IF Scored(rounds[i], runs, w) = rounds[i] THEN made = rounds[i]
        ELSE made \in RankIfComplete(Scored(rounds[i], runs, w), entrants, system)
    BY <2>2, <2>4, <2>5
  <2>7. w \subseteq entrants /\ RunsOf(runs, w) /\ (w # {} => rounds[i].song # None)
    BY <2>3, <2>5
  <2> QED BY <1>1, <2>1, <2>6, <2>7, ScoredFits
<1>7. ASSUME NEW i \in DOMAIN tiebreaks
      PROVE  /\ settled[i] \in Tiebreak /\ DOMAIN settled[i].of = DOMAIN tiebreaks[i].of
             /\ settled[i].invalidated = (tiebreaks[i].invalidated \/ played # {})
  <2>1. PICK off \in BOOLEAN : off = (played # {})
    OBVIOUS
  <2>2. RunsOf(runs, V(i)) /\ (V(i) # {} => tiebreaks[i].song # None)
    BY <1>2, <1>5 DEF RunsOf
  <2>3. PICK v : v = V(i)
    OBVIOUS
  <2>4. settled[i] = ScoredTiebreak(tiebreaks[i], runs, v, off)
    BY <2>1, <2>3 DEF ScoredTiebreak
  <2>5. RunsOf(runs, v) /\ (v # {} => tiebreaks[i].song # None)
    BY <2>2, <2>3
  <2>6. PICK made : made = settled[i]
    OBVIOUS
  <2>7. tiebreaks[i] \in Tiebreak
    BY <1>1
  <2> HIDE DEF settled, V
  <2>8. PICK t \in Tiebreak : t = tiebreaks[i]
    BY <2>7
  <2>9. made = ScoredTiebreak(t, runs, v, off) /\ (v # {} => t.song # None)
    BY <2>4, <2>5, <2>6, <2>8
  <2>10. /\ made \in Tiebreak /\ DOMAIN made.of = DOMAIN t.of
         /\ made.invalidated = (t.invalidated \/ off)
    BY <2>5, <2>9, TiebreakScored
  <2> QED BY <2>1, <2>6, <2>8, <2>10
<1>8. tiebreaks' \in Seq(Tiebreak) /\ DOMAIN tiebreaks' = DOMAIN tiebreaks
  <2>1. settled \in [1..Len(tiebreaks) -> Tiebreak]
    BY <1>1, <1>7
  <2> HIDE DEF settled
  <2> QED BY <1>1, <1>2, <2>1, TableIsSeq
<1> HIDE DEF settled
<1>9. CASE played = {}
  <2>1. rounds' = rounds /\ entrants' = entrants
    BY <1>2, <1>9
  <2>2. \A i \in DOMAIN tiebreaks' : ~tiebreaks'[i].invalidated =>
           \E j \in DOMAIN tiebreaks :
              ~tiebreaks[j].invalidated /\ DOMAIN tiebreaks'[i].of = DOMAIN tiebreaks[j].of
    BY <1>2, <1>7, <1>8
  <2> QED BY <1>2, <1>8, <2>1, <2>2, TiebreaksInv
<1>10. CASE played # {}
  <2>1. rounds' \in Remade(options)
    BY <1>2, <1>10
  <2>2. Len(options) = n
    BY <1>1
  <2>3. \A i \in 1..n : options[i] \subseteq Round
    BY <1>6
  <2> HIDE DEF options, played
  <2>4. rounds' \in Seq(Round) /\ Len(rounds') = n /\ \A i \in 1..n : rounds'[i] \in options[i]
    BY <1>1, <2>1, <2>2, <2>3, RemadeIsChosen
  <2>5. DOMAIN rounds' = 1..n
    BY <2>4
  <2>6. ASSUME NEW i \in DOMAIN rounds', rounds'[i].song = None PROVE Len(rounds') = 1
    <3>1. rounds[i].song = None
      BY <1>6, <2>4, <2>5, <2>6
    <3> QED BY <1>1, <2>4, <2>5, <3>1 DEF RoundsAre
  <2>7. Guests = {} => \A i \in DOMAIN rounds' : RoundFits(rounds'[i], entrants, system)
    BY <1>6, <2>4, <2>5
  <2>8. RoundsAre(rounds', entrants, system)
    BY <2>4, <2>6, <2>7 DEF RoundsAre
  <2>9. LiveTiebreaksStand'
    BY <1>2, <1>7, <1>8, <1>10 DEF LiveTiebreaksStand
  <2> QED BY <1>1, <1>2, <1>8, <2>8, <2>9 DEF MatchInv
<1> QED BY <1>9, <1>10

\* A match starts sound.
LEMMA MatchInvInit == Init => MatchInv
<1> SUFFICES ASSUME Init PROVE MatchInv
  OBVIOUS
<1>1. entrants \in SUBSET Players /\ system \in Systems /\ tiebreaks = <<>> /\ result = None
  BY DEF Init
<1>2. RoundsAre(<<>>, entrants, system)
  BY DEF RoundsAre
<1>3. RoundsAre(rounds, entrants, system)
  <2>1. CASE rounds = <<>>
    BY <1>2, <2>1
  <2>2. CASE rounds # <<>>
    <3>1. PICK s \in Songs : rounds = <<NewRound(s)>>
      BY <2>2 DEF Init
    <3>2. SourceAllowed(s, <<>>) /\ s \in Songs \union {None}
      BY DEF SourceAllowed, Range
    <3>3. RoundsAre(Append(<<>>, NewRound(s)), entrants, system)
      BY <1>2, <3>2, RoundsWithNew
    <3>4. rounds = Append(<<>>, NewRound(s))
      BY <3>1
    <3> QED BY <3>3, <3>4
  <2> QED BY <2>1, <2>2
<1>4. LiveTiebreaksStand /\ tiebreaks \in Seq(Tiebreak)
  BY <1>1 DEF LiveTiebreaksStand
<1> QED BY <1>1, <1>3, <1>4 DEF MatchInv, ResultIs

\* Every command keeps it so.
LEMMA MatchInvNext ==
    ASSUME MatchInv, [Next]_vars PROVE MatchInv'
<1>1. ASSUME NEW S \in SUBSET Players, ChangeEntrants(S) PROVE MatchInv'
  BY <1>1, ResettleInv DEF ChangeEntrants, MatchInv
<1>2. ASSUME NEW p \in Players, Advance(p) PROVE MatchInv'
  <2>1. PICK S : S = IF p \in entrants THEN entrants \ {p} ELSE entrants \union {p}
    OBVIOUS
  <2>2. S \in SUBSET Players /\ system \in Systems
    BY <2>1 DEF MatchInv
  <2> QED BY <1>2, <2>1, <2>2, ResettleInv DEF Advance
<1>3. ASSUME NEW sys \in Systems, ChangeScoringSystem(sys) PROVE MatchInv'
  BY <1>3, ResettleInv DEF ChangeScoringSystem, MatchInv
<1>4. ASSUME NEW song \in Songs \union {None},
             \/ AddRound(song)
             \/ \E i \in DOMAIN rounds : ReplaceRoundSong(i, song)
             \/ AddTiebreak(song)
      PROVE  MatchInv'
  BY <1>4, AddRoundInv, ReplaceRoundSongInv, AddTiebreakInv
<1>5. ASSUME NEW i \in DOMAIN rounds,
             \/ RemoveRound(i)
             \/ \E p \in Players :
                   \/ \E score \in Scores : UpsertScore(i, p, score)
                   \/ \E points \in HandPoints : UpsertPoints(i, p, points)
                   \/ RemoveStanding(i, p)
      PROVE  MatchInv'
  BY <1>5, RemoveRoundInv, UpsertScoreInv, UpsertPointsInv, RemoveStandingInv
<1>6. ASSUME NEW i \in DOMAIN tiebreaks,
             \/ RemoveTiebreak(i)
             \/ \E p \in Players :
                   \/ \E score \in Deciders : UpsertTiebreakScore(i, p, score)
                   \/ \E points \in HandPoints : UpsertTiebreakPoints(i, p, points)
                   \/ ClearTiebreakStanding(i, p)
      PROVE  MatchInv'
  BY <1>6, RemoveTiebreakInv, UpsertTiebreakScoreInv, UpsertTiebreakPointsInv, ClearTiebreakStandingInv
<1>7. ASSUME NEW song \in Songs, NEW S \in SUBSET Live(song), NEW runs \in [S -> Scores],
             ApplyCompletedSong(song, runs)
      PROVE  MatchInv'
  BY <1>7, ApplyCompletedSongInv
<1>8. CASE UNCHANGED vars
  <2>1. UNCHANGED <<entrants, system, rounds, tiebreaks, result>>
    BY <1>8 DEF vars
  <2>2. LiveTiebreaksStand'
    BY <2>1, TiebreaksStay DEF MatchInv
  <2> QED BY <2>1, <2>2 DEF MatchInv
<1> QED BY <1>1, <1>2, <1>3, <1>4, <1>5, <1>6, <1>7, <1>8, CommitResultInv, ReopenResultInv DEF Next

-----------------------------------------------------------------------------
(* What the reads say.                                                     *)

\* Players that are all alike are one group.
LEMMA GroupedAlike ==
    ASSUME NEW S, S # {}, NEW value, \A p \in S : value[p] = 0
    PROVE  Grouped(S, value) = <<S>>
<1> DEFINE values == {value[p] : p \in S}
           Above(p) == {v \in values : v > value[p]}
           G == [i \in 1..Cardinality(values) |-> {p \in S : Cardinality(Above(p)) = i - 1}]
<1>1. Grouped(S, value) = G
  BY DEF Grouped
<1>2. values = {0}
  OBVIOUS
<1>3. Cardinality(values) = 1
  BY <1>2, FS_Singleton
<1>4. ASSUME NEW p \in S PROVE Cardinality(Above(p)) = 0
  <2>1. Above(p) = {}
    BY <1>2
  <2> QED BY <2>1, FS_EmptySet
<1> HIDE DEF values, Above
<1>5. G = [i \in 1..1 |-> S]
  <2>1. \A i \in 1..1 : {p \in S : Cardinality(Above(p)) = i - 1} = S
    BY <1>4
  <2> QED BY <1>3, <2>1
<1>6. [i \in 1..1 |-> S] = <<S>>
  OBVIOUS
<1> QED BY <1>1, <1>5, <1>6

\* A tiebreak with nothing in it leaves the groups as they are.
LEMMA NothingSaid ==
    ASSUME NEW g \in Seq(SUBSET Players), NEW t \in Tiebreak, DOMAIN t.of # {},
           \A p \in DOMAIN t.of : Merit(t, p) = 0
    PROVE  SplitBy(g, t) = g
<1>1. SUFFICES ASSUME SplitBy(g, t) # g PROVE FALSE
  OBVIOUS
<1>2. PICK i \in 1..Len(g), h \in Seq(SUBSET Players) :
         /\ g[i] = DOMAIN t.of /\ h = Grouped(g[i], Merits(t))
         /\ Spliced(SplitBy(g, t), g, i, h)
  BY <1>1, SplitBySplices
<1>3. \A p \in DOMAIN t.of : Merits(t)[p] = 0
  BY DEF Merits
<1>4. h = <<g[i]>>
  BY <1>2, <1>3, GroupedAlike
<1>5. PICK made \in Seq(SUBSET Players) : made = SplitBy(g, t)
  BY SplitBySplices
<1>6. Len(h) = 1 /\ h[1] = g[i] /\ Len(g) \in Nat /\ i \in 1..Len(g)
  BY <1>4
<1>7. /\ Len(made) = Len(g)
      /\ \A k \in 1..(i - 1) : made[k] = g[k]
      /\ made[i] = g[i]
      /\ \A k \in (i + 1)..Len(g) : made[k] = g[k]
  <2>1. /\ Len(made) = Len(g) - 1 + Len(h)
        /\ \A k \in 1..(i - 1) : made[k] = g[k]
        /\ \A k \in i..(i + Len(h) - 1) : made[k] = h[k - i + 1]
        /\ \A k \in (i + Len(h))..Len(made) : made[k] = g[k - Len(h) + 1]
    BY <1>2, <1>5 DEF Spliced
  <2>2. Len(made) = Len(g)
    BY <1>6, <2>1
  <2>3. made[i] = g[i]
    <3>1. i \in i..(i + Len(h) - 1) /\ i - i + 1 = 1
      BY <1>6
    <3> QED BY <1>6, <2>1, <3>1
  <2>4. ASSUME NEW k \in (i + 1)..Len(g) PROVE made[k] = g[k]
    <3>1. k \in (i + Len(h))..Len(made) /\ k - Len(h) + 1 = k
      BY <1>6, <2>2
    <3> QED BY <2>1, <3>1
  <2> QED BY <2>1, <2>2, <2>3, <2>4
<1>8. \A k \in 1..Len(g) : made[k] = g[k]
  BY <1>6, <1>7
<1>9. made = g
  <2>1. g \in Seq(SUBSET Players) /\ made \in Seq(SUBSET Players)
    OBVIOUS
  <2> QED BY <1>7, <1>8, <2>1, SeqEqual
<1> QED BY <1>1, <1>5, <1>9

\* Which tiebreaks count is read in two ways; those that only the reads count say nothing.
LEMMA CountedAlike ==
    ASSUME NEW t \in Tiebreak, NEW g \in Seq(SUBSET Players)
    PROVE  (IF ProjectedComplete(t) THEN SplitBy(g, t) ELSE g) =
           (IF TiebreakComplete(t) THEN SplitBy(g, t) ELSE g)
<1>1. CASE t.song # None
  BY <1>1 DEF ProjectedComplete, TiebreakComplete
<1>2. CASE t.song = None
  <2>1. \A p \in DOMAIN t.of : t.of[p] \in Nat /\ t.of[p] # None /\ Merit(t, p) = t.of[p]
    BY <1>2, KindOfTiebreak, NoneAssumption DEF Merit
  <2>2. ProjectedComplete(t) <=> Cardinality(DOMAIN t.of) >= 2
    BY <2>1 DEF ProjectedComplete
  <2>3. TiebreakComplete(t) <=>
           Cardinality(DOMAIN t.of) >= 2 /\ \E p \in DOMAIN t.of : t.of[p] > 0
    BY <1>2 DEF TiebreakComplete
  <2>4. CASE Cardinality(DOMAIN t.of) >= 2 /\ ~\E p \in DOMAIN t.of : t.of[p] > 0
    <3>1. DOMAIN t.of # {}
      <4>1. SUFFICES ASSUME DOMAIN t.of = {} PROVE FALSE
        OBVIOUS
      <4>2. Cardinality(DOMAIN t.of) = 0
        BY <4>1, FS_EmptySet
      <4> QED BY <2>4, <4>2
    <3>2. \A p \in DOMAIN t.of : Merit(t, p) = 0
      BY <2>1, <2>4
    <3>3. SplitBy(g, t) = g
      BY <3>1, <3>2, NothingSaid
    <3> QED BY <3>3
  <2>5. CASE ~(Cardinality(DOMAIN t.of) >= 2 /\ ~\E p \in DOMAIN t.of : t.of[p] > 0)
    BY <2>2, <2>3, <2>5
  <2> QED BY <2>4, <2>5
<1> QED BY <1>1, <1>2

\* The two ways to count tiebreaks come to the same groups.
LEMMA ProjectedIsResolved ==
    ASSUME rounds \in Seq(Round), entrants \in SUBSET Players, tiebreaks \in Seq(Tiebreak)
    PROVE  Projected = Resolved
<1> DEFINE ours   == {i \in DOMAIN tiebreaks : TiebreakComplete(tiebreaks[i])}
           theirs == {i \in DOMAIN tiebreaks : ProjectedComplete(tiebreaks[i])}
           n == Len(tiebreaks)
<1>1. n \in Nat /\ DOMAIN tiebreaks = 1..n /\ \A i \in 1..n : tiebreaks[i] \in Tiebreak
  OBVIOUS
<1>2. PICK f : After(f, ours) /\ Groups(ours) = f[n]
  <2>1. ours \in SUBSET DOMAIN tiebreaks
    OBVIOUS
  <2> HIDE DEF ours
  <2> QED BY <2>1, GroupsUnfold
<1>3. PICK h : After(h, theirs) /\ Groups(theirs) = h[n]
  <2>1. theirs \in SUBSET DOMAIN tiebreaks
    OBVIOUS
  <2> HIDE DEF theirs
  <2> QED BY <2>1, GroupsUnfold
<1> DEFINE T == {i \in Nat : i <= n => f[i] \in Seq(SUBSET Players) /\ h[i] = f[i]}
<1>4. 0 \in T
  <2>1. f[0] = Grouped(entrants, [p \in entrants |-> Total(p)]) /\ h[0] = f[0]
    <3> HIDE DEF ours, theirs
    <3> QED BY <1>2, <1>3 DEF After
  <2>2. Arranged(Grouped(entrants, [p \in entrants |-> Total(p)]))
    BY ArrangedByTotal
  <2>3. f[0] \in Seq(SUBSET Players)
    BY <2>1, <2>2 DEF Arranged
  <2> QED BY <2>1, <2>3
<1>5. ASSUME NEW i \in Nat, i \in T PROVE i + 1 \in T
  <2>1. SUFFICES ASSUME i + 1 <= n PROVE f[i + 1] \in Seq(SUBSET Players) /\ h[i + 1] = f[i + 1]
    OBVIOUS
  <2>2. i + 1 \in 1..n /\ (i + 1) - 1 = i /\ f[i] \in Seq(SUBSET Players) /\ h[i] = f[i]
    BY <1>1, <1>5, <2>1
  <2>3. PICK t \in Tiebreak : t = tiebreaks[i + 1]
    BY <1>1, <2>2
  <2>4. PICK g \in Seq(SUBSET Players) : g = f[i]
    BY <2>2
  <2>5. f[i + 1] = IF i + 1 \in ours /\ ~t.invalidated THEN SplitBy(g, t) ELSE g
    <3> HIDE DEF ours
    <3> QED BY <1>2, <2>2, <2>3, <2>4 DEF After
  <2>6. h[i + 1] = IF i + 1 \in theirs /\ ~t.invalidated THEN SplitBy(g, t) ELSE g
    <3> HIDE DEF theirs
    <3> QED BY <1>3, <2>2, <2>3, <2>4 DEF After
  <2>7. /\ i + 1 \in ours <=> TiebreakComplete(t)
        /\ i + 1 \in theirs <=> ProjectedComplete(t)
    BY <1>1, <2>2, <2>3
  <2>8. (IF ProjectedComplete(t) THEN SplitBy(g, t) ELSE g) =
        (IF TiebreakComplete(t) THEN SplitBy(g, t) ELSE g)
    BY CountedAlike
  <2>9. SplitBy(g, t) \in Seq(SUBSET Players)
    BY SplitBySplices
  <2> HIDE DEF ours, theirs
  <2> QED BY <2>4, <2>5, <2>6, <2>7, <2>8, <2>9
<1>6. n \in T
  <2>1. \A i \in Nat : i \in T => i + 1 \in T
    BY <1>5
  <2> HIDE DEF T
  <2> QED BY <1>1, <1>4, <2>1, UpFromZero
<1>7. h[n] = f[n]
  BY <1>1, <1>6
<1> QED BY <1>2, <1>3, <1>7 DEF Projected, Resolved

\* No standing is missing in the count when none is.
LEMMA MissingIsSettled ==
    ASSUME MatchInv, Guests = {}, SongRounds # {}, entrants # {}
    PROVE  MissingScores = 0 <=> Settled
<1> DEFINE n == Len(rounds)
           all == SongRounds \X entrants
           scored == {at \in SongRounds \X Players : rounds[at[1]].of[at[2]] # None}
<1>1. /\ DOMAIN rounds = 1..n /\ n \in Nat /\ \A i \in 1..n : rounds[i] \in Round
      /\ entrants \in SUBSET Players /\ RoundsAre(rounds, entrants, system)
  BY MatchInvTypes DEF MatchInv
<1>2. SongRounds = 1..n /\ rounds # <<>>
  <2>1. PICK i \in 1..n : rounds[i].song # None
    BY <1>1 DEF SongRounds
  <2>2. ASSUME NEW j \in 1..n, rounds[j].song = None PROVE FALSE
    <3>1. n = 1
      BY <1>1, <2>2 DEF RoundsAre
    <3> QED BY <2>1, <2>2, <3>1
  <2> QED BY <1>1, <2>1, <2>2 DEF SongRounds
<1>3. ASSUME NEW i \in 1..n PROVE Held(rounds[i]) \subseteq entrants
  BY <1>1 DEF RoundsAre, RoundFits
<1>4. scored \in SUBSET all
  <2>1. ASSUME NEW i \in 1..n, NEW p \in Players, rounds[i].of[p] # None PROVE p \in entrants
    BY <1>3, <2>1 DEF Held
  <2> QED BY <1>2, <2>1
<1>5. /\ IsFiniteSet(all) /\ Cardinality(all) = Cardinality(SongRounds) * Cardinality(entrants)
      /\ Cardinality(all) \in Nat
  <2>1. IsFiniteSet(SongRounds) /\ IsFiniteSet(entrants)
    BY <1>1, <1>2, PlayersAssumption, FS_Interval, FS_Subset
  <2> QED BY <2>1, FS_Product, FS_CardinalityType
<1>6. Settled <=> \A i \in 1..n : entrants \subseteq Held(rounds[i])
  BY <1>1, <1>2 DEF Settled, Range, SongRounds
<1>7. Settled <=> scored = all
  <2>1. ASSUME Settled PROVE scored = all
    BY <1>1, <1>2, <1>4, <1>6, <2>1 DEF Held
  <2>2. ASSUME scored = all, NEW i \in 1..n, NEW p \in entrants PROVE p \in Held(rounds[i])
    <3>1. <<i, p>> \in scored
      BY <1>2, <2>2
    <3> QED BY <1>1, <3>1 DEF Held
  <2> QED BY <1>6, <2>1, <2>2
<1>8. MissingScores = IF Cardinality(all) - Cardinality(scored) > 0
                      THEN Cardinality(all) - Cardinality(scored) ELSE 0
  BY <1>5 DEF MissingScores
<1> HIDE DEF all, scored
<1>9. /\ Cardinality(scored) \in Nat /\ Cardinality(scored) <= Cardinality(all)
      /\ Cardinality(all) = Cardinality(scored) => all = scored
  BY <1>4, <1>5, FS_Subset, FS_CardinalityType
<1> QED BY <1>5, <1>7, <1>8, <1>9

-----------------------------------------------------------------------------
(* The theorems.                                                           *)

\* The invariant: types; a round by hand is the only one; with no guests every round holds
\* entrants only and is ranked; and live tiebreaks stand.
THEOREM MatchIsSound == Spec => []MatchInv
<1>1. Init => MatchInv
  BY MatchInvInit
<1>2. MatchInv /\ [Next]_vars => MatchInv'
  BY MatchInvNext
<1> QED BY <1>1, <1>2, PTL DEF Spec

\* Type correctness.
THEOREM MatchTypes == Spec => []TypeOK
<1>1. MatchInv => TypeOK
  BY MatchInvTypes
<1> QED BY <1>1, MatchIsSound, PTL

\* A tiebreak that is not invalidated is evidence about a tie that still is, whichever
\* commands came since it was drawn: each command of match.aggregate.ts that may change a
\* total, the entrants or whether the match is settled invalidates it.
THEOREM LiveTiebreaksAlwaysStand == Spec => []LiveTiebreaksStand
<1>1. MatchInv => LiveTiebreaksStand
  BY DEF MatchInv
<1> QED BY <1>1, MatchIsSound, PTL

\* resolvePlacements is fair in any match: more points come first, placements are shared
\* and left out as in a competition, and who is ahead with equal points was better in a
\* tiebreak that counts, or on average.
THEOREM PlacementsAreFair == Spec => []FairlyPlaced
<1>1. TypeOK => FairlyPlaced
  BY ArrangedIsFair
<1> QED BY <1>1, MatchTypes, PTL

\* commitResult records the result of just the players in the match, and players who share
\* a placement go the same way, whatever the outgoing rules are.
THEOREM CommitsAreAlwaysDecided == Spec => CommitsAreDecided
<1> DEFINE Decided ==
             result' # None /\ result' # result =>
                /\ DOMAIN result' = entrants
                /\ \A p \in entrants :
                      LET k == result'[p].placement
                          shared == {q \in entrants : result'[q].placement = k}
                      IN  \A j \in Span(k, shared) : OutcomeOf(j) = OutcomeOf(k)
<1>1. ASSUME MatchInv, CommitResult PROVE Decided
  <2>1. PICK g : g = Resolved /\ AmbiguousTies(g) = {} /\ result' = Entries(g)
    BY <1>1 DEF CommitResult
  <2>2. rounds \in Seq(Round) /\ entrants \in SUBSET Players /\ tiebreaks \in Seq(Tiebreak)
    BY <1>1, MatchInvTypes DEF MatchInv
  <2>3. Arranged(g)
    BY <2>1, <2>2, ResolvedArranged
  <2>4. DOMAIN Entries(g) = entrants
    BY DEF Entries
  <2>5. ASSUME NEW p \in entrants
        PROVE  LET k      == Entries(g)[p].placement
                   shared == {q \in entrants : Entries(g)[q].placement = k}
               IN  \A j \in Span(k, shared) : OutcomeOf(j) = OutcomeOf(k)
    BY <2>1, <2>2, <2>3, TiesGoOneWay
  <2> QED BY <2>1, <2>4, <2>5
<1>2. ASSUME MatchInv, [Next]_vars PROVE [Decided]_vars
  <2>1. CASE CommitResult
    BY <1>1, <1>2, <2>1
  <2>2. CASE ReopenResult
    BY <2>2 DEF ReopenResult
  <2>3. CASE UNCHANGED result
    BY <2>3
  <2>4. Next => CommitResult \/ ReopenResult \/ UNCHANGED result
    BY DEF Next, ChangeEntrants, Advance, ChangeScoringSystem, Resettle, AddRound, ReplaceRoundSong,
           AddTiebreak, RemoveRound, UpsertScore, UpsertPoints, RemoveStanding, RemoveTiebreak,
           UpsertTiebreakScore, UpsertTiebreakPoints, ClearTiebreakStanding, ApplyCompletedSong
  <2>5. UNCHANGED vars => UNCHANGED result
    BY DEF vars
  <2> QED BY <1>2, <2>1, <2>2, <2>3, <2>4, <2>5
<1>3. MatchInv /\ [Next]_vars => [Decided]_vars
  BY <1>2
<1>4. CommitsAreDecided <=> [][Decided]_vars
  BY DEF CommitsAreDecided
<1> HIDE DEF Decided
<1> QED BY <1>3, <1>4, MatchIsSound, PTL DEF Spec

\* As long as nobody is scored who is not in the match, the points of every song are those
\* its scoring system gives for the scores in it, and zero while one is missing.
THEOREM RoundsAreAlwaysRanked ==
    ASSUME Guests = {} PROVE Spec => []RoundsAreRanked
<1>1. ASSUME MatchInv PROVE RoundsAreRanked
  <2>1. ASSUME NEW i \in SongRounds PROVE Ranked(rounds[i], entrants, system)
    BY <1>1 DEF MatchInv, RoundsAre, RoundFits, SongRounds
  <2> QED BY <2>1 DEF RoundsAreRanked, Ranked, BetterIn, Eligible
<1>2. MatchInv => RoundsAreRanked
  BY <1>1
<1> QED BY <1>2, MatchIsSound, PTL

\* match.queries.ts computes the status and the ties to be broken on its own, and counts
\* the standings that are missing: it agrees with the aggregate in every state, as long as
\* nobody is scored who is not in the match.
THEOREM ReadsAlwaysAgree ==
    ASSUME Guests = {} PROVE Spec => []ReadsAgree
<1>1. ASSUME MatchInv PROVE ReadsAgree
  <2>1. rounds \in Seq(Round) /\ entrants \in SUBSET Players /\ tiebreaks \in Seq(Tiebreak)
    BY <1>1, MatchInvTypes DEF MatchInv
  <2>2. Projected = Resolved
    BY <2>1, ProjectedIsResolved
  <2>3. Editable /\ Settled => State = StatusOf(Resolved)
    BY DEF Editable, State
  <2>4. SongRounds # {} /\ entrants # {} => (MissingScores = 0 <=> Settled)
    BY <1>1, MissingIsSettled
  <2> QED BY <2>2, <2>3, <2>4 DEF ReadsAgree
<1>2. MatchInv => ReadsAgree
  BY <1>1
<1> QED BY <1>2, MatchIsSound, PTL

=============================================================================
