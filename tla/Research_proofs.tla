--------------------------- MODULE Research_proofs ---------------------------
(***************************************************************************)
(* Theorems about the research studies, for every grid, every result a     *)
(* backtest may have, and every choice of windows and data: what is        *)
(* selected is the best of what was compared, and of two windows or more   *)
(* the validator is no less strict than the analyzer.                      *)
(*                                                                         *)
(* A ranking puts at place k the element before which k - 1 others come;   *)
(* that there is one for every k is a fact about total orders of finitely  *)
(* many things (PlacesAreTaken).                                           *)
(***************************************************************************)
EXTENDS Research, FoldTheorems

-----------------------------------------------------------------------------
(* Rankings                                                                *)

\* R puts the numbers 1 to n in an order.
Orders(R, n) ==
  /\ \A i \in 1..n : <<i, i>> \notin R
  /\ \A i, j \in 1..n : i # j => <<i, j>> \in R \/ <<j, i>> \in R
  /\ \A i, j, k \in 1..n : <<i, j>> \in R /\ <<j, k>> \in R => <<i, k>> \in R

Place(R, n, i) == 1 + Cardinality({j \in 1..n : <<j, i>> \in R})

LEMMA PlacesAreTaken ==
  ASSUME NEW n \in Nat, NEW R, Orders(R, n)
  PROVE  /\ \A i, j \in 1..n : <<i, j>> \in R => Place(R, n, i) < Place(R, n, j)
         /\ \A i \in 1..n : Place(R, n, i) \in 1..n
         /\ \A k \in 1..n : \E i \in 1..n : Place(R, n, i) = k
<1> DEFINE before(i) == {j \in 1..n : <<j, i>> \in R}
<1>1. IsFiniteSet(1..n) /\ Cardinality(1..n) = n
  BY FS_Interval
<1>2. ASSUME NEW i \in 1..n
      PROVE  IsFiniteSet(before(i)) /\ Cardinality(before(i)) \in Nat
  <2>1. before(i) \in SUBSET (1..n)
    OBVIOUS
  <2>2. QED
    BY <1>1, <2>1, FS_Subset, FS_CardinalityType
<1>3. ASSUME NEW i \in 1..n, NEW j \in 1..n, <<i, j>> \in R
      PROVE  Cardinality(before(i)) < Cardinality(before(j))
  <2>1. i \notin before(i) /\ before(i) \cup {i} \in SUBSET before(j)
    BY <1>3 DEF Orders
  <2>2. Cardinality(before(i) \cup {i}) = Cardinality(before(i)) + 1
    BY <1>2, <2>1, FS_AddElement
  <2>3. Cardinality(before(i) \cup {i}) <= Cardinality(before(j))
    BY <1>2, <2>1, FS_Subset
  <2> HIDE DEF before
  <2>4. QED
    BY <1>2, <2>2, <2>3
<1>4. ASSUME NEW i \in 1..n
      PROVE  Cardinality(before(i)) + 1 <= n
  <2>1. i \notin before(i) /\ before(i) \cup {i} \in SUBSET (1..n)
    BY DEF Orders
  <2>2. Cardinality(before(i) \cup {i}) = Cardinality(before(i)) + 1
    BY <1>2, <2>1, FS_AddElement
  <2>3. Cardinality(before(i) \cup {i}) <= Cardinality(1..n)
    BY <1>1, <2>1, FS_Subset
  <2>4. QED
    BY <1>1, <2>2, <2>3
<1> DEFINE place == [i \in 1..n |-> Place(R, n, i)]
<1>5. \A i \in 1..n : place[i] = 1 + Cardinality(before(i))
  BY DEF Place
<1> HIDE DEF before
<1>6. ASSUME NEW i \in 1..n
      PROVE  place[i] \in 1..n
  BY <1>2, <1>4, <1>5
<1>7. ASSUME NEW i \in 1..n, NEW j \in 1..n, <<i, j>> \in R
      PROVE  place[i] < place[j]
  BY <1>2, <1>3, <1>5, <1>7
<1>8. ASSUME NEW i \in 1..n, NEW j \in 1..n, place[i] = place[j]
      PROVE  i = j
  <2>1. CASE <<i, j>> \in R \/ <<j, i>> \in R
    BY <1>6, <1>7, <1>8, <2>1
  <2>2. QED
    BY <2>1 DEF Orders
<1>9. place \in Injection(1..n, 1..n)
  <2>1. place \in [1..n -> 1..n]
    BY <1>6
  <2>2. QED
    BY <1>8, <2>1 DEF Injection, IsInjective
<1>10. place \in Surjection(1..n, 1..n)
  <2> HIDE DEF place
  <2>1. QED
    BY <1>1, <1>9, FS_Injection
<1>11. \A k \in 1..n : \E i \in 1..n : place[i] = k
  BY <1>10 DEF Surjection
<1>12. QED
  BY <1>6, <1>7, <1>11
\* Who is in the first place comes before all others.
LEMMA FirstPlace ==
  ASSUME NEW n \in Nat, NEW R, Orders(R, n), NEW i \in 1..n, Place(R, n, i) = 1,
         NEW j \in 1..n, j # i
  PROVE  <<i, j>> \in R
<1>1. Place(R, n, j) \in 1..n
  BY PlacesAreTaken
<1>2. ~(Place(R, n, j) < Place(R, n, i))
  BY <1>1
<1>3. <<j, i>> \notin R
  BY <1>2, PlacesAreTaken
<1>4. QED
  BY <1>3 DEF Orders

\* The records of s by score, of equals the earlier first.
ByScore(s) == Ranked(s, LAMBDA x, y : x.score > y.score)

LEMMA ScoreRanking ==
  ASSUME NEW S, \A x \in S : x.score \in Int, NEW s \in Seq(S)
  PROVE  /\ ByScore(s) \in Seq(S) /\ Len(ByScore(s)) = Len(s)
         /\ \A k \in 1..Len(s) : \E i \in 1..Len(s) : ByScore(s)[k] = s[i]
         /\ s # <<>> =>
              \E i \in 1..Len(s) :
                /\ ByScore(s)[1] = s[i]
                /\ \A j \in 1..Len(s) :
                     s[j].score <= s[i].score /\ (s[j].score = s[i].score => i <= j)
<1> DEFINE n == Len(s)
           first(j, i) == s[j].score > s[i].score \/ (~(s[i].score > s[j].score) /\ j < i)
           R == {p \in (1..n) \X (1..n) : first(p[1], p[2])}
           place(i) == 1 + Cardinality({j \in DOMAIN s : first(j, i)})
           at(k) == CHOOSE i \in DOMAIN s : place(i) = k
<1>1. n \in Nat /\ DOMAIN s = 1..n /\ \A i \in 1..n : s[i] \in S /\ s[i].score \in Int
  OBVIOUS
<1>2. ByScore(s) = [k \in DOMAIN s |-> s[at(k)]]
  BY DEF ByScore, Ranked
<1>3. \A i, j \in 1..n : <<j, i>> \in R <=> first(j, i)
  OBVIOUS
<1>4. ASSUME NEW i \in 1..n
      PROVE  place(i) = Place(R, n, i)
  <2>1. {j \in DOMAIN s : first(j, i)} = {j \in 1..n : <<j, i>> \in R}
    BY <1>1, <1>3
  <2>2. QED
    BY <2>1 DEF Place
<1>5. Orders(R, n)
  <2> HIDE DEF R, n
  <2>1. QED
    BY <1>1, <1>3 DEF Orders
<1> HIDE DEF R
<1>6. ASSUME NEW k \in 1..n
      PROVE  at(k) \in 1..n /\ Place(R, n, at(k)) = k
  <2> HIDE DEF n, place
  <2>1. \E i \in 1..n : Place(R, n, i) = k
    BY <1>1, <1>5, PlacesAreTaken
  <2>2. at(k) \in 1..n /\ place(at(k)) = k
    BY <1>1, <1>4, <2>1
  <2>3. QED
    BY <1>4, <2>2
<1> HIDE DEF at
<1>7. \A k \in 1..n : ByScore(s)[k] = s[at(k)] /\ s[at(k)] \in S
  BY <1>1, <1>2, <1>6
<1>8. ByScore(s) \in Seq(S) /\ Len(ByScore(s)) = n
  BY <1>1, <1>2, <1>7
<1>9. ASSUME s # <<>>
      PROVE  \A j \in 1..n : s[j].score <= s[at(1)].score
                             /\ (s[j].score = s[at(1)].score => at(1) <= j)
  <2> TAKE j \in 1..n
  <2>1. at(1) \in 1..n /\ Place(R, n, at(1)) = 1
    BY <1>1, <1>6
  <2>2. j = at(1) \/ first(at(1), j)
    BY <1>1, <1>3, <1>5, <2>1, FirstPlace
  <2> HIDE DEF n
  <2>3. QED
    BY <1>1, <2>1, <2>2
<1>10. s # <<>> => 1 \in 1..n
  BY <1>1
<1>11. QED
  BY <1>6, <1>7, <1>8, <1>9, <1>10
\* The keys of a validation record are compared one after the other.
LEMMA ComparedInTurn ==
  ASSUME NEW x, NEW y
  PROVE  BetterValidated(x, y) <=>
           \/ x.score > y.score
           \/ /\ x.score = y.score
              /\ \/ x.result.pf > y.result.pf
                 \/ /\ x.result.pf = y.result.pf
                    /\ \/ x.result.ret > y.result.ret
                       \/ /\ x.result.ret = y.result.ret
                          /\ -x.result.drawdown > -y.result.drawdown
<1> DEFINE key(r) == <<r.score, r.result.pf, r.result.ret, -r.result.drawdown>>
           above(i) == key(x)[i] > key(y)[i]
           level(i) == key(x)[i] = key(y)[i]
<1>1. 1..4 = {1, 2, 3, 4} /\ 1..0 = {} /\ 1..1 = {1} /\ 1..2 = {1, 2} /\ 1..3 = {1, 2, 3}
  OBVIOUS
<1>2. 1 - 1 = 0 /\ 2 - 1 = 1 /\ 3 - 1 = 2 /\ 4 - 1 = 3
  OBVIOUS
<1>3. BetterValidated(x, y) <=> \E i \in 1..4 : above(i) /\ \A j \in 1..(i - 1) : level(j)
  BY DEF BetterValidated
<1> HIDE DEF above, level
<1>4. BetterValidated(x, y) <=>
        \/ above(1) /\ \A j \in 1..(1 - 1) : level(j)
        \/ above(2) /\ \A j \in 1..(2 - 1) : level(j)
        \/ above(3) /\ \A j \in 1..(3 - 1) : level(j)
        \/ above(4) /\ \A j \in 1..(4 - 1) : level(j)
  BY <1>1, <1>3, Zenon
<1>5. BetterValidated(x, y) <=>
        \/ above(1)
        \/ above(2) /\ level(1)
        \/ above(3) /\ level(1) /\ level(2)
        \/ above(4) /\ level(1) /\ level(2) /\ level(3)
  BY <1>1, <1>2, <1>4
<1>6. QED
  BY <1>5 DEF above, level
Grid == ToSet(Configs)

\* What a window measures of a configuration.
Records == [config : Grid, score : Int, result : TrainResults \cup ValidationResults]

LEMMA RecordKeys ==
  ASSUME NEW x \in Records
  PROVE  /\ x.score \in Int /\ x.result.pf \in Int /\ x.result.ret \in Int
         /\ -x.result.drawdown \in Int
<1>1. IsV5Result(x.result)
  BY ResearchAssumption DEF Records
<1>2. QED
  BY <1>1 DEF Records, IsV5Result, IsResult

\* Four keys in turn, and then the place in the sequence, make an order.
Above(a, b, c, d, i, j) ==
  \/ a[i] > a[j]
  \/ a[i] = a[j] /\ b[i] > b[j]
  \/ a[i] = a[j] /\ b[i] = b[j] /\ c[i] > c[j]
  \/ a[i] = a[j] /\ b[i] = b[j] /\ c[i] = c[j] /\ d[i] > d[j]

LEMMA KeysOrder ==
  ASSUME NEW n \in Nat, NEW a \in [1..n -> Int], NEW b \in [1..n -> Int],
         NEW c \in [1..n -> Int], NEW d \in [1..n -> Int], NEW R,
         \A i, j \in 1..n :
           <<i, j>> \in R <=>
             (Above(a, b, c, d, i, j) \/ (~Above(a, b, c, d, j, i) /\ i < j))
  PROVE  Orders(R, n)
<1>1. \A i \in 1..n : i \in Int /\ a[i] \in Int /\ b[i] \in Int /\ c[i] \in Int /\ d[i] \in Int
  OBVIOUS
<1>2. ASSUME NEW i \in 1..n
      PROVE  <<i, i>> \notin R
  <2>1. ~Above(a, b, c, d, i, i)
    BY <1>1 DEF Above
  <2>2. ~(i < i)
    OBVIOUS
  <2>3. QED
    BY <2>1, <2>2
<1>3. \A i, j \in 1..n : i # j => <<i, j>> \in R \/ <<j, i>> \in R
  BY <1>1
<1>4. ASSUME NEW i \in 1..n, NEW j \in 1..n, NEW k \in 1..n, <<i, j>> \in R, <<j, k>> \in R
      PROVE  <<i, k>> \in R
  <2>1. /\ a[i] \in Int /\ b[i] \in Int /\ c[i] \in Int /\ d[i] \in Int
        /\ a[j] \in Int /\ b[j] \in Int /\ c[j] \in Int /\ d[j] \in Int
        /\ a[k] \in Int /\ b[k] \in Int /\ c[k] \in Int /\ d[k] \in Int
    OBVIOUS
  <2>2. /\ Above(a, b, c, d, i, j) \/ (~Above(a, b, c, d, j, i) /\ i < j)
        /\ Above(a, b, c, d, j, k) \/ (~Above(a, b, c, d, k, j) /\ j < k)
    BY <1>4
  <2>3. Above(a, b, c, d, i, j) => ~Above(a, b, c, d, j, i)
    BY <2>1 DEF Above
  <2>4. Above(a, b, c, d, j, k) => ~Above(a, b, c, d, k, j)
    BY <2>1 DEF Above
  <2>5. ~Above(a, b, c, d, j, i) /\ ~Above(a, b, c, d, k, j) => ~Above(a, b, c, d, k, i)
    BY <2>1 DEF Above
  <2>6. Above(a, b, c, d, i, j) /\ ~Above(a, b, c, d, k, j) => Above(a, b, c, d, i, k)
    BY <2>1 DEF Above
  <2>7. ~Above(a, b, c, d, j, i) /\ Above(a, b, c, d, j, k) => Above(a, b, c, d, i, k)
    <3>1. ~Above(a, b, c, d, j, i) =>
            \/ Above(a, b, c, d, i, j)
            \/ a[i] = a[j] /\ b[i] = b[j] /\ c[i] = c[j] /\ d[i] = d[j]
      BY <2>1 DEF Above
    <3>2. a[i] = a[j] /\ b[i] = b[j] /\ c[i] = c[j] /\ d[i] = d[j] /\ Above(a, b, c, d, j, k)
            => Above(a, b, c, d, i, k)
      BY DEF Above
    <3>3. QED
      BY <2>4, <2>6, <3>1, <3>2, Zenon
  <2>8. i < j /\ j < k => i < k
    OBVIOUS
  <2>9. Above(a, b, c, d, i, k) \/ (~Above(a, b, c, d, k, i) /\ i < k)
    BY <2>2, <2>3, <2>4, <2>5, <2>6, <2>7, <2>8, Zenon
  <2>10. QED
    BY <2>9
<1>5. QED
  BY <1>2, <1>3, <1>4 DEF Orders

LEMMA ValidationRanking ==
  ASSUME NEW s \in Seq(Records)
  PROVE  /\ Ranked(s, BetterValidated) \in Seq(Records)
         /\ Len(Ranked(s, BetterValidated)) = Len(s)
         /\ \A k \in 1..Len(s) : \E i \in 1..Len(s) : Ranked(s, BetterValidated)[k] = s[i]
         /\ \A k \in 1..Len(s) :
              Ranked(s, BetterValidated)[k].score <= Ranked(s, BetterValidated)[1].score
<1> DEFINE n == Len(s)
           better(j, i) == BetterValidated(s[j], s[i])
           first(j, i) == better(j, i) \/ (~better(i, j) /\ j < i)
           R == {p \in (1..n) \X (1..n) : first(p[1], p[2])}
           place(i) == 1 + Cardinality({j \in DOMAIN s : first(j, i)})
           at(k) == CHOOSE i \in DOMAIN s : place(i) = k
           ranked == Ranked(s, BetterValidated)
<1>1. n \in Nat /\ DOMAIN s = 1..n /\ \A i \in 1..n : s[i] \in Records
  OBVIOUS
<1>2. ranked = [k \in DOMAIN s |-> s[at(k)]]
  BY DEF Ranked
<1>3. \A i, j \in 1..n : <<j, i>> \in R <=> first(j, i)
  <2> HIDE DEF first
  <2>1. QED
    OBVIOUS
<1>4. ASSUME NEW i \in 1..n
      PROVE  place(i) = Place(R, n, i)
  <2> HIDE DEF first, R
  <2>1. {j \in DOMAIN s : first(j, i)} = {j \in 1..n : <<j, i>> \in R}
    BY <1>1, <1>3
  <2>2. QED
    BY <2>1 DEF Place
<1>5. \A i \in 1..n : /\ s[i].score \in Int /\ s[i].result.pf \in Int
                      /\ s[i].result.ret \in Int /\ -s[i].result.drawdown \in Int
  BY <1>1, RecordKeys
<1> DEFINE a == [i \in 1..n |-> s[i].score]
           b == [i \in 1..n |-> s[i].result.pf]
           c == [i \in 1..n |-> s[i].result.ret]
           d == [i \in 1..n |-> -s[i].result.drawdown]
<1>13. a \in [1..n -> Int] /\ b \in [1..n -> Int] /\ c \in [1..n -> Int] /\ d \in [1..n -> Int]
  BY <1>5
<1>14. \A i, j \in 1..n : better(i, j) <=> Above(a, b, c, d, i, j)
  BY ComparedInTurn DEF Above
<1> HIDE DEF a, b, c, d, better
<1>6. Orders(R, n)
  <2> HIDE DEF R, n
  <2>1. \A i, j \in 1..n : <<i, j>> \in R <=>
             (Above(a, b, c, d, i, j) \/ (~Above(a, b, c, d, j, i) /\ i < j))
    BY <1>3, <1>14
  <2>2. QED
    BY <1>1, <1>13, <2>1, KeysOrder
<1> HIDE DEF R
<1>7. ASSUME NEW k \in 1..n
      PROVE  at(k) \in 1..n /\ Place(R, n, at(k)) = k
  <2> HIDE DEF n, place
  <2>1. \A m \in 1..n : \E i \in 1..n : Place(R, n, i) = m
    BY <1>1, <1>6, PlacesAreTaken
  <2>2. at(k) \in 1..n /\ place(at(k)) = k
    BY <1>1, <1>4, <2>1
  <2>3. QED
    BY <1>4, <2>2
<1> HIDE DEF at, first
<1>8. \A k \in 1..n : ranked[k] = s[at(k)] /\ s[at(k)] \in Records
  BY <1>1, <1>2, <1>7
<1>9. ranked \in Seq(Records) /\ Len(ranked) = n
  BY <1>1, <1>2, <1>8
<1>10. ASSUME NEW k \in 1..n
       PROVE  s[at(k)].score <= s[at(1)].score
  <2>1. at(1) \in 1..n /\ Place(R, n, at(1)) = 1 /\ at(k) \in 1..n
    BY <1>1, <1>7
  <2> HIDE DEF n
  <2>2. at(k) = at(1) \/ first(at(1), at(k))
    BY <1>1, <1>3, <1>6, <2>1, FirstPlace
  <2>3. CASE at(k) = at(1)
    BY <1>5, <2>1, <2>3
  <2>4. CASE first(at(1), at(k))
    <3>1. better(at(1), at(k)) \/ ~better(at(k), at(1))
      BY <2>4 DEF first
    <3>2. a[at(k)] \in Int /\ a[at(1)] \in Int
      BY <1>13, <2>1
    <3>3. a[at(k)] <= a[at(1)]
      BY <1>14, <2>1, <3>1, <3>2 DEF Above
    <3>4. QED
      BY <2>1, <3>3 DEF a
  <2>5. QED
    BY <2>2, <2>3, <2>4
<1> HIDE DEF ranked
<1>11. \A k \in 1..n : ranked[k].score <= ranked[1].score
  BY <1>1, <1>8, <1>10
<1>12. QED
  BY <1>7, <1>8, <1>9, <1>11 DEF ranked
-----------------------------------------------------------------------------
(* A window                                                                *)

\* The fold of TrainingRecords.
Kept(s) ==
  FoldLeft(LAMBDA so, x : IF x.score > TooFewTrades + 100 THEN Append(so, x) ELSE so, <<>>, s)

Scored == {x \in Records : x.score > TooFewTrades}

LEMMA KeptAreScored ==
  ASSUME NEW s \in Seq(Records)
  PROVE  Kept(s) \in Seq(Scored)
<1> DEFINE D == DOMAIN s
           Values == Seq(Scored)
           next(so, x) == IF x.score > TooFewTrades + 100 THEN Append(so, x) ELSE so
           Is(g) == g = [T \in SUBSET D |->
                           IF T = {} THEN <<>> ELSE next(g[T \ {Largest(T)}], s[Largest(T)])]
           fold == CHOOSE g : Is(g)
           step == [T \in SUBSET D |-> [v \in Values |-> next(v, s[Largest(T)])]]
<1>1. Kept(s) = fold[D]
  BY DEF Kept, FoldLeft, MapThenFoldSet, Max, Largest
<1>2. ASSUME NEW so \in Values, NEW x \in Records
      PROVE  next(so, x) \in Values
  <2>1. x.score \in Int
    BY DEF Records
  <2>2. x.score > TooFewTrades + 100 => x \in Scored
    BY <2>1 DEF Scored, TooFewTrades
  <2>3. QED
    BY <2>2
<1>3. <<>> \in Values
  OBVIOUS
<1> HIDE DEF next, Values
<1>4. \A g : Is(g) => \A T \in SUBSET D : g[T] \in Values
  <2> SUFFICES ASSUME NEW g, Is(g) PROVE \A T \in SUBSET D : g[T] \in Values
    OBVIOUS
  <2>1. g[{}] \in Values
    BY <1>3
  <2>2. ASSUME NEW T \in SUBSET D, T # {}, g[T \ {Picked(s)[T]}] \in Values
        PROVE  g[T] \in Values
    <3>1. g[T] = next(g[T \ {Largest(T)}], s[Largest(T)])
      BY <2>2
    <3>2. Picked(s)[T] = Largest(T) /\ s[Largest(T)] \in Records
      BY <2>2, SequencePicks
    <3> HIDE DEF Is
    <3>3. QED
      BY <1>2, <2>2, <3>1, <3>2
  <2> HIDE DEF Is
  <2>3. QED
    BY <2>1, <2>2, SequencePicks, FoldType
<1>5. \E g : Is(g)
  <2>1. PICK g : IsFold(g, <<>>, step, Picked(s), D)
    <3> HIDE DEF step
    <3>1. QED
      BY SequencePicks, FoldExists
  <2>2. ASSUME NEW T \in SUBSET D, T # {}, g[T \ {Picked(s)[T]}] \in Values
        PROVE  g[T] = next(g[T \ {Largest(T)}], s[Largest(T)]) /\ g[T] \in Values
    <3>1. g[T] = step[T][g[T \ {Picked(s)[T]}]]
      BY <2>1, <2>2 DEF IsFold
    <3>2. g[T] = next(g[T \ {Picked(s)[T]}], s[Largest(T)])
      BY <2>2, <3>1
    <3>3. Picked(s)[T] = Largest(T) /\ s[Largest(T)] \in Records
      BY <2>2, SequencePicks
    <3> HIDE DEF step
    <3>4. QED
      BY <1>2, <2>2, <3>2, <3>3
  <2>3. g[{}] \in Values
    BY <1>3, <2>1 DEF IsFold
  <2>4. \A T \in SUBSET D : g[T] \in Values
    BY <2>2, <2>3, SequencePicks, FoldType
  <2>5. \A T \in SUBSET D :
          g[T] = IF T = {} THEN <<>> ELSE next(g[T \ {Largest(T)}], s[Largest(T)])
    <3> TAKE T \in SUBSET D
    <3>1. CASE T = {}
      BY <2>1, <3>1 DEF IsFold
    <3>2. CASE T # {}
      BY <2>2, <2>4, <3>2
    <3>3. QED
      BY <3>1, <3>2
  <2>6. g = [T \in SUBSET D |-> g[T]]
    BY <2>1 DEF IsFold
  <2>7. Is(g)
    BY <2>5, <2>6
  <2>8. QED
    BY <2>7
<1> HIDE DEF Is
<1>6. Is(fold)
  BY <1>5
<1>7. fold[D] \in Values
  BY <1>4, <1>6
<1>8. QED
  BY <1>1, <1>7 DEF Values

LEMMA GridType ==
  /\ Configs \in Seq(Grid) /\ Len(Configs) \in Nat \ {0} /\ DOMAIN Configs = 1..Len(Configs)
  /\ \A i \in 1..Len(Configs) : Configs[i] \in Grid
  /\ \A i, j \in 1..Len(Configs) : Configs[i] = Configs[j] => i = j
<1>1. Configs \in Seq(Grid) /\ Configs # <<>>
  BY ResearchAssumption DEF Grid
<1>2. QED
  BY <1>1, ResearchAssumption DEF IsInjective

LEMMA TestedType ==
  /\ Tested \in Seq(Grid)
  /\ DOMAIN Tested = 1..Len(Tested)
<1> DEFINE m == Min({MaxCandidates, Len(Configs)})
<1>1. m \in Nat /\ m <= Len(Configs)
  BY GridType, ResearchAssumption DEF Min
<1> HIDE DEF m
<1>2. SubSeq(Configs, 1, m) \in Seq(Grid)
  BY <1>1, GridType
<1>3. Tested = SubSeq(Configs, 1, m)
  BY DEF Tested, m
<1>4. Tested \in Seq(Grid)
  BY <1>2, <1>3
<1>5. QED
  BY <1>4

\* What a window trains is scored.
LEMMA TrainingType ==
  ASSUME NEW results \in [DOMAIN Tested -> TrainResults]
  PROVE  TrainingRecords(results) \in Seq(Scored)
<1> DEFINE scored == [i \in DOMAIN Tested |-> Record(Tested[i], results[i])]
<1>1. ASSUME NEW i \in DOMAIN Tested
      PROVE  scored[i] \in Records
  <2>1. Tested[i] \in Grid /\ results[i] \in TrainResults
    BY TestedType
  <2>2. RobustScore(results[i]) \in Int
    BY <2>1, ResearchAssumption
  <2>3. QED
    BY <2>1, <2>2 DEF Record, Records
<1>2. scored \in Seq(Records)
  BY <1>1, TestedType
<1>3. Kept(scored) \in Seq(Scored)
  BY <1>2, KeptAreScored
<1>4. TrainingRecords(results) = ByScore(Kept(scored))
  BY DEF TrainingRecords, Kept, ByScore, Ranked
<1>5. \A x \in Scored : x.score \in Int
  BY DEF Scored, Records
<1> HIDE DEF scored
<1>6. QED
  BY <1>3, <1>4, <1>5, ScoreRanking
\* What it validates is out of that, the best first.
LEMMA ValidationType ==
  ASSUME training \in Seq(Scored), training # <<>>,
         NEW results \in [DOMAIN Finalists -> ValidationResults],
         NEW v, v = ValidationRecords(results), v # <<>>
  PROVE  /\ v \in Seq(Records)
         /\ \A j \in DOMAIN v : v[j].score <= v[1].score
         /\ \E i \in DOMAIN training : training[i].config = v[1].config
<1> DEFINE m == Min({TopN, Len(training)})
           measures == [i \in DOMAIN Finalists |-> Record(Finalists[i].config, results[i])]
<1>1. m \in Nat /\ m <= Len(training)
  <2>1. TopN \in Nat /\ Len(training) \in Nat
    BY ResearchAssumption
  <2>2. m \in {TopN, Len(training)} /\ m <= TopN /\ m <= Len(training)
    <3>1. \E x \in {TopN, Len(training)} : \A y \in {TopN, Len(training)} : x <= y
      BY <2>1
    <3>2. QED
      BY <3>1 DEF Min
  <2>3. QED
    BY <2>1, <2>2
<1>2. /\ Finalists \in Seq(Scored) /\ Len(Finalists) = m
      /\ \A i \in 1..m : Finalists[i] = training[i]
  <2>1. Finalists = SubSeq(training, 1, m)
    BY DEF Finalists
  <2> HIDE DEF m
  <2>2. QED
    BY <1>1, <2>1
<1> HIDE DEF m
<1>3. DOMAIN Finalists = 1..m
  BY <1>1, <1>2
<1>4. ASSUME NEW i \in 1..m
      PROVE  measures[i] \in Records /\ measures[i].config = training[i].config
  <2>1. Finalists[i] \in Scored /\ results[i] \in ValidationResults
    BY <1>2, <1>3
  <2>2. RobustScore(results[i]) \in Int
    BY <2>1, ResearchAssumption
  <2>3. QED
    BY <1>2, <1>3, <2>1, <2>2 DEF Record, Scored, Records
<1>5. measures \in Seq(Records) /\ Len(measures) = m
  BY <1>1, <1>3, <1>4
<1>6. v = Ranked(measures, BetterValidated)
  BY DEF ValidationRecords
<1> HIDE DEF measures
<1>7. /\ v \in Seq(Records) /\ Len(v) = m
      /\ \A k \in 1..m : \E i \in 1..m : v[k] = measures[i]
      /\ \A k \in 1..m : v[k].score <= v[1].score
  <2> DEFINE ranked == Ranked(measures, BetterValidated)
  <2>1. /\ ranked \in Seq(Records) /\ Len(ranked) = Len(measures)
        /\ \A k \in 1..Len(measures) : \E i \in 1..Len(measures) : ranked[k] = measures[i]
        /\ \A k \in 1..Len(measures) : ranked[k].score <= ranked[1].score
    BY <1>5, ValidationRanking, Zenon
  <2>2. v = ranked
    BY <1>6, Zenon
  <2> HIDE DEF ranked
  <2>3. QED
    BY <1>5, <2>1, <2>2, Zenon
<1>8. 1 \in 1..m /\ DOMAIN v = 1..m
  BY <1>1, <1>7
<1>9. PICK i \in 1..m : v[1] = measures[i]
  BY <1>7, <1>8
<1>10. i \in DOMAIN training /\ training[i].config = v[1].config
  BY <1>1, <1>4, <1>9
<1>11. QED
  BY <1>7, <1>8, <1>10

-----------------------------------------------------------------------------
(* The walk-forward and its verdicts                                       *)

Row == [window : 1..4, config : Grid, test : TestResults]

Walking == {"window", "train", "validate", "test"}

WalkInv ==
  /\ phase \in Walking \cup {"optimize", "report", "analyzed", "done", "stopped"}
  /\ window \in 1..5 /\ (phase \in Walking \ {"window"} => window # 5)
  /\ training \in Seq(Scored) /\ validation \in Seq(Records)
  /\ rows \in Seq(Row) /\ journals \subseteq TestResults
  /\ phase \in {"validate", "test"} => training # <<>>
  /\ phase = "test" =>
       /\ validation # <<>>
       /\ \A j \in DOMAIN validation : validation[j].score <= validation[1].score
       /\ \E i \in DOMAIN training : training[i].config = validation[1].config
  /\ phase \in Walking \cup {"optimize", "report"} => judged = Unjudged
  /\ phase = "analyzed" => /\ rows # <<>>
                           /\ judged = [Unjudged EXCEPT !.analysis = <<BuildVerdict(rows)>>]
  /\ VerdictIsConservative

\* The median of what is nowhere positive is not positive.
LEMMA MedianOfLosses ==
  ASSUME NEW s \in Seq(Int), s # <<>>, \A i \in 1..Len(s) : s[i] <= 0
  PROVE  ~(Median2(s) > 0)
<1> DEFINE n == Len(s)
           first(j, i) == s[j] < s[i] \/ (~(s[i] < s[j]) /\ j < i)
           R == {p \in (1..n) \X (1..n) : first(p[1], p[2])}
           place(i) == 1 + Cardinality({j \in DOMAIN s : first(j, i)})
           at(k) == CHOOSE i \in DOMAIN s : place(i) = k
           sorted == Ranked(s, LAMBDA x, y : x < y)
           low == (n + 1) \div 2
           high == n \div 2 + 1
<1>1. n \in Nat \ {0} /\ DOMAIN s = 1..n /\ \A i \in 1..n : s[i] \in Int /\ s[i] <= 0
  OBVIOUS
<1>2. sorted = [k \in DOMAIN s |-> s[at(k)]]
  BY DEF Ranked
<1>3. \A i, j \in 1..n : <<j, i>> \in R <=> first(j, i)
  OBVIOUS
<1>4. ASSUME NEW i \in 1..n
      PROVE  place(i) = Place(R, n, i)
  <2>1. {j \in DOMAIN s : first(j, i)} = {j \in 1..n : <<j, i>> \in R}
    BY <1>1, <1>3
  <2>2. QED
    BY <2>1 DEF Place
<1>5. Orders(R, n)
  <2> HIDE DEF R, n
  <2>1. QED
    BY <1>1, <1>3 DEF Orders
<1> HIDE DEF R
<1>6. ASSUME NEW k \in 1..n
      PROVE  sorted[k] \in Int /\ sorted[k] <= 0
  <2> HIDE DEF n, place, sorted
  <2>1. \E i \in 1..n : Place(R, n, i) = k
    BY <1>1, <1>5, PlacesAreTaken
  <2>2. at(k) \in 1..n
    BY <1>1, <1>4, <2>1
  <2>3. QED
    BY <1>1, <1>2, <2>2
<1>7. Median2(s) = sorted[low] + sorted[high]
  BY DEF Median2
<1>8. low \in 1..n /\ high \in 1..n
  <2> HIDE DEF n
  <2>1. QED
    BY <1>1
<1> HIDE DEF sorted, low, high
<1>9. QED
  BY <1>6, <1>7, <1>8

\* Both programs ask half of the windows to be positive, and the median; only
\* where no window has a factor does the validator look into a journal, and
\* then no window is positive, whatever the journal holds.
LEMMA ValidatorAsksForMore ==
  ASSUME rows \in Seq(Row), Len(rows) >= 2, NEW journal, NEW failures, NEW text,
         DetermineVerdict(rows, journal, failures, text) \in {"PROMISING", "VALIDATED"}
  PROVE  ClassifyRobustness(rows) \in {"ROBUST", "PROMISING"}
<1>1. /\ AtLeast(Positive(rows), Len(rows), 50) /\ MedianPositive(rows)
      /\ FactorAboveOne(rows, journal)
  BY DEF DetermineVerdict, TextOf
<1>2. SumOf(Factors(rows)) # 0
  <2> SUFFICES ASSUME SumOf(Factors(rows)) = 0 PROVE FALSE
    OBVIOUS
  <2>1. \A j \in DOMAIN rows : Factors(rows)[j] \in Nat /\ Factors(rows)[j] = rows[j].test.pf
    <3> TAKE j \in DOMAIN rows
    <3>1. rows[j] \in Row
      OBVIOUS
    <3>2. rows[j].test \in TestResults
      BY <3>1 DEF Row
    <3>3. QED
      BY <3>2, ResearchAssumption DEF IsV5Result, Factors
  <2>2. IsFiniteSet(DOMAIN rows)
    BY SequencePicks
  <2>3. SumOf(Factors(rows)) = SumFunctionOnSet(Factors(rows), DOMAIN rows)
    <3>1. DOMAIN Factors(rows) = DOMAIN rows
      BY DEF Factors
    <3>2. SumOf(Factors(rows)) = SumFunctionOnSet(Factors(rows), DOMAIN Factors(rows))
      BY DEF SumOf, FoldSeq, FoldFunction, SumFunctionOnSet, FoldFunctionOnSet, MapThenFoldSet
    <3>3. QED
      BY <3>1, <3>2
  <2>4. \A j \in DOMAIN rows : rows[j].test.pf = 0
    BY <2>1, <2>2, <2>3, SumOfNaturals
  <2>5. /\ Returns(rows) \in Seq(Int) /\ Returns(rows) # <<>>
        /\ \A j \in 1..Len(Returns(rows)) : Returns(rows)[j] <= 0
    <3>1. ASSUME NEW j \in DOMAIN rows
          PROVE  rows[j].test.ret \in Int /\ rows[j].test.ret <= 0
      <4>1. rows[j] \in Row
        OBVIOUS
      <4>2. rows[j].test \in TestResults /\ rows[j].test.pf = 0
        BY <2>4, <4>1 DEF Row
      <4>3. QED
        BY <4>2, ResearchAssumption DEF IsV5Result, IsResult
    <3>2. QED
      BY <3>1 DEF Returns
  <2>6. ~(Median2(Returns(rows)) > 0)
    BY <2>5, MedianOfLosses
  <2>7. QED
    BY <1>1, <2>6 DEF MedianPositive
<1>3. AverageFactorAboveOne(rows)
  BY <1>1, <1>2 DEF FactorAboveOne
<1>4. Promising(rows)
  BY <1>1, <1>3 DEF Promising
<1>5. QED
  BY <1>4 DEF ClassifyRobustness
LEMMA VerdictCarries ==
  ASSUME VerdictIsConservative, judged' = judged, rows' = rows \/ judged = Unjudged
  PROVE  VerdictIsConservative'
BY DEF VerdictIsConservative, Unjudged

\* To the next window, with nothing of this one.
LEMMA NextWindow ==
  ASSUME WalkInv, phase \in Walking, window \in 1..4, ToNextWindow,
         (training' = <<>> /\ validation' = <<>>) \/ UNCHANGED windowVars,
         rows' \in Seq(Row), journals' \subseteq TestResults, UNCHANGED judged
  PROVE  WalkInv'
<1>1. judged = Unjudged /\ phase' = "window" /\ window' \in 1..5
  BY DEF WalkInv, ToNextWindow
<1>2. VerdictIsConservative'
  BY <1>1, VerdictCarries DEF WalkInv
<1>3. training' \in Seq(Scored) /\ validation' \in Seq(Records)
  <2>1. training \in Seq(Scored) /\ validation \in Seq(Records)
    BY DEF WalkInv
  <2>2. CASE training' = <<>> /\ validation' = <<>>
    BY <2>2
  <2>3. CASE UNCHANGED windowVars
    BY <2>1, <2>3 DEF windowVars
  <2>4. QED
    BY <2>2, <2>3
<1>4. QED
  BY <1>1, <1>2, <1>3 DEF WalkInv, Walking

LEMMA WindowStarts ==
  ASSUME WalkInv, SkipWindow \/ BeginWindow \/ Report, UNCHANGED judged
  PROVE  WalkInv'
<1> USE DEF WalkInv, Walking
<1>1. /\ Len(BuildWindows) = 4 /\ phase = "window" /\ window \in 1..5 /\ judged = Unjudged
      /\ UNCHANGED journals
  BY DEF SkipWindow, BeginWindow, Report, BuildWindows
<1>2. ASSUME UNCHANGED rows
      PROVE  VerdictIsConservative'
  BY <1>1, <1>2, VerdictCarries
<1>3. CASE SkipWindow
  BY <1>1, <1>3, NextWindow DEF SkipWindow
<1>4. CASE BeginWindow
  <2>1. CASE HasRows(Current)
    BY <1>1, <1>2, <1>4, <2>1 DEF BeginWindow, windowVars
  <2>2. CASE ~HasRows(Current)
    BY <1>1, <1>4, <2>2, NextWindow DEF BeginWindow, WindowFails
  <2>3. QED
    BY <2>1, <2>2
<1>5. CASE Report
  BY <1>1, <1>2, <1>5 DEF Report, windowVars
<1>6. QED
  BY <1>3, <1>4, <1>5

LEMMA WindowTrains ==
  ASSUME WalkInv, Train, UNCHANGED judged
  PROVE  WalkInv'
<1> USE DEF WalkInv, Walking
<1>1. phase = "train" /\ window \in 1..4 /\ judged = Unjudged /\ UNCHANGED journals
  BY DEF Train
<1>2. CASE WindowFails
  BY <1>1, <1>2, NextWindow DEF WindowFails
<1>3. ASSUME NEW results \in [DOMAIN Tested -> TrainResults],
             TrainingRecords(results) # <<>>, training' = TrainingRecords(results),
             phase' = "validate", UNCHANGED <<window, validation, rows, failed>>
      PROVE  WalkInv'
  <2>1. training' \in Seq(Scored) /\ training' # <<>>
    BY <1>3, TrainingType
  <2>2. VerdictIsConservative'
    BY <1>1, VerdictCarries
  <2>3. QED
    BY <1>1, <1>3, <2>1, <2>2
<1>4. QED
  BY <1>2, <1>3 DEF Train

LEMMA WindowValidates ==
  ASSUME WalkInv, Validate, UNCHANGED judged
  PROVE  WalkInv'
<1> USE DEF WalkInv, Walking
<1>1. /\ phase = "validate" /\ window \in 1..4 /\ judged = Unjudged /\ UNCHANGED journals
      /\ training \in Seq(Scored) /\ training # <<>>
  BY DEF Validate
<1>2. CASE WindowFails
  BY <1>1, <1>2, NextWindow DEF WindowFails
<1>3. ASSUME NEW results \in [DOMAIN Finalists -> ValidationResults],
             ValidationRecords(results) # <<>>, validation' = ValidationRecords(results),
             phase' = "test", UNCHANGED <<window, training, rows, failed>>
      PROVE  WalkInv'
  <2>1. /\ validation' \in Seq(Records)
        /\ \A j \in DOMAIN validation' : validation'[j].score <= validation'[1].score
        /\ \E i \in DOMAIN training : training[i].config = validation'[1].config
    BY <1>1, <1>3, ValidationType
  <2>2. VerdictIsConservative'
    BY <1>1, VerdictCarries
  <2>3. QED
    BY <1>1, <1>3, <2>1, <2>2
<1>4. QED
  BY <1>2, <1>3 DEF Validate

LEMMA WindowTests ==
  ASSUME WalkInv, Test, UNCHANGED judged
  PROVE  WalkInv'
<1>1. phase = "test" /\ window \in 1..4 /\ rows \in Seq(Row) /\ journals \subseteq TestResults
  BY DEF Test, WalkInv, Walking
<1>2. rows' \in Seq(Row)
  <2>1. validation[1] \in Records
    BY <1>1 DEF WalkInv
  <2>2. Locked \in Grid
    BY <2>1 DEF Locked, Records
  <2>3. PICK r \in TestResults :
          rows' = Append(rows, [window |-> window, config |-> Locked, test |-> r])
    BY DEF Test
  <2>4. [window |-> window, config |-> Locked, test |-> r] \in Row
    BY <1>1, <2>2 DEF Row
  <2>5. QED
    BY <1>1, <2>3, <2>4
<1>3. QED
  BY <1>1, <1>2, NextWindow DEF Test, Walking

LEMMA TestCutShort ==
  ASSUME WalkInv, TestFails, UNCHANGED judged
  PROVE  WalkInv'
<1>1. phase = "test" /\ window \in 1..4 /\ rows \in Seq(Row) /\ journals \subseteq TestResults
  BY DEF TestFails, WalkInv, Walking
<1>2. journals' \subseteq TestResults
  BY <1>1 DEF TestFails
<1>3. QED
  BY <1>1, <1>2, NextWindow DEF TestFails, WindowFails, Walking

-----------------------------------------------------------------------------
(* The search of V3 and V4                                                 *)

CandidateRecord == [config : Grid, score : Int]

BestOfCandidates ==
  \E i \in DOMAIN candidates :
    /\ candidates[i].config = best[1]
    /\ \A j \in DOMAIN candidates :
         /\ candidates[j].score <= candidates[i].score
         /\ study = "v3" /\ candidates[j].score = candidates[i].score
              => InGrid(candidates[j].config) >= InGrid(best[1])

\* One worker takes the grid in its order.
InOrder ==
  /\ running = {} \/ (submitted >= 1 /\ running = {Configs[submitted]})
  /\ \A i \in DOMAIN candidates :
       /\ InGrid(candidates[i].config) <= submitted
       /\ running # {} => InGrid(candidates[i].config) < submitted
  /\ \A i, j \in DOMAIN candidates :
       i < j => InGrid(candidates[i].config) < InGrid(candidates[j].config)

SearchInv ==
  /\ phase \in {"split", "search", "holdout", "done", "stopped"}
  /\ submitted \in 0..Len(Configs)
  /\ running \subseteq Grid /\ IsFiniteSet(running)
  /\ candidates \in Seq(CandidateRecord)
  /\ judged = Unjudged
  /\ phase \in {"holdout", "done"} => BestOfCandidates
  /\ study = "v3" => InOrder

LEMMA PlaceInGrid ==
  /\ \A i \in 1..Len(Configs) : InGrid(Configs[i]) = i
  /\ \A c \in Grid : InGrid(c) \in 1..Len(Configs)
<1>1. \A i \in 1..Len(Configs) : InGrid(Configs[i]) = i
  BY GridType DEF InGrid
<1>2. \A c \in Grid : \E i \in 1..Len(Configs) : Configs[i] = c
  BY GridType DEF Grid, ToSet
<1>3. QED
  BY <1>1, <1>2

\* What one step of a search does, whichever the script and its pool.
Starts ==
  /\ phase = "search" /\ submitted < Len(Configs)
  /\ study = "v3" => running = {}
  /\ submitted' = submitted + 1 /\ running' = running \cup {Configs[submitted + 1]}
  /\ UNCHANGED <<phase, candidates, best>>

Completes(c) ==
  /\ phase = "search" /\ c \in running /\ running' = running \ {c}
  /\ \/ candidates' = candidates
     \/ \E score \in Int : candidates' = Append(candidates, [config |-> c, score |-> score])
  /\ UNCHANGED <<phase, submitted, best>>

\* The search ends with an exception, before anything is selected.
Breaks ==
  /\ phase = "search" /\ phase' = "stopped" /\ study # "v3"
  /\ running' \subseteq running
  /\ UNCHANGED <<submitted, candidates, best>>

Selects ==
  /\ phase = "search"
  /\ IF candidates = <<>> THEN phase' = "stopped" /\ UNCHANGED best
     ELSE phase' = "holdout" /\ best' = <<ByScore(candidates)[1].config>>
  /\ UNCHANGED <<submitted, running, candidates>>

SearchStep ==
  \/ /\ phase = "split" /\ phase' \in {"search", "stopped"}
     /\ UNCHANGED <<submitted, running, candidates, best>>
  \/ Starts
  \/ \E c \in Grid : Completes(c)
  \/ Breaks
  \/ Selects
  \/ /\ phase = "holdout" /\ phase' = "done"
     /\ UNCHANGED <<submitted, running, candidates, best>>

LEMMA ScoresAreIntegers ==
  ASSUME NEW r \in Results
  PROVE  SelectionScore(r) \in Int
<1>1. r.ret \in Int /\ r.drawdown \in Nat /\ KnownFactor(r) \in Int
  BY ResearchAssumption DEF IsWeeklyResult, IsResult, KnownFactor
<1>2. Max({0, KnownFactor(r) - 100}) \in Int
  <2> DEFINE f == KnownFactor(r) - 100
  <2>1. f \in Int
    BY <1>1
  <2> HIDE DEF f
  <2>2. Max({0, f}) \in Int
    BY <2>1 DEF Max
  <2>3. QED
    BY <2>2 DEF f
<1>3. QED
  BY <1>1, <1>2 DEF SelectionScore

LEMMA V3Step ==
  ASSUME SearchInv, study = "v3", V3!SearchNext
  PROVE  SearchStep
<1>1. CASE \E enough \in BOOLEAN : V3!Split(enough)
  BY <1>1 DEF V3!Split, SearchStep
<1>2. CASE V3!Start
  <2>1. running = {}
    <3>1. V3!Cardinality(running) = Cardinality(running)
      BY DEF V3!Cardinality, Cardinality
    <3>2. Cardinality(running) < 1
      BY <1>2, <3>1 DEF V3!Start
    <3>3. QED
      BY <3>2, FS_CardinalityType, FS_EmptySet DEF SearchInv
  <2>2. Starts
    BY <1>2, <2>1 DEF V3!Start, Starts
  <2>3. QED
    BY <2>2 DEF SearchStep
<1>3. CASE \E c \in V3!ToSet(Configs) : V3!Complete(c)
  <2>1. PICK c \in Grid : V3!Complete(c)
    BY <1>3 DEF Grid, ToSet, V3!ToSet
  <2>2. \A r \in Results : V3!Candidate(c, r) = [config |-> c, score |-> SelectionScore(r)]
    BY DEF V3!Candidate, V3!SelectionScore, SelectionScore, V3!KnownFactor, KnownFactor,
           V3!NoLosses, NoLosses, V3!Max, Max
  <2>3. Completes(c)
    BY <2>1, <2>2, ScoresAreIntegers DEF V3!Complete, V3!Returned, Completes
  <2>4. QED
    BY <2>3 DEF SearchStep
<1>4. CASE V3!Select
  <2>1. V3!Ranking = ByScore(candidates)
    BY DEF V3!Ranking, V3!Ranked, V3!Cardinality, ByScore, Ranked, Cardinality
  <2>2. Selects
    BY <1>4, <2>1 DEF V3!Select, Selects
  <2>3. QED
    BY <2>2 DEF SearchStep
<1>5. CASE V3!Holdout
  BY <1>5 DEF V3!Holdout, SearchStep
<1>6. ~\E c : V3!CompleteRaises(c)
  BY DEF V3!CompleteRaises
<1>7. QED
  BY <1>1, <1>2, <1>3, <1>4, <1>5, <1>6 DEF V3!SearchNext

LEMMA V4Step ==
  ASSUME SearchInv, study = "v4", V4!SearchNext
  PROVE  SearchStep
<1>1. CASE \E enough \in BOOLEAN : V4!Split(enough)
  BY <1>1 DEF V4!Split, SearchStep
<1>2. CASE V4!Start
  <2>1. Starts
    BY <1>2 DEF V4!Start, Starts
  <2>2. QED
    BY <2>1 DEF SearchStep
<1>3. CASE \E c \in V4!ToSet(Configs) : V4!Complete(c)
  <2>1. PICK c \in Grid : V4!Complete(c)
    BY <1>3 DEF Grid, ToSet, V4!ToSet
  <2>2. \A r \in Results : V4!Candidate(c, r) = [config |-> c, score |-> SelectionScore(r)]
    BY DEF V4!Candidate, V4!SelectionScore, SelectionScore, V4!KnownFactor, KnownFactor,
           V4!NoLosses, NoLosses, V4!Max, Max
  <2>3. Completes(c)
    BY <2>1, <2>2, ScoresAreIntegers DEF V4!Complete, V4!Returned, Completes
  <2>4. QED
    BY <2>3 DEF SearchStep
<1>4. CASE V4!Select
  <2>1. V4!Ranking = ByScore(candidates)
    BY DEF V4!Ranking, V4!Ranked, V4!Cardinality, ByScore, Ranked, Cardinality
  <2>2. Selects
    BY <1>4, <2>1 DEF V4!Select, Selects
  <2>3. QED
    BY <2>2 DEF SearchStep
<1>5. CASE V4!Holdout
  BY <1>5 DEF V4!Holdout, SearchStep
<1>6. CASE \E c \in V4!ToSet(Configs) : V4!CompleteRaises(c)
  <2>1. Breaks
    BY <1>6 DEF V4!CompleteRaises, Breaks
  <2>2. QED
    BY <2>1 DEF SearchStep
<1>7. QED
  BY <1>1, <1>2, <1>3, <1>4, <1>5, <1>6 DEF V4!SearchNext

LEMMA OrderStands ==
  ASSUME InOrder, UNCHANGED <<submitted, running, candidates>>
  PROVE  InOrder'
<1>1. \A c : InGrid(c)' = InGrid(c)
  BY DEF InGrid
<1> HIDE DEF InGrid
<1>2. QED
  BY <1>1 DEF InOrder

LEMMA BestStands ==
  ASSUME BestOfCandidates, UNCHANGED <<study, candidates, best>>
  PROVE  BestOfCandidates'
BY DEF BestOfCandidates, InGrid

LEMMA SearchStarts ==
  ASSUME SearchInv, Starts, UNCHANGED <<study, judged>>
  PROVE  SearchInv'
<1> DEFINE c == Configs[submitted + 1]
<1>1. /\ submitted \in Nat /\ submitted < Len(Configs) /\ submitted + 1 \in 1..Len(Configs)
      /\ phase = "search" /\ c \in Grid
  BY GridType DEF SearchInv, Starts
<1>2. /\ running' \subseteq Grid /\ IsFiniteSet(running')
  BY <1>1, FS_AddElement DEF SearchInv, Starts
<1>3. study = "v3" => InOrder'
  <2> SUFFICES ASSUME study = "v3" PROVE InOrder'
    OBVIOUS
  <2>1. running' = {Configs[submitted']} /\ submitted' = submitted + 1 /\ candidates' = candidates
    BY DEF Starts
  <2>2. \A i \in DOMAIN candidates : InGrid(candidates[i].config) <= submitted
                                     /\ InGrid(candidates[i].config) \in Int
    <3> TAKE i \in DOMAIN candidates
    <3>1. candidates[i] \in CandidateRecord
      BY DEF SearchInv
    <3>2. candidates[i].config \in Grid
      BY <3>1 DEF CandidateRecord
    <3>3. QED
      BY <3>2, PlaceInGrid DEF SearchInv, InOrder
  <2>3. \A i, j \in DOMAIN candidates :
          i < j => InGrid(candidates[i].config) < InGrid(candidates[j].config)
    BY DEF SearchInv, InOrder
  <2>4. \A i \in DOMAIN candidates : InGrid(candidates[i].config) < submitted'
    BY <1>1, <2>1, <2>2
  <2>5. \A i \in DOMAIN candidates : InGrid(candidates[i].config) <= submitted'
    BY <1>1, <2>1, <2>2
  <2>6. submitted' >= 1
    BY <1>1, <2>1
  <2>7. QED
    BY <2>1, <2>3, <2>4, <2>5, <2>6 DEF InOrder, InGrid
<1>4. QED
  BY <1>1, <1>2, <1>3 DEF SearchInv, Starts

LEMMA SearchCompletes ==
  ASSUME SearchInv, NEW c \in Grid, Completes(c), UNCHANGED <<study, judged>>
  PROVE  SearchInv'
<1>1. /\ submitted \in Nat /\ phase = "search" /\ phase' = "search" /\ submitted' = submitted
      /\ c \in running /\ running' = running \ {c}
  BY DEF SearchInv, Completes
<1>2. running' \subseteq Grid /\ IsFiniteSet(running')
  BY <1>1, FS_RemoveElement DEF SearchInv
<1>3. candidates' = candidates
        \/ \E score \in Int : candidates' = Append(candidates, [config |-> c, score |-> score])
  BY DEF Completes
<1>4. candidates' \in Seq(CandidateRecord)
  <2>1. \A score \in Int : [config |-> c, score |-> score] \in CandidateRecord
    BY DEF CandidateRecord
  <2>2. candidates \in Seq(CandidateRecord)
    BY DEF SearchInv
  <2> HIDE DEF CandidateRecord
  <2>3. \A x \in CandidateRecord : Append(candidates, x) \in Seq(CandidateRecord)
    BY <2>2
  <2>4. QED
    BY <1>3, <2>1, <2>2, <2>3
<1>5. study = "v3" => InOrder'
  <2> SUFFICES ASSUME study = "v3" PROVE InOrder'
    OBVIOUS
  <2>1. submitted >= 1 /\ running = {Configs[submitted]} /\ c = Configs[submitted]
    BY <1>1 DEF SearchInv, InOrder
  <2>2. running' = {} /\ InGrid(c) = submitted
    BY <1>1, <2>1, PlaceInGrid DEF SearchInv
  <2>3. \A i \in DOMAIN candidates : InGrid(candidates[i].config) < submitted
    BY <2>1 DEF SearchInv, InOrder
  <2>4. \A i, j \in DOMAIN candidates :
          i < j => InGrid(candidates[i].config) < InGrid(candidates[j].config)
    BY DEF SearchInv, InOrder
  <2>5. \A i \in DOMAIN candidates : InGrid(candidates[i].config) \in Int
    <3> TAKE i \in DOMAIN candidates
    <3>1. candidates[i] \in CandidateRecord
      BY DEF SearchInv
    <3>2. candidates[i].config \in Grid
      BY <3>1 DEF CandidateRecord
    <3>3. QED
      BY <3>2, PlaceInGrid
  <2>6. CASE candidates' = candidates
    BY <1>1, <2>2, <2>3, <2>4, <2>5, <2>6 DEF InOrder, InGrid
  <2>7. ASSUME NEW score \in Int,
               candidates' = Append(candidates, [config |-> c, score |-> score])
        PROVE  InOrder'
    <3> DEFINE last == Len(candidates) + 1
    <3>1. /\ candidates \in Seq(CandidateRecord) /\ DOMAIN candidates = 1..Len(candidates)
          /\ DOMAIN candidates' = 1..last /\ Len(candidates) \in Nat
          /\ candidates'[last].config = c
          /\ \A i \in DOMAIN candidates : candidates'[i] = candidates[i]
      BY <2>7 DEF SearchInv
    <3>2. \A i \in DOMAIN candidates' : i \in DOMAIN candidates \/ i = last
      BY <3>1
    <3>3. \A i \in DOMAIN candidates' : InGrid(candidates'[i].config) <= submitted
      BY <1>1, <2>2, <2>3, <2>5, <3>1, <3>2
    <3>4. ASSUME NEW i \in DOMAIN candidates', NEW j \in DOMAIN candidates', i < j
          PROVE  InGrid(candidates'[i].config) < InGrid(candidates'[j].config)
      <4>1. i \in DOMAIN candidates
        BY <3>1, <3>4
      <4>2. CASE j \in DOMAIN candidates
        BY <2>4, <3>1, <3>4, <4>1, <4>2
      <4>3. CASE j = last
        BY <2>2, <2>3, <3>1, <4>1, <4>3
      <4>4. QED
        BY <3>2, <4>2, <4>3
    <3>5. QED
      BY <1>1, <2>2, <3>3, <3>4 DEF InOrder, InGrid
  <2>8. QED
    BY <1>3, <2>6, <2>7
<1>6. QED
  BY <1>1, <1>2, <1>4, <1>5 DEF SearchInv

LEMMA SearchSelects ==
  ASSUME SearchInv, Selects, UNCHANGED <<study, judged>>
  PROVE  SearchInv'
<1>1. /\ phase = "search" /\ UNCHANGED <<submitted, running, candidates>>
      /\ candidates \in Seq(CandidateRecord)
  BY DEF SearchInv, Selects
<1>2. study = "v3" => InOrder'
  BY <1>1, OrderStands DEF SearchInv
<1>3. CASE candidates = <<>>
  BY <1>1, <1>2, <1>3 DEF SearchInv, Selects
<1>4. CASE candidates # <<>>
  <2>1. phase' = "holdout" /\ best' = <<ByScore(candidates)[1].config>>
    BY <1>4 DEF Selects
  <2>2. \A x \in CandidateRecord : x.score \in Int
    BY DEF CandidateRecord
  <2>3. PICK i \in 1..Len(candidates) :
          /\ ByScore(candidates)[1] = candidates[i]
          /\ \A j \in 1..Len(candidates) :
               /\ candidates[j].score <= candidates[i].score
               /\ candidates[j].score = candidates[i].score => i <= j
    BY <1>1, <1>4, <2>2, ScoreRanking
  <2>4. best'[1] = candidates[i].config
    BY <2>1, <2>3
  <2>5. ASSUME study = "v3", NEW j \in 1..Len(candidates), i <= j
        PROVE  InGrid(candidates[j].config) >= InGrid(candidates[i].config)
    <3>1. candidates[i] \in CandidateRecord /\ candidates[j] \in CandidateRecord
      BY <1>1
    <3>2. InGrid(candidates[i].config) \in Int /\ InGrid(candidates[j].config) \in Int
      BY <3>1, PlaceInGrid DEF CandidateRecord
    <3>3. i < j => InGrid(candidates[i].config) < InGrid(candidates[j].config)
      BY <1>1, <2>5 DEF SearchInv, InOrder
    <3>4. QED
      BY <2>5, <3>2, <3>3
  <2>6. BestOfCandidates'
    <3>1. DOMAIN candidates = 1..Len(candidates) /\ candidates' = candidates
      BY <1>1
    <3>2. QED
      BY <2>3, <2>4, <2>5, <3>1 DEF BestOfCandidates, InGrid
  <2>7. QED
    BY <1>1, <1>2, <2>1, <2>6 DEF SearchInv
<1>5. QED
  BY <1>3, <1>4

LEMMA SearchBreaks ==
  ASSUME SearchInv, Breaks, UNCHANGED <<study, judged>>
  PROVE  SearchInv'
<1>1. running' \subseteq Grid /\ IsFiniteSet(running')
  BY FS_Subset DEF SearchInv, Breaks
<1>2. QED
  BY <1>1 DEF SearchInv, Breaks

LEMMA SearchKeeps ==
  ASSUME SearchInv, SearchStep, UNCHANGED <<study, judged>>
  PROVE  SearchInv'
<1>1. CASE /\ phase = "split" /\ phase' \in {"search", "stopped"}
           /\ UNCHANGED <<submitted, running, candidates, best>>
  BY <1>1, OrderStands DEF SearchInv
<1>2. CASE Starts
  BY <1>2, SearchStarts
<1>3. CASE \E c \in Grid : Completes(c)
  BY <1>3, SearchCompletes
<1>4. CASE Selects
  BY <1>4, SearchSelects
<1>5. CASE /\ phase = "holdout" /\ phase' = "done"
           /\ UNCHANGED <<submitted, running, candidates, best>>
  BY <1>5, OrderStands, BestStands DEF SearchInv
<1>6. CASE Breaks
  BY <1>6, SearchBreaks
<1>7. QED
  BY <1>1, <1>2, <1>3, <1>4, <1>5, <1>6 DEF SearchStep

-----------------------------------------------------------------------------
(* The studies                                                             *)

LEMMA OptimizerKeeps ==
  ASSUME WalkInv, Optimize
  PROVE  WalkInv'
<1>1. /\ phase = "optimize" /\ phase' \in {"window", "stopped"}
      /\ UNCHANGED <<window, training, validation, rows, journals, judged>>
  BY DEF Optimize, walkVars, windowVars
<1>2. VerdictIsConservative'
  BY <1>1, VerdictCarries DEF WalkInv
<1>3. QED
  BY <1>1, <1>2 DEF WalkInv, Walking

LEMMA AnalyzerKeeps ==
  ASSUME WalkInv, Analyze
  PROVE  WalkInv'
<1>1. /\ phase = "report" /\ judged = Unjudged
      /\ UNCHANGED <<window, training, validation, rows, journals>>
  BY DEF Analyze, walkVars, windowVars, WalkInv, Walking
<1>2. CASE rows = <<>>
  <2>1. phase' = "stopped" /\ judged' = judged
    BY <1>2 DEF Analyze
  <2>2. VerdictIsConservative'
    BY <1>1, <2>1, VerdictCarries DEF WalkInv
  <2>3. QED
    BY <1>1, <2>1, <2>2 DEF WalkInv, Walking
<1>3. CASE rows # <<>>
  <2>1. phase' = "analyzed" /\ judged' = [judged EXCEPT !.analysis = <<BuildVerdict(rows)>>]
    BY <1>3 DEF Analyze
  <2>2. judged'.final = "NONE"
    BY <1>1, <2>1 DEF Unjudged
  <2>3. judged' = [Unjudged EXCEPT !.analysis = <<BuildVerdict(rows')>>]
    BY <1>1, <2>1
  <2>4. VerdictIsConservative'
    BY <2>2 DEF VerdictIsConservative
  <2>5. QED
    BY <1>1, <1>3, <2>1, <2>3, <2>4 DEF WalkInv, Walking
<1>4. QED
  BY <1>2, <1>3

LEMMA ValidatorKeeps ==
  ASSUME WalkInv, Judge
  PROVE  WalkInv'
<1>1. /\ phase = "analyzed" /\ phase' = "done" /\ rows \in Seq(Row)
      /\ judged = [Unjudged EXCEPT !.analysis = <<BuildVerdict(rows)>>]
      /\ UNCHANGED <<window, training, validation, rows, journals>>
  BY DEF Judge, walkVars, windowVars, WalkInv, Walking
<1>2. PICK defects \in Defects, journal \in Journals :
        judged' = [judged EXCEPT !.final =
                     DetermineVerdict(rows, journal, Failures(rows, journal, defects),
                                      judged.analysis[1].verdict)]
  BY DEF Judge
<1>3. judged'.analysis[1].verdict.classification = ClassifyRobustness(rows)
  BY <1>1, <1>2 DEF Unjudged, BuildVerdict
<1>4. judged'.final = DetermineVerdict(rows, journal, Failures(rows, journal, defects),
                                       judged.analysis[1].verdict)
  BY <1>1, <1>2 DEF Unjudged
<1>5. VerdictIsConservative'
  <2>1. judged'.final \in {"PROMISING", "VALIDATED"} /\ Len(rows) >= 2 =>
          ClassifyRobustness(rows) \in {"ROBUST", "PROMISING"}
    BY <1>1, <1>4, ValidatorAsksForMore
  <2>2. QED
    BY <1>1, <1>3, <2>1 DEF VerdictIsConservative
<1>6. QED
  BY <1>1, <1>5 DEF WalkInv, Walking

ResearchInv ==
  /\ study \in {"v3", "v4", "v5"}
  /\ study # "v5" => SearchInv
  /\ study = "v5" => WalkInv

LEMMA ResearchStarts ==
  ASSUME Init
  PROVE  ResearchInv
<1>1. study \in {"v3", "v4", "v5"} /\ judged = Unjudged
  BY ResearchAssumption DEF Init
<1>2. VerdictIsConservative
  BY <1>1 DEF VerdictIsConservative, Unjudged
<1>3. study # "v5" => SearchInv
  BY <1>1, GridType, FS_EmptySet DEF Init, SearchInv, InOrder
<1>4. study = "v5" => WalkInv
  BY <1>1, <1>2 DEF Init, WalkInv, Walking, windowVars
<1>5. QED
  BY <1>1, <1>3, <1>4 DEF ResearchInv

LEMMA ResearchContinues ==
  ASSUME ResearchInv, [Next]_vars
  PROVE  ResearchInv'
<1>1. CASE study = "v3" /\ V3!SearchNext /\ UNCHANGED <<walkVars, jobVars, study>>
  BY <1>1, V3Step, SearchKeeps DEF ResearchInv, jobVars
<1>2. CASE study = "v4" /\ V4!SearchNext /\ UNCHANGED <<walkVars, jobVars, study>>
  BY <1>2, V4Step, SearchKeeps DEF ResearchInv, jobVars
<1>3. CASE study = "v5" /\ WalkForwardNext /\ UNCHANGED <<searchVars, jobVars, study>>
  BY <1>3, WindowStarts, WindowTrains, WindowValidates, WindowTests, TestCutShort
     DEF ResearchInv, WalkForwardNext, jobVars
<1>4. CASE study = "v5" /\ (Optimize \/ Analyze \/ Judge) /\ UNCHANGED study
  BY <1>4, OptimizerKeeps, AnalyzerKeeps, ValidatorKeeps DEF ResearchInv
<1>5. CASE UNCHANGED vars
  <2>1. UNCHANGED <<study, phase, submitted, running, candidates, best, window,
                    training, validation, rows, journals, judged>>
    BY <1>5 DEF vars, searchVars, walkVars, windowVars, jobVars
  <2>2. SearchInv => SearchInv'
    BY <2>1, OrderStands, BestStands DEF SearchInv
  <2>3. WalkInv => VerdictIsConservative'
    BY <2>1, VerdictCarries DEF WalkInv
  <2>4. WalkInv => WalkInv'
    BY <2>1, <2>3 DEF WalkInv, Walking
  <2>5. QED
    BY <2>1, <2>2, <2>4 DEF ResearchInv
<1>6. QED
  BY <1>1, <1>2, <1>3, <1>4, <1>5 DEF Next

LEMMA ResearchHolds == Spec => []ResearchInv
BY ResearchStarts, ResearchContinues, PTL DEF Spec

\* What is selected is the best of what was compared, for every grid: V3's best
\* candidate, and of equals the first in the grid; what a window locks is the
\* best of what it validated and has been scored in its training (V3 main;
\* v5_walk_forward.py:1306).  V4's search ends before it selects.
THEOREM SelectionHolds == Spec => []SelectedIsBest
<1>1. ResearchInv => SelectedIsBest
  <2> SUFFICES ASSUME ResearchInv PROVE SelectedIsBest
    OBVIOUS
  <2>1. CASE study # "v5"
    BY <2>1 DEF ResearchInv, SearchInv, BestOfCandidates, SelectedIsBest
  <2>2. CASE study = "v5"
    <3>1. WalkInv
      BY <2>2 DEF ResearchInv
    <3>2. ASSUME phase = "test"
          PROVE  /\ \A j \in DOMAIN validation : validation[j].score <= validation[1].score
                 /\ \E i \in DOMAIN training :
                      training[i].config = Locked /\ training[i].score > TooFewTrades
      <4>1. PICK i \in DOMAIN training : training[i].config = validation[1].config
        BY <3>1, <3>2 DEF WalkInv
      <4>2. training[i] \in Scored
        BY <3>1 DEF WalkInv
      <4>3. QED
        BY <3>1, <3>2, <4>1, <4>2 DEF WalkInv, Scored, Locked
    <3>3. QED
      BY <2>2, <3>2 DEF SelectedIsBest
  <2>3. QED
    BY <2>1, <2>2
<1>2. QED
  BY <1>1, ResearchHolds, PTL

\* For all rows the walk-forward can leave: of two windows or more, what the
\* validator finds promising the analyzer has not found unstable or not robust
\* (v5_robustness_analyzer.py:539-613, v5_results_validator.py:1343-1376).
THEOREM VerdictHolds == Spec => []VerdictIsConservative
<1>1. ResearchInv => VerdictIsConservative
  BY DEF ResearchInv, SearchInv, WalkInv, VerdictIsConservative, Unjudged
<1>2. QED
  BY <1>1, ResearchHolds, PTL

=============================================================================
