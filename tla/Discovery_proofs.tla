-------------------------- MODULE Discovery_proofs --------------------------
(***************************************************************************)
(* Proofs about Discovery, for any catalog, queries and page length.       *)
(***************************************************************************)
EXTENDS Discovery, OperationCatalog_proofs

(* Searching leaves the catalog as it is: what is proved of OperationCatalog *)
(* holds of a server whose clients search, too.                              *)
THEOREM SearchingKeepsTheCatalog == DiscoverySpec => Spec
<1>1. DiscoveryInit => Init
  BY DEF DiscoveryInit
<1>2. [DiscoveryNext]_<<vars, search>> => [Next]_vars
  BY DEF DiscoveryNext, Loading, Search, ListOperations, Next, vars, search
<1> QED
  BY <1>1, <1>2, PTL DEF DiscoverySpec, Spec

-----------------------------------------------------------------------------
(* Orders.  A strict order R that is total on a finite set S ranks it: the  *)
(* ranks are the numbers from 0, one each.                                  *)

StrictOrder(R, S) ==
  /\ \A x \in S : <<x, x>> \notin R
  /\ \A x, y, z \in S : <<x, y>> \in R /\ <<y, z>> \in R => <<x, z>> \in R
  /\ \A x, y \in S : x = y \/ <<x, y>> \in R \/ <<y, x>> \in R

Lesser(R, S, x) == {y \in S : <<y, x>> \in R}

Rank(R, S) == [x \in S |-> Cardinality(Lesser(R, S, x))]

LEMMA RankFollowsOrder ==
  ASSUME NEW S, IsFiniteSet(S), NEW R, StrictOrder(R, S), NEW x \in S, NEW y \in S,
         <<x, y>> \in R
  PROVE  Cardinality(Lesser(R, S, x)) < Cardinality(Lesser(R, S, y))
<1>1. IsFiniteSet(Lesser(R, S, x)) /\ IsFiniteSet(Lesser(R, S, y))
  BY FS_Subset DEF Lesser
<1>2. x \notin Lesser(R, S, x)
  BY DEF Lesser, StrictOrder
<1>3. Lesser(R, S, x) \cup {x} \subseteq Lesser(R, S, y)
  BY DEF Lesser, StrictOrder
<1>4. Cardinality(Lesser(R, S, x) \cup {x}) = Cardinality(Lesser(R, S, x)) + 1
  BY <1>1, <1>2, FS_AddElement
<1>5. Cardinality(Lesser(R, S, x) \cup {x}) <= Cardinality(Lesser(R, S, y))
  BY <1>1, <1>3, FS_Subset
<1>6. Cardinality(Lesser(R, S, x)) \in Nat /\ Cardinality(Lesser(R, S, y)) \in Nat
  BY <1>1, FS_CardinalityType
<1> QED
  BY <1>4, <1>5, <1>6

LEMMA RankIsBijection ==
  ASSUME NEW S, IsFiniteSet(S), NEW R, StrictOrder(R, S)
  PROVE  /\ Cardinality(S) \in Nat
         /\ Rank(R, S) \in [S -> 0..(Cardinality(S) - 1)]
         /\ \A x, y \in S : Rank(R, S)[x] = Rank(R, S)[y] => x = y
         /\ \A i \in 0..(Cardinality(S) - 1) : \E x \in S : Rank(R, S)[x] = i
<1> DEFINE N == Cardinality(S)
           T == 0..(N - 1)
<1>1. N \in Nat
  BY FS_CardinalityType
<1>2. ASSUME NEW x \in S
      PROVE  Cardinality(Lesser(R, S, x)) \in T
  <2>1. Lesser(R, S, x) \in SUBSET (S \ {x})
    BY DEF Lesser, StrictOrder
  <2>2. IsFiniteSet(S \ {x}) /\ Cardinality(S \ {x}) = N - 1
    BY FS_RemoveElement
  <2>3. /\ IsFiniteSet(Lesser(R, S, x))
        /\ Cardinality(Lesser(R, S, x)) <= N - 1
    BY <2>1, <2>2, FS_Subset
  <2>4. Cardinality(Lesser(R, S, x)) \in Nat
    BY <2>3, FS_CardinalityType
  <2> QED
    BY <1>1, <2>3, <2>4
<1>3. Rank(R, S) \in [S -> T]
  BY <1>2 DEF Rank
<1>4. ASSUME NEW x \in S, NEW y \in S, Rank(R, S)[x] = Rank(R, S)[y]
      PROVE  x = y
  <2>1. Cardinality(Lesser(R, S, x)) = Cardinality(Lesser(R, S, y))
    BY <1>4 DEF Rank
  <2>2. Cardinality(Lesser(R, S, x)) \in Nat /\ Cardinality(Lesser(R, S, y)) \in Nat
    BY <1>1, <1>2
  <2>3. <<x, y>> \notin R
    BY <2>1, <2>2, RankFollowsOrder
  <2>4. <<y, x>> \notin R
    BY <2>1, <2>2, RankFollowsOrder
  <2> QED
    BY <2>3, <2>4 DEF StrictOrder
<1>5. Rank(R, S) \in Injection(S, T)
  BY <1>3, <1>4 DEF Injection, IsInjective
<1>6. IsFiniteSet(T) /\ Cardinality(T) = N
  <2>1. 0 \in Int /\ N - 1 \in Int
    BY <1>1
  <2>2. IsFiniteSet(T) /\ Cardinality(T) = IF 0 > N - 1 THEN 0 ELSE (N - 1) - 0 + 1
    BY <2>1, FS_Interval
  <2> QED
    BY <1>1, <2>2
<1>7. Rank(R, S) \in Surjection(S, T)
  BY <1>5, <1>6, FS_Injection
<1>8. \A i \in T : \E x \in S : Rank(R, S)[x] = i
  BY <1>7 DEF Surjection
<1> QED
  BY <1>1, <1>3, <1>4, <1>8

-----------------------------------------------------------------------------
(* The sort keys. *)

LEMMA PlaceType ==
  ASSUME NEW S, NEW sequence \in Seq(S), NEW x \in {sequence[n] : n \in DOMAIN sequence}
  PROVE  Place(sequence, x) \in Nat /\ sequence[Place(sequence, x)] = x
<1>1. \E n \in DOMAIN sequence : sequence[n] = x
  OBVIOUS
<1>2. Place(sequence, x) \in DOMAIN sequence /\ sequence[Place(sequence, x)] = x
  BY <1>1 DEF Place
<1>3. DOMAIN sequence \subseteq Nat
  OBVIOUS
<1> QED
  BY <1>2, <1>3

Mark == Letter \cup {"_", "variant", "1"}

(* Different characters have different places. *)
LEMMA CharacterPlaces ==
  ASSUME NEW c \in Mark, NEW d \in Mark
  PROVE  /\ Place(Characters, c) \in Nat /\ Place(Characters, d) \in Nat
         /\ Place(Characters, c) = Place(Characters, d) => c = d
<1>1. Characters \in Seq(STRING)
  BY CharactersAssumption
<1>2. {Characters[n] : n \in DOMAIN Characters} = Mark
  BY CharactersAssumption DEF Mark
<1>3. Place(Characters, c) \in Nat /\ Characters[Place(Characters, c)] = c
  BY <1>1, <1>2, PlaceType
<1>4. Place(Characters, d) \in Nat /\ Characters[Place(Characters, d)] = d
  BY <1>1, <1>2, PlaceType
<1> QED
  BY <1>3, <1>4

LEMMA SpacePlaces ==
  ASSUME NEW c \in Namespaces, NEW d \in Namespaces
  PROVE  /\ Place(Spaces, c) \in Nat /\ Place(Spaces, d) \in Nat
         /\ Place(Spaces, c) = Place(Spaces, d) => c = d
<1>1. Spaces \in Seq(Namespaces) /\ {Spaces[n] : n \in DOMAIN Spaces} = Namespaces
  BY SpacesAssumption
<1>2. Place(Spaces, c) \in Nat /\ Spaces[Place(Spaces, c)] = c
  BY <1>1, PlaceType
<1>3. Place(Spaces, d) \in Nat /\ Spaces[Place(Spaces, d)] = d
  BY <1>1, PlaceType
<1> QED
  BY <1>2, <1>3

LEMMA WordMarks ==
  ASSUME NEW s \in Word
  PROVE  Len(s) \in Nat /\ \A n \in 1..Len(s) : s[n] \in Mark
<1>1. s \in Seq(Mark)
  BY DEF Word, Mark
<1> QED
  BY <1>1

LEMMA TextIrreflexive ==
  ASSUME NEW s \in Word
  PROVE  ~TextBefore(s, s)
<1> SUFFICES ASSUME NEW n \in 1..Len(s), n <= Len(s),
                    Place(Characters, s[n]) < Place(Characters, s[n])
             PROVE  FALSE
  BY WordMarks DEF TextBefore
<1>1. s[n] \in Mark
  BY WordMarks
<1>2. Place(Characters, s[n]) \in Nat
  BY <1>1, CharacterPlaces
<1> QED
  BY <1>2

LEMMA TextTransitive ==
  ASSUME NEW s \in Word, NEW t \in Word, NEW u \in Word,
         TextBefore(s, t), TextBefore(t, u)
  PROVE  TextBefore(s, u)
<1> DEFINE at(c) == Place(Characters, c)
<1>1. Len(s) \in Nat /\ Len(t) \in Nat /\ Len(u) \in Nat
  BY WordMarks
<1>2. PICK n \in 1..Len(t) :
        /\ \A i \in 1..(n - 1) : i <= Len(s) /\ s[i] = t[i]
        /\ n <= Len(s) => at(s[n]) < at(t[n])
  BY DEF TextBefore
<1>3. PICK m \in 1..Len(u) :
        /\ \A i \in 1..(m - 1) : i <= Len(t) /\ t[i] = u[i]
        /\ m <= Len(t) => at(t[m]) < at(u[m])
  BY DEF TextBefore
<1> HIDE DEF at
<1>4. CASE n < m
  <2>1. n \in 1..Len(u) /\ n \in 1..(m - 1)
    BY <1>1, <1>4
  <2>2. \A i \in 1..(n - 1) : i <= Len(s) /\ s[i] = u[i]
    <3> TAKE i \in 1..(n - 1)
    <3>1. i \in 1..(m - 1)
      BY <1>4
    <3> QED
      BY <1>2, <1>3, <3>1
  <2>3. n <= Len(s) => at(s[n]) < at(u[n])
    BY <1>2, <1>3, <2>1
  <2> QED
    BY <2>1, <2>2, <2>3 DEF TextBefore, at
<1>5. CASE m < n
  <2>1. m \in 1..Len(t) /\ m \in 1..(n - 1)
    BY <1>1, <1>5
  <2>2. \A i \in 1..(m - 1) : i <= Len(s) /\ s[i] = u[i]
    <3> TAKE i \in 1..(m - 1)
    <3>1. i \in 1..(n - 1)
      BY <1>5
    <3> QED
      BY <1>2, <1>3, <3>1
  <2>3. at(s[m]) < at(u[m])
    BY <1>2, <1>3, <2>1
  <2> QED
    BY <2>2, <2>3 DEF TextBefore, at
<1>6. CASE m = n
  <2>1. \A i \in 1..(n - 1) : i <= Len(s) /\ s[i] = u[i]
    BY <1>2, <1>3, <1>6
  <2>2. at(t[n]) < at(u[n])
    BY <1>1, <1>3, <1>6
  <2>3. n <= Len(s) => at(s[n]) < at(u[n])
    <3>1. SUFFICES ASSUME n <= Len(s) PROVE at(s[n]) < at(u[n])
      OBVIOUS
    <3>2. s[n] \in Mark /\ t[n] \in Mark /\ u[n] \in Mark
      BY <1>1, <1>6, <3>1, WordMarks
    <3>3. at(s[n]) \in Nat /\ at(t[n]) \in Nat /\ at(u[n]) \in Nat
      BY <3>2, CharacterPlaces DEF at
    <3> QED
      BY <1>2, <2>2, <3>1, <3>3
  <2> QED
    BY <1>6, <2>1, <2>3 DEF TextBefore, at
<1> QED
  BY <1>1, <1>4, <1>5, <1>6

(* Two texts differ somewhere, or one is the beginning of the other. *)
LEMMA TextTotal ==
  ASSUME NEW s \in Word, NEW t \in Word, s # t
  PROVE  TextBefore(s, t) \/ TextBefore(t, s)
<1> DEFINE differ == {n \in Nat : n \in 1..Len(s) /\ n \in 1..Len(t) /\ s[n] # t[n]}
<1>1. Len(s) \in Nat /\ Len(t) \in Nat
  BY WordMarks
<1>2. CASE differ # {}
  <2>1. PICK n \in differ : \A m \in differ : n <= m
    BY <1>2, HasLeast
  <2>2. \A i \in 1..(n - 1) : i <= Len(s) /\ i <= Len(t) /\ s[i] = t[i]
    BY <1>1, <2>1
  <2>3. s[n] \in Mark /\ t[n] \in Mark /\ s[n] # t[n]
    BY <2>1, WordMarks
  <2>4. \/ Place(Characters, s[n]) < Place(Characters, t[n])
        \/ Place(Characters, t[n]) < Place(Characters, s[n])
    <3>1. /\ Place(Characters, s[n]) \in Nat /\ Place(Characters, t[n]) \in Nat
          /\ Place(Characters, s[n]) = Place(Characters, t[n]) => s[n] = t[n]
      BY <2>3, CharacterPlaces
    <3> QED
      BY <2>3, <3>1
  <2>5. n \in 1..Len(s) /\ n \in 1..Len(t)
    BY <2>1
  <2>6. CASE Place(Characters, s[n]) < Place(Characters, t[n])
    <3>1. TextBefore(s, t)
      BY <2>2, <2>5, <2>6 DEF TextBefore
    <3> QED
      BY <3>1
  <2>7. CASE Place(Characters, t[n]) < Place(Characters, s[n])
    <3>1. TextBefore(t, s)
      BY <2>2, <2>5, <2>7 DEF TextBefore
    <3> QED
      BY <3>1
  <2> QED
    BY <2>4, <2>6, <2>7
<1>3. CASE differ = {}
  <2>1. \A n \in Nat : n \in 1..Len(s) /\ n \in 1..Len(t) => s[n] = t[n]
    BY <1>3
  <2>2. Len(s) # Len(t)
    <3>1. SUFFICES ASSUME Len(s) = Len(t) PROVE s = t
      OBVIOUS
    <3>2. s \in Seq(Mark) /\ t \in Seq(Mark)
      BY DEF Word, Mark
    <3> QED
      BY <2>1, <3>1, <3>2, SeqEqual
  <2>3. CASE Len(s) < Len(t)
    <3>1. Len(s) + 1 \in 1..Len(t) /\ ~(Len(s) + 1 <= Len(s))
      BY <1>1, <2>3
    <3>2. \A i \in 1..((Len(s) + 1) - 1) : i <= Len(s) /\ s[i] = t[i]
      BY <1>1, <2>1, <2>3
    <3>3. TextBefore(s, t)
      BY <3>1, <3>2 DEF TextBefore
    <3> QED
      BY <3>3
  <2>4. CASE Len(t) < Len(s)
    <3>1. Len(t) + 1 \in 1..Len(s) /\ ~(Len(t) + 1 <= Len(t))
      BY <1>1, <2>4
    <3>2. \A i \in 1..((Len(t) + 1) - 1) : i <= Len(t) /\ t[i] = s[i]
      BY <1>1, <2>1, <2>4
    <3>3. TextBefore(t, s)
      BY <3>1, <3>2 DEF TextBefore
    <3> QED
      BY <3>3
  <2> QED
    BY <1>1, <2>2, <2>3, <2>4
<1> QED
  BY <1>2, <1>3

-----------------------------------------------------------------------------
(* What an operation scores. *)

LEMMA PlacesHold ==
  ASSUME NEW j, NEW word
  PROVE  "operation_id" \in Places(j, word) <=> InName(j, word)
BY DEF Places

LEMMA WordScoreBounds ==
  ASSUME NEW j, NEW word
  PROVE  /\ WordScore(j, word) \in 0..80
         /\ InName(j, word) => WordScore(j, word) >= 50
         /\ ~InName(j, word) => WordScore(j, word) <= 30
<1>1. Points("operation_id") = 50 /\ Points("summary") = 20 /\ Points("path") = 10
  BY DEF Points
<1>2. /\ Gained(j, word, "operation_id") = IF InName(j, word) THEN 50 ELSE 0
      /\ Gained(j, word, "summary") \in {0, 20}
      /\ Gained(j, word, "path") \in {0, 10}
  BY <1>1, PlacesHold DEF Gained
<1>3. InName(j, word) => Places(j, word) # {}
  BY PlacesHold
<1> DEFINE name == Gained(j, word, "operation_id")
           summary == Gained(j, word, "summary")
           path == Gained(j, word, "path")
<1>4. WordScore(j, word) = IF Places(j, word) = {} THEN 5 ELSE name + summary + path
  BY DEF WordScore
<1> HIDE DEF name, summary, path
<1>5. name = (IF InName(j, word) THEN 50 ELSE 0) /\ summary \in {0, 20} /\ path \in {0, 10}
  BY <1>2 DEF name, summary, path
<1> QED
  BY <1>3, <1>4, <1>5

LEMMA BonusBounds ==
  ASSUME NEW j
  PROVE  /\ Bonus(j) \in 0..20
         /\ query # <<>> /\ NamedBy(j) => Bonus(j) = 20
         /\ ~NamedBy(j) => Bonus(j) <= 10
<1>1. AllIn("operation_id", j) <=> NamedBy(j)
  BY PlacesHold DEF AllIn, NamedBy
<1> QED
  BY <1>1 DEF Bonus

LEMMA ScoresAreNumbers ==
  ASSUME NEW j
  PROVE  Bonus(j) \in Nat /\ \A word : WordScore(j, word) \in Nat
<1>1. Bonus(j) \in 0..20
  BY BonusBounds
<1>2. ASSUME NEW word PROVE WordScore(j, word) \in Nat
  <2>1. WordScore(j, word) \in 0..80
    BY WordScoreBounds
  <2> QED
    BY <2>1
<1> QED
  BY <1>1, <1>2

(* The score is the sum over the words of the query, and the bonus. *)
LEMMA ScoreAdds ==
  ASSUME NEW j, Len(query) \in Nat
  PROVE  \E sum \in [0..Len(query) -> Nat] :
           /\ sum[0] = 0
           /\ \A n \in 1..Len(query) : sum[n] = sum[n - 1] + WordScore(j, query[n])
           /\ Score(j) = sum[Len(query)] + Bonus(j)
<1> DEFINE L == Len(query)
           score(n) == WordScore(j, query[n])
           step == [n \in 1..L |-> [t \in Nat |-> t + score(n)]]
           Adding(f) == [n \in 0..L |-> IF n = 0 THEN 0 ELSE f[n - 1] + score(n)]
           sum == CHOOSE f : f = Adding(f)
<1>1. L \in Nat /\ \A n \in 1..L : score(n) \in Nat
  BY ScoresAreNumbers
<1>2. Score(j) = sum[L] + Bonus(j)
  BY DEF Score
<1> HIDE DEF score
<1>3. step \in [1..L -> [Nat -> Nat]]
  BY <1>1
<1>4. PICK f \in [0..L -> Nat] : f[0] = 0 /\ \A n \in 1..L : f[n] = step[n][f[n - 1]]
  <2> HIDE DEF step, L
  <2>1. Recursions(Nat, L, 0, step) # {}
    BY <1>1, <1>3, PrefixRecursion
  <2> QED
    BY <2>1 DEF Recursions
<1>5. \A n \in 1..L : f[n] = f[n - 1] + score(n)
  <2> TAKE n \in 1..L
  <2>1. f[n - 1] \in Nat
    BY <1>1
  <2>2. step[n][f[n - 1]] = f[n - 1] + score(n)
    BY <2>1
  <2> QED
    BY <1>4, <2>2
<1>6. f = Adding(f)
  BY <1>1, <1>4, <1>5
<1>7. sum = Adding(sum)
  BY <1>6
<1> HIDE DEF sum
<1>8. sum[0] = 0 /\ \A n \in 1..L : sum[n] = sum[n - 1] + score(n)
  BY <1>1, <1>7
<1>9. \A n \in 0..L : sum[n] \in Nat
  <2>1. sum[0] \in Nat /\ \A n \in 1..L : sum[n - 1] \in Nat => sum[n] \in Nat
    BY <1>1, <1>8
  <2> HIDE DEF L
  <2> QED
    BY <1>1, <2>1, PrefixInduction
<1>10. sum \in [0..L -> Nat]
  BY <1>7, <1>9
<1> QED
  BY <1>2, <1>8, <1>10 DEF score

LEMMA ScoreType ==
  ASSUME NEW j, Len(query) \in Nat
  PROVE  Score(j) \in Nat
<1>1. PICK sum \in [0..Len(query) -> Nat] : Score(j) = sum[Len(query)] + Bonus(j)
  BY ScoreAdds
<1>2. sum[Len(query)] \in Nat /\ Bonus(j) \in Nat
  BY BonusBounds
<1> QED
  BY <1>1, <1>2

(* One word: 70 and more with the word in the name, 40 at most without.     *)
(* Two: 120 and more with both, 120 at most without one of them.            *)
LEMMA NamesWeighMost ==
  ASSUME query \in Seq(Seq(Letter)), query # <<>>, Len(query) <= 2,
         NEW j, NEW k, NamedBy(j), ~NamedBy(k)
  PROVE  Score(k) < Score(j) \/ (Len(query) = 2 /\ Score(k) <= Score(j))
<1> DEFINE first(x) == WordScore(x, query[1])
           second(x) == WordScore(x, query[2])
<1>1. Len(query) \in {1, 2} /\ DOMAIN query = 1..Len(query)
  <2>1. Len(query) \in Nat /\ DOMAIN query = 1..Len(query)
    BY LenProperties
  <2>2. Len(query) # 0
    BY EmptySeq
  <2> QED
    BY <2>1, <2>2
<1>2. \A x : Score(x) = IF Len(query) = 1 THEN first(x) + Bonus(x)
                         ELSE first(x) + second(x) + Bonus(x)
  <2> TAKE x
  <2>1. PICK sum \in [0..Len(query) -> Nat] :
          /\ sum[0] = 0
          /\ \A n \in 1..Len(query) : sum[n] = sum[n - 1] + WordScore(x, query[n])
          /\ Score(x) = sum[Len(query)] + Bonus(x)
    <3>1. Len(query) \in Nat
      BY <1>1
    <3> QED
      BY <3>1, ScoreAdds
  <2>2. first(x) \in Nat /\ second(x) \in Nat /\ Bonus(x) \in Nat
    BY ScoresAreNumbers
  <2>3. sum[1] = first(x)
    BY <1>1, <2>1, <2>2
  <2>4. Len(query) = 2 => sum[2] = first(x) + second(x)
    BY <1>1, <2>1, <2>2, <2>3
  <2> QED
    BY <1>1, <2>1, <2>3, <2>4
<1>3. /\ first(j) \in 50..80 /\ Bonus(j) = 20
      /\ Len(query) = 2 => second(j) \in 50..80
  <2>1. ASSUME NEW n \in 1..Len(query)
        PROVE  WordScore(j, query[n]) \in 50..80
    <3>1. InName(j, query[n])
      BY <1>1 DEF NamedBy
    <3>2. WordScore(j, query[n]) \in 0..80 /\ WordScore(j, query[n]) >= 50
      BY <3>1, WordScoreBounds
    <3>3. \A w \in 0..80 : w >= 50 => w \in 50..80
      OBVIOUS
    <3> QED
      BY <3>2, <3>3
  <2>2. Bonus(j) = 20
    BY BonusBounds
  <2>3. 1 \in 1..Len(query) /\ (Len(query) = 2 => 2 \in 1..Len(query))
    BY <1>1
  <2> QED
    BY <2>1, <2>2, <2>3
<1>4. /\ first(k) \in 0..80 /\ second(k) \in 0..80 /\ Bonus(k) \in 0..10
      /\ first(k) <= 30 \/ (Len(query) = 2 /\ second(k) <= 30)
  <2>1. PICK n \in 1..Len(query) : ~InName(k, query[n])
    BY <1>1 DEF NamedBy
  <2>2. n = 1 \/ (n = 2 /\ Len(query) = 2)
    BY <1>1
  <2>3. WordScore(k, query[n]) <= 30
    BY <2>1, WordScoreBounds
  <2>4. first(k) \in 0..80 /\ second(k) \in 0..80
    BY WordScoreBounds
  <2>5. Bonus(k) \in 0..20 /\ Bonus(k) <= 10
    BY BonusBounds
  <2>6. first(k) <= 30 \/ (Len(query) = 2 /\ second(k) <= 30)
    BY <2>2, <2>3
  <2> QED
    BY <2>4, <2>5, <2>6
<1>5. \A a \in 50..80, b \in 0..80, c \in 0..10 : b <= 30 => b + c < a + 20
  OBVIOUS
<1>6. \A a1, a2 \in 50..80, b1, b2 \in 0..80, c \in 0..10 :
        b1 <= 30 \/ b2 <= 30 => b1 + b2 + c <= a1 + a2 + 20
  OBVIOUS
<1> HIDE DEF first, second
<1>7. CASE Len(query) = 1
  <2>1. Score(k) = first(k) + Bonus(k) /\ Score(j) = first(j) + 20
    BY <1>2, <1>3, <1>7
  <2>2. first(k) <= 30
    BY <1>4, <1>7
  <2>3. first(k) + Bonus(k) < first(j) + 20
    BY <1>3, <1>4, <1>5, <2>2
  <2> QED
    BY <2>1, <2>3
<1>8. CASE Len(query) = 2
  <2>1. /\ Score(k) = first(k) + second(k) + Bonus(k)
        /\ Score(j) = first(j) + second(j) + 20
    BY <1>2, <1>3, <1>8
  <2>2. first(k) + second(k) + Bonus(k) <= first(j) + second(j) + 20
    BY <1>3, <1>4, <1>6, <1>8
  <2> QED
    BY <1>8, <2>1, <2>2
<1> QED
  BY <1>1, <1>7, <1>8

-----------------------------------------------------------------------------
(* The list of matches is sorted, and holds each once. *)

Scores == [j \in Matches |-> Score(j)]

Order == {p \in Matches \X Matches : Before(Scores, p[1], p[2])}

LEMMA MatchesAreFinite ==
  ASSUME IInv
  PROVE  /\ Matches \subseteq 1..Len(operations) /\ IsFiniteSet(Matches)
         /\ Len(operations) \in Nat
<1>1. operations \in Seq(Listed)
  BY DEF IInv, Origin
<1>2. Len(operations) \in Nat
  BY <1>1, LenProperties
<1>3. Matches \in SUBSET (1..Len(operations))
  BY DEF Matches
<1> QED
  BY <1>2, <1>3, FinitelyMany

LEMMA MatchType ==
  ASSUME IInv, NEW j \in Matches
  PROVE  operations[j].namespace \in Namespaces /\ operations[j].name \in Word
<1>1. operations \in Seq(Listed)
  BY DEF IInv, Origin
<1>2. j \in 1..Len(operations)
  BY DEF Matches
<1>3. operations[j] \in Listed
  BY <1>1, <1>2, ElementOfSeq
<1> QED
  BY <1>3 DEF Listed

LEMMA BeforeMeans ==
  ASSUME IInv, NEW x \in Matches, NEW y \in Matches
  PROVE  LET key(j) == Scores[j]
             at(j) == Place(Spaces, operations[j].namespace)
             name(j) == operations[j].name
         IN  /\ <<x, y>> \in Order <=> Before(Scores, x, y)
             /\ at(x) \in Nat /\ at(y) \in Nat
             /\ Before(Scores, x, y) <=>
                  \/ key(x) > key(y)
                  \/ /\ key(x) = key(y)
                     /\ \/ at(x) < at(y)
                        \/ /\ at(x) = at(y)
                           /\ TextBefore(name(x), name(y)) \/ (name(x) = name(y) /\ x < y)
<1>1. <<x, y>> \in Order <=> Before(Scores, x, y)
  BY DEF Order
<1>2. operations[x].namespace \in Namespaces /\ operations[y].namespace \in Namespaces
  BY MatchType
<1>3. /\ Place(Spaces, operations[x].namespace) \in Nat
      /\ Place(Spaces, operations[y].namespace) \in Nat
      /\ Place(Spaces, operations[x].namespace) = Place(Spaces, operations[y].namespace)
           => operations[x].namespace = operations[y].namespace
  BY <1>2, SpacePlaces
<1> QED
  BY <1>1, <1>3 DEF Before

LEMMA OrderIsStrict ==
  ASSUME IInv, Len(query) \in Nat
  PROVE  StrictOrder(Order, Matches)
<1> DEFINE key(j) == Scores[j]
           at(j) == Place(Spaces, operations[j].namespace)
           name(j) == operations[j].name
           less(x, y) == TextBefore(name(x), name(y))
<1>1. Matches \subseteq Nat
  BY MatchesAreFinite
<1>2. \A x \in Matches : key(x) \in Nat /\ at(x) \in Nat
  <2> TAKE x \in Matches
  <2>1. key(x) \in Nat
    BY ScoreType DEF Scores
  <2> QED
    BY <2>1, BeforeMeans
<1>3. \A x, y \in Matches :
        <<x, y>> \in Order <=>
          \/ key(x) > key(y)
          \/ /\ key(x) = key(y)
             /\ \/ at(x) < at(y)
                \/ at(x) = at(y) /\ (less(x, y) \/ (name(x) = name(y) /\ x < y))
  BY BeforeMeans
<1>4. \A x, y \in Matches : name(x) = name(y) => ~less(x, y)
  BY MatchType, TextIrreflexive
<1>5. \A x, y, z \in Matches : less(x, y) /\ less(y, z) => less(x, z)
  BY MatchType, TextTransitive
<1>6. \A x, y \in Matches : name(x) = name(y) \/ less(x, y) \/ less(y, x)
  BY MatchType, TextTotal
<1>7. \A x, y, z \in Matches :
        /\ name(x) = name(y) /\ less(y, z) => less(x, z)
        /\ less(x, y) /\ name(y) = name(z) => less(x, z)
  OBVIOUS
<1> HIDE DEF key, at, name, less
<1>8. \A x \in Matches : <<x, x>> \notin Order
  BY <1>1, <1>2, <1>3, <1>4
<1>9. \A x, y, z \in Matches :
        <<x, y>> \in Order /\ <<y, z>> \in Order => <<x, z>> \in Order
  <2> SUFFICES ASSUME NEW x \in Matches, NEW y \in Matches, NEW z \in Matches,
                      <<x, y>> \in Order, <<y, z>> \in Order
               PROVE  <<x, z>> \in Order
    OBVIOUS
  <2>1. x \in Nat /\ y \in Nat /\ z \in Nat
    BY <1>1
  <2>2. /\ key(x) \in Nat /\ key(y) \in Nat /\ key(z) \in Nat
        /\ at(x) \in Nat /\ at(y) \in Nat /\ at(z) \in Nat
    BY <1>2
  <2>3. CASE key(x) > key(y) \/ key(y) > key(z)
    <3>1. key(x) > key(z)
      BY <1>3, <2>2, <2>3
    <3> QED
      BY <1>3, <3>1
  <2>4. CASE key(x) = key(y) /\ key(y) = key(z)
    <3>1. CASE at(x) < at(y) \/ at(y) < at(z)
      <4>1. at(x) < at(z)
        BY <1>3, <2>2, <2>4, <3>1
      <4> QED
        BY <1>3, <2>4, <4>1
    <3>2. CASE at(x) = at(y) /\ at(y) = at(z)
      <4>1. less(x, y) \/ (name(x) = name(y) /\ x < y)
        BY <1>3, <2>2, <2>4, <3>2
      <4>2. less(y, z) \/ (name(y) = name(z) /\ y < z)
        BY <1>3, <2>2, <2>4, <3>2
      <4>3. less(x, z) \/ (name(x) = name(z) /\ x < z)
        BY <1>5, <1>7, <2>1, <4>1, <4>2
      <4> QED
        BY <1>3, <2>4, <3>2, <4>3
    <3> QED
      BY <1>3, <2>2, <2>4, <3>1, <3>2
  <2> QED
    BY <1>3, <2>2, <2>3, <2>4
<1>10. \A x, y \in Matches : x = y \/ <<x, y>> \in Order \/ <<y, x>> \in Order
  <2> SUFFICES ASSUME NEW x \in Matches, NEW y \in Matches, x # y
               PROVE  <<x, y>> \in Order \/ <<y, x>> \in Order
    OBVIOUS
  <2>1. x < y \/ y < x
    BY <1>1
  <2>2. /\ key(x) \in Nat /\ key(y) \in Nat /\ at(x) \in Nat /\ at(y) \in Nat
    BY <1>2
  <2>3. \/ less(x, y) \/ (name(x) = name(y) /\ x < y)
        \/ less(y, x) \/ (name(y) = name(x) /\ y < x)
    BY <1>6, <2>1
  <2> QED
    BY <1>3, <2>2, <2>3
<1> QED
  BY <1>8, <1>9, <1>10 DEF StrictOrder

(* The number of matches. *)
Found == Cardinality(Matches)

(* The list has every match, once, and an operation before those it is      *)
(* before.                                                                   *)
LEMMA SortedLists ==
  ASSUME IInv, Len(query) \in Nat
  PROVE  /\ Found \in Nat /\ Sorted \in Seq(Matches) /\ Len(Sorted) = Found
         /\ \A j \in Matches : \E n \in 1..Found : Sorted[n] = j
         /\ \A m, n \in 1..Found : m < n => Before(Scores, Sorted[m], Sorted[n])
<1> DEFINE N == Found
           rank == Rank(Order, Matches)
<1>1. IsFiniteSet(Matches) /\ StrictOrder(Order, Matches)
  BY MatchesAreFinite, OrderIsStrict
<1>2. /\ N \in Nat /\ rank \in [Matches -> 0..(N - 1)]
      /\ \A x, y \in Matches : rank[x] = rank[y] => x = y
      /\ \A i \in 0..(N - 1) : \E x \in Matches : rank[x] = i
  BY <1>1, RankIsBijection DEF Found
<1>3. Ranked = rank
  <2>1. ASSUME NEW j \in Matches
        PROVE  {k \in Matches : Before(Scores, k, j)} = Lesser(Order, Matches, j)
    BY BeforeMeans DEF Lesser
  <2> HIDE DEF Scores
  <2>2. Ranked = [j \in Matches |-> Cardinality({k \in Matches : Before(Scores, k, j)})]
    BY DEF Ranked, Scores
  <2> QED
    BY <2>1, <2>2 DEF Rank
<1>4. DOMAIN Ranked = Matches
  BY DEF Ranked
<1>5. Sorted = [n \in 1..N |-> CHOOSE j \in Matches : rank[j] = n - 1]
  BY <1>3, <1>4 DEF Sorted, Found
<1> HIDE DEF rank, N
<1>6. ASSUME NEW n \in 1..N
      PROVE  Sorted[n] \in Matches /\ rank[Sorted[n]] = n - 1
  <2>1. n - 1 \in 0..(N - 1)
    BY <1>2
  <2>2. \E x \in Matches : rank[x] = n - 1
    BY <1>2, <2>1
  <2>3. Sorted[n] = CHOOSE j \in Matches : rank[j] = n - 1
    BY <1>5
  <2> QED
    BY <2>2, <2>3
<1>7. Sorted \in Seq(Matches) /\ Len(Sorted) = N
  BY <1>2, <1>5, <1>6
<1>8. ASSUME NEW j \in Matches
      PROVE  \E n \in 1..N : Sorted[n] = j
  <2>1. rank[j] + 1 \in 1..N /\ (rank[j] + 1) - 1 = rank[j]
    BY <1>2
  <2>2. /\ Sorted[rank[j] + 1] \in Matches
        /\ rank[Sorted[rank[j] + 1]] = rank[j]
    BY <1>6, <2>1
  <2> QED
    BY <1>2, <2>1, <2>2
<1>9. ASSUME NEW m \in 1..N, NEW n \in 1..N, m < n
      PROVE  Before(Scores, Sorted[m], Sorted[n])
  <2>1. /\ Sorted[m] \in Matches /\ rank[Sorted[m]] = m - 1
        /\ Sorted[n] \in Matches /\ rank[Sorted[n]] = n - 1
    BY <1>6
  <2>2. Sorted[m] # Sorted[n]
    BY <1>2, <1>9, <2>1
  <2>3. <<Sorted[n], Sorted[m]>> \notin Order
    <3>1. SUFFICES ASSUME <<Sorted[n], Sorted[m]>> \in Order PROVE FALSE
      OBVIOUS
    <3>2. Cardinality(Lesser(Order, Matches, Sorted[n]))
            < Cardinality(Lesser(Order, Matches, Sorted[m]))
      BY <1>1, <2>1, <3>1, RankFollowsOrder
    <3>3. /\ rank[Sorted[n]] = Cardinality(Lesser(Order, Matches, Sorted[n]))
          /\ rank[Sorted[m]] = Cardinality(Lesser(Order, Matches, Sorted[m]))
      BY <2>1 DEF rank, Rank
    <3>4. n - 1 < m - 1
      BY <2>1, <3>2, <3>3
    <3> QED
      BY <1>2, <1>9, <3>4
  <2>4. <<Sorted[m], Sorted[n]>> \in Order
    BY <1>1, <2>1, <2>2, <2>3 DEF StrictOrder
  <2> QED
    BY <2>1, <2>4, BeforeMeans
<1> QED
  BY <1>2, <1>7, <1>8, <1>9 DEF N

-----------------------------------------------------------------------------
(* The inductive invariant: what a client has seen are the first of the     *)
(* sorted list, up to its offset, and the search began when all was loaded, *)
(* so that no operation comes into the list behind the client's back.       *)

Asked ==
  /\ query \in Seq(Seq(Letter))
  /\ offset \in Nat /\ more \in BOOLEAN /\ seen \in Seq(Matches)

Begun == more \/ offset > 0 => file > Len(directory)

Prefix ==
  /\ Len(seen) <= Len(Sorted)
  /\ \A n \in 1..Len(seen) : seen[n] = Sorted[n]

Progress ==
  /\ more => Len(seen) = offset
  /\ ~more /\ offset > 0 => Len(seen) = Len(Sorted)
  /\ ~more /\ offset = 0 => seen = <<>>

Paging == Asked /\ Begun /\ Prefix /\ Progress

LEMMA EmptyPaging ==
  ASSUME NEW S, NEW whole \in Seq(S)
  PROVE  /\ <<>> \in Seq(S) /\ Len(<<>>) = 0 /\ 0 <= Len(whole)
         /\ \A n \in 1..0 : <<>>[n] = whole[n]
<1>1. Len(whole) \in Nat
  BY LenProperties
<1> QED
  BY <1>1

(* Nothing seen is the beginning of any list. *)
LEMMA NothingSeen ==
  IInv /\ Len(query) \in Nat /\ seen = <<>> =>
    seen \in Seq(Matches) /\ Len(seen) = 0 /\ Prefix
<1> SUFFICES ASSUME IInv, Len(query) \in Nat, seen = <<>>
             PROVE  seen \in Seq(Matches) /\ Len(seen) = 0 /\ Prefix
  OBVIOUS
<1>1. Sorted \in Seq(Matches)
  BY SortedLists
<1>2. /\ <<>> \in Seq(Matches) /\ Len(<<>>) = 0 /\ 0 <= Len(Sorted)
      /\ \A n \in 1..0 : <<>>[n] = Sorted[n]
  BY <1>1, EmptyPaging
<1> QED
  BY <1>2 DEF Prefix

LEMMA NothingSeenNext ==
  (IInv /\ Len(query) \in Nat /\ seen = <<>> =>
    seen \in Seq(Matches) /\ Len(seen) = 0 /\ Prefix)'
BY NothingSeen, PTL

(* A page continues the beginning of a list that was seen. *)
LEMMA NextPage ==
  ASSUME NEW S, NEW whole \in Seq(S), NEW part \in Seq(S), NEW limit \in Nat \ {0},
         Len(part) <= Len(whole), \A n \in 1..Len(part) : part[n] = whole[n],
         NEW end, end = IF Len(part) + limit < Len(whole) THEN Len(part) + limit ELSE Len(whole)
  PROVE  LET page == SubSeq(whole, Len(part) + 1, end)
         IN  /\ part \o page \in Seq(S) /\ Len(part \o page) = end /\ end <= Len(whole)
             /\ Len(page) = end - Len(part)
             /\ \A n \in 1..end : (part \o page)[n] = whole[n]
<1> DEFINE page == SubSeq(whole, Len(part) + 1, end)
<1>1. Len(part) \in Nat /\ Len(whole) \in Nat
  BY LenProperties
<1>2. end \in Nat /\ Len(part) <= end /\ end <= Len(whole)
  BY <1>1
<1>3. \A n \in (Len(part) + 1)..end : whole[n] \in S
  <2>1. \A n \in 1..Len(whole) : whole[n] \in S
    BY ElementOfSeq
  <2> QED
    BY <1>1, <1>2, <2>1
<1>4. /\ page \in Seq(S) /\ Len(page) = end - Len(part)
      /\ \A n \in 1..(end - Len(part)) : page[n] = whole[Len(part) + n]
  <2>1. Len(part) + 1 \in 1..(Len(whole) + 1) /\ end \in Len(part)..Len(whole)
    BY <1>1, <1>2
  <2> QED
    BY <1>1, <1>2, <1>3, <2>1, SubSeqProperties
<1> HIDE DEF page
<1>5. /\ part \o page \in Seq(S) /\ Len(part \o page) = Len(part) + Len(page)
      /\ \A n \in 1..(Len(part) + Len(page)) :
           (part \o page)[n] = IF n <= Len(part) THEN part[n] ELSE page[n - Len(part)]
  BY <1>4, ConcatProperties
<1>6. Len(part \o page) = end
  BY <1>1, <1>2, <1>4, <1>5
<1>7. ASSUME NEW n \in 1..end
      PROVE  (part \o page)[n] = whole[n]
  <2>1. (part \o page)[n] = IF n <= Len(part) THEN part[n] ELSE page[n - Len(part)]
    BY <1>1, <1>2, <1>4, <1>5
  <2>2. CASE n <= Len(part)
    BY <1>1, <2>1, <2>2
  <2>3. CASE ~(n <= Len(part))
    <3>1. n - Len(part) \in 1..(end - Len(part)) /\ Len(part) + (n - Len(part)) = n
      BY <1>1, <1>2, <2>3
    <3> QED
      BY <1>4, <2>1, <2>3, <3>1
  <2> QED
    BY <2>2, <2>3
<1> QED
  BY <1>2, <1>4, <1>5, <1>6, <1>7 DEF page

LEMMA InitPaging == DiscoveryInit => Paging
<1> SUFFICES ASSUME DiscoveryInit PROVE Paging
  OBVIOUS
<1>1. /\ query = <<>> /\ offset = 0 /\ seen = <<>> /\ more = FALSE
  BY DEF DiscoveryInit
<1>2. IInv
  BY InitEstablishes DEF DiscoveryInit
<1>3. query \in Seq(Seq(Letter)) /\ Len(query) \in Nat
  BY <1>1
<1>4. seen \in Seq(Matches) /\ Prefix
  BY <1>1, <1>2, <1>3, NothingSeen
<1>5. Asked
  BY <1>1, <1>3, <1>4 DEF Asked
<1>6. Begun
  BY <1>1 DEF Begun
<1>7. Progress
  BY <1>1 DEF Progress
<1> QED
  BY <1>4, <1>5, <1>6, <1>7 DEF Paging

LEMMA LoadingKeepsPaging ==
  ASSUME IInv, IInv', Paging, Loading
  PROVE  Paging'
<1>1. /\ file <= Len(directory) /\ query' = query /\ offset' = offset /\ seen' = seen
      /\ more' = more
  BY DEF Loading, LoadFile, search
<1>2. Len(directory) \in Nat /\ file \in Nat
  <2>1. directory \in Directories /\ file \in 1..(Len(directory) + 1)
    BY DEF IInv, TypeOK
  <2>2. Len(directory) \in Nat
    BY <2>1, DirectoriesAssumption
  <2> QED
    BY <2>1, <2>2
<1>3. ~more /\ offset = 0
  BY <1>1, <1>2 DEF Paging, Asked, Begun
<1>4. seen = <<>>
  BY <1>3 DEF Paging, Progress
<1>5. query' \in Seq(Seq(Letter)) /\ Len(query') \in Nat /\ seen' = <<>>
  <2>1. query \in Seq(Seq(Letter))
    BY DEF Paging, Asked
  <2>2. Len(query) \in Nat
    BY <2>1, LenProperties
  <2> QED
    BY <1>1, <1>4, <2>1, <2>2
<1>6. seen' \in Seq(Matches') /\ Prefix'
  BY <1>5, NothingSeenNext
<1>7. Asked'
  <2>1. offset \in Nat /\ more \in BOOLEAN
    BY DEF Paging, Asked
  <2> QED
    BY <1>1, <1>5, <1>6, <2>1 DEF Asked
<1>8. Begun'
  BY <1>1, <1>3 DEF Begun
<1>9. Progress'
  BY <1>1, <1>3, <1>5 DEF Progress
<1> QED
  BY <1>6, <1>7, <1>8, <1>9 DEF Paging

LEMMA SearchKeepsPaging ==
  ASSUME IInv', Paging, NEW q \in Queries, NEW s, Search(q, s)
  PROVE  Paging'
<1>1. /\ file > Len(directory) /\ query' = q /\ offset' = 0 /\ seen' = <<>> /\ more' = TRUE
      /\ file' = file /\ directory' = directory
  BY DEF Search, vars
<1>2. query' \in Seq(Seq(Letter)) /\ Len(query') \in Nat
  <2>1. q \in Seq(Seq(Letter))
    BY QueriesAssumption
  <2> QED
    BY <1>1, <2>1, LenProperties
<1>3. seen' \in Seq(Matches') /\ Len(seen') = 0 /\ Prefix'
  BY <1>1, <1>2, NothingSeenNext
<1>4. Asked'
  BY <1>1, <1>2, <1>3 DEF Asked
<1>5. Begun'
  BY <1>1 DEF Begun
<1>6. Progress'
  BY <1>1, <1>3 DEF Progress
<1> QED
  BY <1>3, <1>4, <1>5, <1>6 DEF Paging

LEMMA PageKeepsPaging ==
  ASSUME IInv, Paging, ListOperations
  PROVE  Paging'
<1> DEFINE end == IF Len(seen) + Limit < Len(Sorted) THEN Len(seen) + Limit ELSE Len(Sorted)
<1>1. /\ more /\ seen' = seen \o Page /\ offset' = offset + Limit
      /\ more' = (Len(Page) = Limit) /\ query' = query /\ scope' = scope
      /\ operations' = operations /\ directory' = directory /\ file' = file
  BY DEF ListOperations, vars
<1>2. /\ query \in Seq(Seq(Letter)) /\ offset \in Nat /\ seen \in Seq(Matches)
      /\ Len(query) \in Nat /\ Len(seen) = offset /\ file > Len(directory)
      /\ Len(seen) <= Len(Sorted) /\ \A n \in 1..Len(seen) : seen[n] = Sorted[n]
  <2>1. query \in Seq(Seq(Letter))
    BY DEF Paging, Asked
  <2>2. Len(query) \in Nat
    BY <2>1, LenProperties
  <2> QED
    BY <1>1, <2>1, <2>2 DEF Paging, Asked, Begun, Prefix, Progress
<1>3. Sorted \in Seq(Matches) /\ Len(Sorted) \in Nat
  BY <1>2, SortedLists
<1>4. Limit \in Nat \ {0}
  BY LimitAssumption
<1>5. Page = SubSeq(Sorted, Len(seen) + 1, end)
  BY <1>2 DEF Page
<1>6. /\ seen' \in Seq(Matches) /\ Len(seen') = end /\ end <= Len(Sorted)
      /\ Len(Page) = end - Len(seen)
      /\ \A n \in 1..end : seen'[n] = Sorted[n]
  <2> HIDE DEF end
  <2>1. end = IF Len(seen) + Limit < Len(Sorted) THEN Len(seen) + Limit ELSE Len(Sorted)
    BY DEF end
  <2>2. LET page == SubSeq(Sorted, Len(seen) + 1, end)
        IN  /\ seen \o page \in Seq(Matches) /\ Len(seen \o page) = end /\ end <= Len(Sorted)
            /\ Len(page) = end - Len(seen)
            /\ \A n \in 1..end : (seen \o page)[n] = Sorted[n]
    <3> DEFINE S == Matches
               whole == Sorted
    <3> HIDE DEF S, whole
    <3>1. /\ whole \in Seq(S) /\ seen \in Seq(S) /\ Limit \in Nat \ {0}
          /\ Len(seen) <= Len(whole) /\ \A n \in 1..Len(seen) : seen[n] = whole[n]
          /\ end = IF Len(seen) + Limit < Len(whole) THEN Len(seen) + Limit ELSE Len(whole)
      BY <1>2, <1>3, <1>4, <2>1 DEF S, whole
    <3>2. LET page == SubSeq(whole, Len(seen) + 1, end)
          IN  /\ seen \o page \in Seq(S) /\ Len(seen \o page) = end /\ end <= Len(whole)
              /\ Len(page) = end - Len(seen)
              /\ \A n \in 1..end : (seen \o page)[n] = whole[n]
      BY <3>1, NextPage
    <3> QED
      BY <3>2 DEF S, whole
  <2> QED
    BY <1>1, <1>5, <2>2
<1>7. Matches' = Matches /\ Sorted' = Sorted
  BY <1>1 DEF Matches, Hit, Places, InName, Declared, Sorted, Ranked, Score, Scores,
              WordScore, Gained, Bonus, AllIn, Before
<1>8. Len(seen) + Limit \in Nat /\ Len(seen) + Limit > 0
  BY <1>2, <1>4
<1>9. CASE Len(seen) + Limit <= Len(Sorted)
  <2>1. end = Len(seen) + Limit /\ Len(Page) = Limit
    BY <1>2, <1>3, <1>4, <1>6, <1>9
  <2>2. more' /\ Len(seen') = offset'
    BY <1>1, <1>2, <1>6, <2>1
  <2> QED
    BY <1>1, <1>2, <1>6, <1>7, <1>8, <2>2 DEF Paging, Asked, Begun, Prefix, Progress
<1>10. CASE ~(Len(seen) + Limit <= Len(Sorted))
  <2>1. end = Len(Sorted) /\ Len(Page) # Limit
    BY <1>2, <1>3, <1>4, <1>6, <1>10
  <2>2. more' = FALSE /\ Len(seen') = Len(Sorted) /\ offset' > 0
    BY <1>1, <1>2, <1>6, <1>8, <2>1
  <2> QED
    BY <1>1, <1>2, <1>6, <1>7, <1>8, <2>2 DEF Paging, Asked, Begun, Prefix, Progress
<1> QED
  BY <1>9, <1>10

LEMMA StutterKeepsPaging ==
  ASSUME Paging, UNCHANGED <<vars, search>>
  PROVE  Paging'
<1>1. /\ operations' = operations /\ directory' = directory /\ file' = file
      /\ query' = query /\ scope' = scope /\ offset' = offset /\ seen' = seen /\ more' = more
  BY DEF vars, search
<1>2. Matches' = Matches /\ Sorted' = Sorted
  BY <1>1 DEF Matches, Hit, Places, InName, Declared, Sorted, Ranked, Score, Scores,
              WordScore, Gained, Bonus, AllIn, Before
<1> QED
  BY <1>1, <1>2 DEF Paging, Asked, Begun, Prefix, Progress

(* Where a client is in the list it pages through. *)
THEOREM PagingInvariance == DiscoverySpec => [](IInv /\ Paging)
<1>1. DiscoveryInit => Paging
  BY InitPaging
<1>2. IInv /\ IInv' /\ Paging /\ [DiscoveryNext]_<<vars, search>> => Paging'
  BY LoadingKeepsPaging, SearchKeepsPaging, PageKeepsPaging, StutterKeepsPaging
     DEF DiscoveryNext
<1>3. DiscoverySpec => []IInv
  BY SearchingKeepsTheCatalog, Invariance, PTL
<1> QED
  BY <1>1, <1>2, <1>3, PTL DEF DiscoverySpec

(* The pages a client took one by one hold every match exactly once, for    *)
(* any catalog, search and page length (the slice in list_operations).       *)
THEOREM PagesCover == DiscoverySpec => []PagesCoverTheMatches
<1>1. IInv /\ Paging => PagesCoverTheMatches
  <2> SUFFICES ASSUME IInv, Paging, offset > 0, ~more
               PROVE  /\ {seen[n] : n \in 1..Len(seen)} = Matches
                      /\ Len(seen) = Cardinality(Matches)
    BY DEF PagesCoverTheMatches
  <2>1. Len(query) \in Nat
    <3>1. query \in Seq(Seq(Letter))
      BY DEF Paging, Asked
    <3> QED
      BY <3>1, LenProperties
  <2>2. /\ Found \in Nat /\ Len(Sorted) = Found
        /\ \A j \in Matches : \E n \in 1..Found : Sorted[n] = j
    BY <2>1, SortedLists
  <2>3. Len(seen) = Found /\ seen \in Seq(Matches)
        /\ \A n \in 1..Len(seen) : seen[n] = Sorted[n]
    BY <2>2 DEF Paging, Asked, Prefix, Progress
  <2>4. \A n \in 1..Len(seen) : seen[n] \in Matches
    BY <2>3, ElementOfSeq
  <2>5. {seen[n] : n \in 1..Len(seen)} = Matches
    BY <2>2, <2>3, <2>4
  <2> QED
    BY <2>3, <2>5 DEF Found
<1> QED
  BY <1>1, PagingInvariance, PTL

(* An operation that every word searched for names comes before those that  *)
(* mention a word only elsewhere, or ties with them (_score_operation).      *)
THEOREM NamedFirst == DiscoverySpec => []NamedOperationsRankFirst
<1>1. IInv /\ Paging => NamedOperationsRankFirst
  <2> SUFFICES ASSUME IInv, Paging, query # <<>>, Len(query) <= 2,
                      NEW m \in 1..Len(seen), NEW n \in 1..Len(seen),
                      m < n, NamedBy(seen[n]), ~NamedBy(seen[m])
               PROVE  Len(query) = 2 /\ Score(seen[m]) = Score(seen[n])
    BY DEF NamedOperationsRankFirst
  <2>1. query \in Seq(Seq(Letter)) /\ Len(query) \in Nat
    <3>1. query \in Seq(Seq(Letter))
      BY DEF Paging, Asked
    <3> QED
      BY <3>1, LenProperties
  <2>2. /\ Found \in Nat /\ Len(Sorted) = Found
        /\ \A i, j \in 1..Found : i < j => Before(Scores, Sorted[i], Sorted[j])
    BY <2>1, SortedLists
  <2>3. seen \in Seq(Matches) /\ Len(seen) \in Nat /\ Len(seen) <= Found
        /\ \A i \in 1..Len(seen) : seen[i] = Sorted[i]
    BY <2>2, LenProperties DEF Paging, Asked, Prefix
  <2>4. Before(Scores, seen[m], seen[n])
    <3>1. m \in 1..Found /\ n \in 1..Found
      BY <2>2, <2>3
    <3> QED
      BY <2>2, <2>3, <3>1
  <2>5. seen[m] \in Matches /\ seen[n] \in Matches
    BY <2>3, ElementOfSeq
  <2>6. Scores[seen[m]] = Score(seen[m]) /\ Scores[seen[n]] = Score(seen[n])
    BY <2>5 DEF Scores
  <2>7. Score(seen[m]) \in Nat /\ Score(seen[n]) \in Nat
    BY <2>1, ScoreType
  <2>8. Score(seen[m]) >= Score(seen[n])
    <3>1. Scores[seen[m]] > Scores[seen[n]] \/ Scores[seen[m]] = Scores[seen[n]]
      BY <2>4 DEF Before
    <3> QED
      BY <2>6, <2>7, <3>1
  <2>9. \/ Score(seen[m]) < Score(seen[n])
        \/ Len(query) = 2 /\ Score(seen[m]) <= Score(seen[n])
    BY <2>1, NamesWeighMost
  <2> QED
    BY <2>7, <2>8, <2>9
<1> QED
  BY <1>1, PagingInvariance, PTL
=============================================================================
