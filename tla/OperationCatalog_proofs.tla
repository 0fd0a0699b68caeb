----------------------- MODULE OperationCatalog_proofs -----------------------
(***************************************************************************)
(* Proofs about OperationCatalog, for any specification and alphabet.      *)
(***************************************************************************)
EXTENDS OperationCatalog, NaturalsLemmas, FiniteSetTheorems, SequenceTheorems, TLAPS

(* A group of operations is finite. *)
LEMMA FinitelyMany ==
  ASSUME NEW n \in Nat, NEW group \in SUBSET (1..n)
  PROVE  IsFiniteSet(group)
<1>1. 1 \in Int /\ n \in Int
  OBVIOUS
<1>2. IsFiniteSet(1..n)
  BY <1>1, FS_Interval
<1> QED
  BY <1>2, FS_Subset

(* Of two members of a group, fewer members come before the smaller. *)
LEMMA EarlierHasFewerBefore ==
  ASSUME NEW n \in Nat, NEW group \in SUBSET (1..n),
         NEW j \in group, NEW k \in group, j < k
  PROVE  Cardinality({m \in group : m < j}) < Cardinality({m \in group : m < k})
<1> DEFINE below(x) == {m \in group : m < x}
<1>1. IsFiniteSet(group)
  BY FinitelyMany
<1>2. IsFiniteSet(below(j)) /\ IsFiniteSet(below(k))
  BY <1>1, FS_Subset
<1>3. below(j) \in SUBSET below(k)
  <2>1. \A m \in group : m < j => m < k
    OBVIOUS
  <2> QED
    BY <2>1
<1>4. j \in below(k) /\ j \notin below(j)
  OBVIOUS
<1>5. Cardinality(below(j)) <= Cardinality(below(k)) /\ below(j) # below(k)
  BY <1>2, <1>3, <1>4, FS_Subset
<1>6. Cardinality(below(k)) # Cardinality(below(j))
  BY <1>2, <1>3, <1>5, FS_Subset
<1>7. Cardinality(below(j)) \in Nat /\ Cardinality(below(k)) \in Nat
  BY <1>2, FS_CardinalityType
<1> QED
  BY <1>5, <1>6, <1>7

(* The positional labels of a group are all different. *)
LEMMA PositionsDiffer ==
  ASSUME NEW n \in Nat, NEW group \in SUBSET (1..n)
  PROVE  AllDifferent([k \in group |-> Positional(group, k)], group)
<1> SUFFICES ASSUME NEW j \in group, NEW k \in group, j < k
             PROVE  Positional(group, j) # Positional(group, k)
  BY DEF AllDifferent
<1>1. Cardinality({m \in group : m < j}) < Cardinality({m \in group : m < k})
  BY EarlierHasFewerBefore
<1>2. Cardinality({m \in group : m < j}) # Cardinality({m \in group : m < k})
  <2>1. IsFiniteSet(group)
    BY FinitelyMany
  <2>2. IsFiniteSet({m \in group : m < j}) /\ IsFiniteSet({m \in group : m < k})
    BY <2>1, FS_Subset
  <2>3. Cardinality({m \in group : m < j}) \in Nat /\ Cardinality({m \in group : m < k}) \in Nat
    BY <2>2, FS_CardinalityType
  <2> QED
    BY <1>1, <2>3
<1>3. Cardinality({m \in group : m < j}) \in Nat /\ Cardinality({m \in group : m < k}) \in Nat
  BY <1>1, FinitelyMany, FS_Subset, FS_CardinalityType
<1>4. Len(Positional(group, j)) = 1 + Cardinality({m \in group : m < j})
  BY <1>3 DEF Positional
<1>5. Len(Positional(group, k)) = 1 + Cardinality({m \in group : m < k})
  BY <1>3 DEF Positional
<1> QED
  BY <1>2, <1>3, <1>4, <1>5

(* _derive_discriminators labels the variants of an operationId differently, *)
(* whatever tags and paths they have: "unique" in its docstring.             *)
THEOREM DiscriminatorsDiffer ==
  ASSUME NEW ds \in Seq(Declaration), NEW group \in SUBSET (1..Len(ds))
  PROVE  AllDifferent(Discriminators(ds, group), group)
<1>1. Len(ds) \in Nat
  OBVIOUS
<1>2. CASE AllDifferent(Preferred(ds, group), group)
  BY <1>2 DEF Discriminators
<1>3. CASE ~AllDifferent(Preferred(ds, group), group)
  BY <1>1, <1>3, PositionsDiffer DEF Discriminators
<1> QED
  BY <1>2, <1>3

-----------------------------------------------------------------------------
(* Labels and names are texts. *)

Word == Seq(Letter \cup {"_", "variant", "1"})

LEMMA TextIsWord == Text \subseteq Word
BY SeqMonotonic DEF Text, Word

(* The common suffix of the tags is as long as the longest that is shared. *)
LEMMA SuffixLengthType ==
  ASSUME NEW ds \in Seq(Declaration), NEW group \in SUBSET (1..Len(ds)), NEW k \in group
  PROVE  /\ SuffixLength(ds, group, k) \in 0..Len(ds[k].tag)
         /\ SharesSuffix(ds, group, SuffixLength(ds, group, k))
         /\ \A m \in 0..Len(ds[k].tag) :
              SharesSuffix(ds, group, m) => m <= SuffixLength(ds, group, k)
<1> DEFINE L == Len(ds[k].tag)
           shared == {n \in 0..L : SharesSuffix(ds, group, n)}
<1>1. \A j \in group : ds[j].tag \in Seq(Letter)
  <2>1. \A j \in group : ds[j] \in Declaration
    OBVIOUS
  <2> QED
    BY <2>1 DEF Declaration
<1>2. L \in Nat
  BY <1>1
<1>3. SharesSuffix(ds, group, 0)
  BY <1>1 DEF SharesSuffix, Tagged
<1>4. shared # {} /\ shared \in SUBSET (0..L)
  BY <1>2, <1>3
<1>5. \E n \in shared : \A m \in shared : m <= n
  BY <1>2, <1>4, HasGreatest
<1>6. \E n \in 0..L : /\ SharesSuffix(ds, group, n)
                      /\ \A m \in 0..L : SharesSuffix(ds, group, m) => m <= n
  BY <1>5
<1> QED
  BY <1>6 DEF SuffixLength

LEMMA PairIsSeq ==
  ASSUME NEW S, NEW a \in S, NEW b \in S
  PROVE  <<a, b>> \in Seq(S)
OBVIOUS

LEMMA SingleIsSeq ==
  ASSUME NEW S, NEW a \in S
  PROVE  <<a>> \in Seq(S) /\ Len(<<a>>) = 1 /\ <<a>>[1] = a
OBVIOUS

(* _to_snake makes a text of the letters of a tag. *)
LEMMA SnakeType ==
  ASSUME NEW text \in Seq(Letter)
  PROVE  Snake(text) \in Text
<1> DEFINE L == Len(text)
           Longer(n, t) == IF Lower[text[n]] = text[n] THEN Append(t, text[n])
                           ELSE t \o <<"_", Lower[text[n]]>>
           step == [n \in 1..L |-> [t \in Text |-> Longer(n, t)]]
           Snaking(f) == [n \in 0..L |-> IF n = 0 THEN <<>> ELSE Longer(n, f[n - 1])]
           snake == CHOOSE f : f = Snaking(f)
<1>1. L \in Nat /\ <<>> \in Text
  BY DEF Text
<1>2. ASSUME NEW n \in 1..L, NEW t \in Text
      PROVE  Longer(n, t) \in Text
  <2>1. text[n] \in Letter /\ Lower[text[n]] \in Letter
    BY LettersAssumption
  <2>2. t \in Seq(Letter \cup {"_"})
    BY DEF Text
  <2>3. Append(t, text[n]) \in Text /\ t \o <<"_", Lower[text[n]]>> \in Text
    <3>1. Append(t, text[n]) \in Seq(Letter \cup {"_"})
      BY <2>1, <2>2, AppendProperties
    <3>2. <<"_", Lower[text[n]]>> \in Seq(Letter \cup {"_"})
      BY <2>1, PairIsSeq
    <3> QED
      BY <2>2, <3>1, <3>2, ConcatProperties DEF Text
  <2> QED
    BY <2>3
<1>3. step \in [1..L -> [Text -> Text]]
  BY <1>2
<1>4. PICK f \in [0..L -> Text] : f[0] = <<>> /\ \A n \in 1..L : f[n] = step[n][f[n - 1]]
  <2> HIDE DEF step, L
  <2>1. Recursions(Text, L, <<>>, step) # {}
    BY <1>1, <1>3, PrefixRecursion
  <2> QED
    BY <2>1 DEF Recursions
<1>5. f = Snaking(f)
  <2> HIDE DEF Longer
  <2>1. \A n \in 1..L : f[n - 1] \in Text /\ f[n] = Longer(n, f[n - 1])
    <3> TAKE n \in 1..L
    <3>1. f[n - 1] \in Text
      BY <1>1
    <3>2. step[n][f[n - 1]] = Longer(n, f[n - 1])
      BY <3>1
    <3> QED
      BY <1>4, <3>1, <3>2
  <2> QED
    BY <1>1, <1>4, <2>1
<1>6. snake = Snaking(snake)
  BY <1>5
<1> HIDE DEF snake, Longer
<1>7. snake[0] \in Text /\ \A n \in 1..L : snake[n - 1] \in Text => snake[n] \in Text
  BY <1>1, <1>2, <1>6
<1>8. \A n \in 0..L : snake[n] \in Text
  BY <1>1, <1>7, PrefixInduction
<1>9. snake[L] \in Text
  BY <1>1, <1>8
<1>10. snake[L] # <<>> => Tail(snake[L]) \in Text
  BY <1>9, HeadTailProperties DEF Text
<1> QED
  BY <1>9, <1>10 DEF Snake, snake, Longer

LEMMA DeclarationType ==
  ASSUME NEW ds \in Seq(Declaration), NEW k \in 1..Len(ds)
  PROVE  /\ ds[k] \in Declaration /\ ds[k].id \in Text /\ ds[k].tag \in Seq(Letter)
         /\ ds[k].path \in SUBSET Letter
<1>1. ds[k] \in Declaration
  OBVIOUS
<1> QED
  BY <1>1 DEF Declaration

LEMMA TagLabelType ==
  ASSUME NEW ds \in Seq(Declaration), NEW group \in SUBSET (1..Len(ds)), NEW k \in group
  PROVE  TagLabel(ds, group, k) \in Text
<1> DEFINE tag == ds[k].tag
           kept == Len(tag) - SuffixLength(ds, group, k)
<1>1. tag \in Seq(Letter)
  BY DeclarationType
<1>2. kept \in 0..Len(tag)
  BY <1>1, SuffixLengthType
<1>3. SubSeq(tag, 1, kept) \in Seq(Letter)
  <2>1. \A n \in 1..kept : tag[n] \in Letter
    BY <1>1, <1>2
  <2> QED
    BY <1>2, <2>1, SubSeqProperties
<1>4. Snake(SubSeq(tag, 1, kept)) \in Text
  BY <1>3, SnakeType
<1>5. <<>> \in Text
  BY DEF Text
<1> QED
  BY <1>4, <1>5 DEF TagLabel

LEMMA FirstOfType ==
  ASSUME NEW segments \in SUBSET Letter
  PROVE  FirstOf(segments) \in Text
<1> DEFINE places == {n \in DOMAIN Letters : Letters[n] \in segments}
<1>1. DOMAIN Letters \subseteq Nat
  BY LettersAssumption
<1>2. CASE segments = {}
  BY <1>2 DEF FirstOf, Text
<1>3. CASE segments # {}
  <2>1. places # {} /\ places \in SUBSET Nat
    BY <1>1, <1>3 DEF Letter
  <2>2. \E n \in places : \A m \in places : n <= m
    BY <2>1, HasLeast
  <2> DEFINE first == CHOOSE n \in DOMAIN Letters :
                        /\ Letters[n] \in segments
                        /\ \A m \in DOMAIN Letters : Letters[m] \in segments => n <= m
  <2>3. first \in DOMAIN Letters /\ Letters[first] \in segments
    BY <2>2
  <2>4. Letters[first] \in Letter \cup {"_"}
    BY <2>3
  <2> HIDE DEF first
  <2>5. <<Letters[first]>> \in Seq(Letter \cup {"_"})
    BY <2>4, SingleIsSeq
  <2> QED
    BY <1>3, <2>5 DEF FirstOf, Text, first
<1> QED
  BY <1>2, <1>3

LEMMA PathLabelType ==
  ASSUME NEW ds \in Seq(Declaration), NEW group \in SUBSET (1..Len(ds)), NEW k \in group
  PROVE  PathLabel(ds, group, k) \in Text
<1>1. {s \in ds[k].path : \E j \in group : s \notin ds[j].path} \in SUBSET Letter
  BY DeclarationType
<1> QED
  BY <1>1, FirstOfType DEF PathLabel

LEMMA PositionalType ==
  ASSUME NEW n \in Nat, NEW group \in SUBSET (1..n), NEW k \in group
  PROVE  /\ Positional(group, k) \in Word
         /\ Len(Positional(group, k)) >= 1 /\ Positional(group, k)[1] = "variant"
<1> DEFINE before == Cardinality({j \in group : j < k})
           strokes == [m \in 1..before |-> "1"]
           Mark == Letter \cup {"_", "variant", "1"}
<1>1. before \in Nat
  BY FinitelyMany, FS_Subset, FS_CardinalityType
<1>2. "1" \in Mark /\ "variant" \in Mark
  OBVIOUS
<1> HIDE DEF Mark, before
<1>3. strokes \in Seq(Mark) /\ Len(strokes) = before
  BY <1>1, <1>2
<1>4. <<"variant">> \in Seq(Mark) /\ Len(<<"variant">>) = 1 /\ <<"variant">>[1] = "variant"
  BY <1>2, SingleIsSeq
<1>5. /\ <<"variant">> \o strokes \in Seq(Mark) /\ Len(<<"variant">> \o strokes) = 1 + before
      /\ (<<"variant">> \o strokes)[1] = "variant"
  <2> DEFINE v == <<"variant">>
  <2>1. 1 \in 1..(Len(v) + Len(strokes)) /\ 1 <= Len(v)
    BY <1>1, <1>3, <1>4
  <2> HIDE DEF v, strokes
  <2>2. v \o strokes \in Seq(Mark) /\ Len(v \o strokes) = Len(v) + Len(strokes)
        /\ (v \o strokes)[1] = v[1]
    BY <1>3, <1>4, <2>1, ConcatProperties DEF v
  <2> QED
    BY <1>3, <1>4, <2>2 DEF v
<1>6. Positional(group, k) = <<"variant">> \o strokes
  BY DEF Positional, before
<1> HIDE DEF strokes
<1>7. Positional(group, k) \in Seq(Mark)
  BY <1>5, <1>6
<1>8. Len(Positional(group, k)) >= 1
  BY <1>1, <1>5, <1>6
<1>9. Positional(group, k)[1] = "variant"
  BY <1>5, <1>6
<1> QED
  BY <1>7, <1>8, <1>9 DEF Word, Mark

LEMMA PreferredType ==
  ASSUME NEW ds \in Seq(Declaration), NEW group \in SUBSET (1..Len(ds)), NEW k \in group
  PROVE  Preferred(ds, group)[k] \in Word
<1>1. Len(ds) \in Nat
  OBVIOUS
<1>2. TagLabel(ds, group, k) \in Word /\ PathLabel(ds, group, k) \in Word
  BY TagLabelType, PathLabelType, TextIsWord
<1>3. Positional(group, k) \in Word
  BY <1>1, PositionalType
<1> QED
  BY <1>2, <1>3 DEF Preferred

(* Every variant has a label, made of letters, the underscore and a number. *)
LEMMA DiscriminatorType ==
  ASSUME NEW ds \in Seq(Declaration), NEW group \in SUBSET (1..Len(ds)), NEW k \in group
  PROVE  Discriminators(ds, group)[k] \in Word
<1>1. Positional(group, k) \in Word
  <2>1. Len(ds) \in Nat
    OBVIOUS
  <2> QED
    BY <2>1, PositionalType
<1> QED
  BY <1>1, PreferredType DEF Discriminators

LEMMA GroupType ==
  ASSUME NEW ds \in Seq(Declaration), NEW k \in 1..Len(ds)
  PROVE  /\ Group(ds, k) \in SUBSET (1..Len(ds)) /\ k \in Group(ds, k)
         /\ \A j \in 1..Len(ds) : ds[j].id = ds[k].id =>
              Group(ds, j) = Group(ds, k) /\ j \in Group(ds, k)
BY DEF Group

LEMMA IdType ==
  ASSUME NEW ds \in Seq(Declaration), NEW k \in 1..Len(ds)
  PROVE  ds[k].id \in Word
BY DeclarationType, TextIsWord

(* What comes before the same ending is the same, if the whole is. *)
LEMMA SameEnding ==
  ASSUME NEW s \in Word, NEW t \in Word, NEW id \in Word,
         s \o <<"_">> \o id = t \o <<"_">> \o id
  PROVE  s = t
<1> DEFINE bar == <<"_">>
<1>1. bar \in Word
  BY SingleIsSeq DEF Word
<1> HIDE DEF bar
<1>2. s \o bar \in Word /\ t \o bar \in Word
  BY <1>1, ConcatProperties DEF Word
<1>3. (s \o bar) \o id = (t \o bar) \o id
  BY DEF bar
<1>4. s \o bar = t \o bar
  BY <1>2, <1>3, ConcatSimplifications DEF Word
<1> QED
  BY <1>1, <1>4, ConcatSimplifications DEF Word

(* resolve_collisions gives the variants of an operationId different names. *)
LEMMA NamesDiffer ==
  ASSUME NEW ds \in Seq(Declaration), NEW j \in 1..Len(ds), NEW k \in 1..Len(ds),
         ds[j].id = ds[k].id, RegisteredName(ds, j) = RegisteredName(ds, k)
  PROVE  j = k
<1> DEFINE group == Group(ds, k)
           Label(m) == Discriminators(ds, group)[m]
<1>1. group \in SUBSET (1..Len(ds)) /\ j \in group /\ k \in group /\ Group(ds, j) = group
  BY GroupType
<1>2. CASE group = {k}
  BY <1>1, <1>2
<1>3. CASE group # {k}
  <2>1. group # {j}
    BY <1>1, <1>3
  <2>2. RegisteredName(ds, j) = Label(j) \o <<"_">> \o ds[k].id
    BY <1>1, <2>1 DEF RegisteredName
  <2>3. RegisteredName(ds, k) = Label(k) \o <<"_">> \o ds[k].id
    BY <1>3 DEF RegisteredName
  <2>4. ds[k].id \in Word /\ Label(j) \in Word /\ Label(k) \in Word
    BY <1>1, IdType, DiscriminatorType
  <2>5. Label(j) = Label(k)
    BY <2>2, <2>3, <2>4, SameEnding
  <2> QED
    BY <1>1, <2>5, DiscriminatorsDiffer DEF AllDifferent
<1> QED
  BY <1>2, <1>3

-----------------------------------------------------------------------------
(* An id without an underscore can be read back from the name. *)

LEMMA WordLength ==
  ASSUME NEW word \in Word
  PROVE  Len(word) \in Nat
<1> DEFINE S == Letter \cup {"_", "variant", "1"}
<1>1. word \in Seq(S)
  BY DEF Word
<1> HIDE DEF S
<1> QED
  BY <1>1, LenProperties

Joined(label, id) == label \o <<"_">> \o id

Plain(id) == \A n \in 1..Len(id) : id[n] # "_"

LEMMA ConcatAround ==
  ASSUME NEW S, NEW label \in Seq(S), NEW bar \in Seq(S), NEW id \in Seq(S), Len(bar) = 1
  PROVE  /\ Len(label \o bar \o id) = Len(label) + 1 + Len(id)
         /\ (label \o bar \o id)[Len(label) + 1] = bar[1]
         /\ \A n \in 1..Len(id) : (label \o bar \o id)[Len(label) + 1 + n] = id[n]
<1> DEFINE front == label \o bar
           whole == front \o id
           L == Len(label)
           I == Len(id)
<1>1. L \in Nat /\ I \in Nat
  BY LenProperties
<1>2. front \in Seq(S) /\ Len(front) = L + 1
  <2>1. front \in Seq(S) /\ Len(front) = L + Len(bar)
    BY ConcatProperties
  <2> QED
    BY <2>1
<1>3. front[L + 1] = bar[1]
  <2>1. L + 1 \in 1..(L + Len(bar)) /\ ~(L + 1 <= L) /\ L + 1 - L = 1
    BY <1>1
  <2>2. front[L + 1] = IF L + 1 <= L THEN label[L + 1] ELSE bar[L + 1 - L]
    BY <2>1, ConcatProperties
  <2> QED
    BY <2>1, <2>2
<1> HIDE DEF front
<1>4. whole \in Seq(S) /\ Len(whole) = L + 1 + I
  <2>1. whole \in Seq(S) /\ Len(whole) = Len(front) + I
    BY <1>2, ConcatProperties
  <2> QED
    BY <1>2, <2>1
<1>5. ASSUME NEW m \in 1..(L + 1 + I)
      PROVE  whole[m] = IF m <= L + 1 THEN front[m] ELSE id[m - (L + 1)]
  BY <1>2, ConcatProperties
<1> HIDE DEF whole
<1>6. whole[L + 1] = bar[1]
  <2>1. L + 1 \in 1..(L + 1 + I) /\ L + 1 <= L + 1
    BY <1>1
  <2> QED
    BY <1>3, <1>5, <2>1
<1>7. ASSUME NEW n \in 1..I
       PROVE  whole[L + 1 + n] = id[n]
  <2>1. /\ L + 1 + n \in 1..(L + 1 + I) /\ ~(L + 1 + n <= L + 1)
        /\ L + 1 + n - (L + 1) = n
    BY <1>1
  <2>2. whole[L + 1 + n] = id[L + 1 + n - (L + 1)]
    BY <1>5, <2>1
  <2> QED
    BY <2>1, <2>2
<1> QED
  BY <1>4, <1>6, <1>7 DEF whole, front

LEMMA JoinedAt ==
  ASSUME NEW label \in Word, NEW id \in Word
  PROVE  /\ Len(Joined(label, id)) = Len(label) + 1 + Len(id)
         /\ Joined(label, id)[Len(label) + 1] = "_"
         /\ \A n \in 1..Len(id) : Joined(label, id)[Len(label) + 1 + n] = id[n]
<1> DEFINE S == Letter \cup {"_", "variant", "1"}
           bar == <<"_">>
<1>1. "_" \in S
  OBVIOUS
<1>2. label \in Seq(S) /\ id \in Seq(S)
  BY DEF Word
<1> HIDE DEF S
<1>3. bar \in Seq(S) /\ Len(bar) = 1
  BY <1>1, SingleIsSeq
<1>4. bar[1] = "_"
  OBVIOUS
<1>5. Joined(label, id) = label \o bar \o id
  BY DEF Joined
<1> HIDE DEF bar
<1>6. /\ Len(label \o bar \o id) = Len(label) + 1 + Len(id)
      /\ (label \o bar \o id)[Len(label) + 1] = bar[1]
      /\ \A n \in 1..Len(id) : (label \o bar \o id)[Len(label) + 1 + n] = id[n]
  BY <1>2, <1>3, ConcatAround
<1> QED
  BY <1>4, <1>5, <1>6

(* A joined name has an underscore, where the id has none. *)
LEMMA JoinedIsNotPlain ==
  ASSUME NEW label \in Word, NEW id \in Word
  PROVE  ~Plain(Joined(label, id))
<1>1. Len(label) \in Nat /\ Len(id) \in Nat
  BY WordLength
<1>2. Len(Joined(label, id)) = Len(label) + 1 + Len(id)
  BY JoinedAt
<1>3. Len(label) + 1 \in 1..Len(Joined(label, id))
  BY <1>1, <1>2
<1> QED
  BY <1>3, JoinedAt DEF Plain

(* The last underscore of a joined name is the one that joins it. *)
LEMMA NotLonger ==
  ASSUME NEW s \in Word, NEW t \in Word, NEW i \in Word, NEW j \in Word, Plain(j),
         Joined(s, i) = Joined(t, j)
  PROVE  Len(j) <= Len(i)
<1>1. Len(s) \in Nat /\ Len(t) \in Nat /\ Len(i) \in Nat /\ Len(j) \in Nat
  BY WordLength
<1>2. Len(s) + 1 + Len(i) = Len(t) + 1 + Len(j)
  <2>1. Len(Joined(s, i)) = Len(s) + 1 + Len(i)
    BY JoinedAt
  <2>2. Len(Joined(t, j)) = Len(t) + 1 + Len(j)
    BY JoinedAt
  <2> QED
    BY <2>1, <2>2
<1> SUFFICES ASSUME Len(i) < Len(j) PROVE FALSE
  BY <1>1
<1> DEFINE n == Len(j) - Len(i)
<1>3. n \in 1..Len(j) /\ Len(t) + 1 + n = Len(s) + 1
  BY <1>1, <1>2
<1>4. Joined(t, j)[Len(t) + 1 + n] = j[n] /\ Joined(s, i)[Len(s) + 1] = "_"
  BY <1>3, JoinedAt
<1> QED
  BY <1>3, <1>4 DEF Plain

LEMMA SameId ==
  ASSUME NEW s \in Word, NEW t \in Word, NEW i \in Word, NEW j \in Word,
         Plain(i), Plain(j), Joined(s, i) = Joined(t, j)
  PROVE  i = j
<1>1. Len(s) \in Nat /\ Len(t) \in Nat /\ Len(i) \in Nat /\ Len(j) \in Nat
  BY WordLength
<1>2. Len(i) = Len(j)
  BY <1>1, NotLonger
<1>3. Len(s) = Len(t)
  <2>1. Len(Joined(s, i)) = Len(s) + 1 + Len(i)
    BY JoinedAt
  <2>2. Len(Joined(t, j)) = Len(t) + 1 + Len(j)
    BY JoinedAt
  <2> QED
    BY <1>1, <1>2, <2>1, <2>2
<1>4. \A n \in 1..Len(i) : i[n] = j[n]
  <2> TAKE n \in 1..Len(i)
  <2>1. Joined(s, i)[Len(s) + 1 + n] = i[n]
    BY JoinedAt
  <2>2. n \in 1..Len(j)
    BY <1>2
  <2>3. Joined(t, j)[Len(t) + 1 + n] = j[n]
    BY <2>2, JoinedAt
  <2> QED
    BY <1>3, <2>1, <2>3
<1> QED
  BY <1>2, <1>4, SeqEqual DEF Word

(* Within a document whose ids have no underscore, the name tells the id. *)
LEMMA NameTellsId ==
  ASSUME NEW ds \in Seq(Declaration), NEW j \in 1..Len(ds), NEW k \in 1..Len(ds),
         Plain(ds[j].id), Plain(ds[k].id), RegisteredName(ds, j) = RegisteredName(ds, k)
  PROVE  ds[j].id = ds[k].id
<1> DEFINE Label(m) == Discriminators(ds, Group(ds, m))[m]
<1>1. ASSUME NEW m \in 1..Len(ds)
      PROVE  /\ Label(m) \in Word /\ ds[m].id \in Word
             /\ RegisteredName(ds, m) = ds[m].id
                \/ RegisteredName(ds, m) = Joined(Label(m), ds[m].id)
  <2>1. Group(ds, m) \in SUBSET (1..Len(ds)) /\ m \in Group(ds, m)
    BY GroupType
  <2>2. Label(m) \in Word /\ ds[m].id \in Word
    BY <2>1, DiscriminatorType, IdType
  <2> QED
    BY <2>2 DEF RegisteredName, Joined
<1> HIDE DEF Label
<1>2. CASE RegisteredName(ds, j) = ds[j].id /\ RegisteredName(ds, k) = ds[k].id
  BY <1>2
<1>3. CASE RegisteredName(ds, j) = ds[j].id /\ RegisteredName(ds, k) = Joined(Label(k), ds[k].id)
  BY <1>1, <1>3, JoinedIsNotPlain
<1>4. CASE RegisteredName(ds, j) = Joined(Label(j), ds[j].id) /\ RegisteredName(ds, k) = ds[k].id
  BY <1>1, <1>4, JoinedIsNotPlain
<1>5. CASE /\ RegisteredName(ds, j) = Joined(Label(j), ds[j].id)
           /\ RegisteredName(ds, k) = Joined(Label(k), ds[k].id)
  BY <1>1, <1>5, SameId
<1> QED
  BY <1>1, <1>2, <1>3, <1>4, <1>5

-----------------------------------------------------------------------------
(* The inductive invariant: the list is what the documents parsed so far    *)
(* make of their declarations, each declaration once, and no schema is older *)
(* than a document that defines it.                                          *)

Listed ==
  [namespace : Namespaces, file : Nat, at : Nat, id : Text, name : Word]

Parsed(f, k) == f \in 1..(file - 1) /\ k \in 1..Len(directory[f].declares)

Origin ==
  /\ operations \in Seq(Listed)
  /\ \A n \in 1..Len(operations) :
       /\ Parsed(operations[n].file, operations[n].at)
       /\ operations[n] = Named(operations[n].file)[operations[n].at]

Once ==
  \A m, n \in 1..Len(operations) :
    operations[m].file = operations[n].file /\ operations[m].at = operations[n].at => m = n

IInv == TypeOK /\ Origin /\ Once

LEMMA DocumentType ==
  ASSUME directory \in Directories, NEW f \in 1..Len(directory)
  PROVE  /\ directory[f].namespace \in Namespaces
         /\ directory[f].declares \in Seq(Declaration)
         /\ directory[f].schemas \in SUBSET SchemaNames
<1> DEFINE Document ==
      [namespace : Namespaces, declares : Seq(Declaration), schemas : SUBSET SchemaNames]
<1>1. directory \in Seq(Document)
  BY DirectoriesAssumption
<1> HIDE DEF Document
<1>2. directory[f] \in Document
  BY <1>1
<1> QED
  BY <1>2 DEF Document

LEMMA NameType ==
  ASSUME NEW ds \in Seq(Declaration), NEW k \in 1..Len(ds)
  PROVE  RegisteredName(ds, k) \in Word
<1> DEFINE label == Discriminators(ds, Group(ds, k))[k]
           bar == <<"_">>
<1>1. label \in Word /\ ds[k].id \in Word
  BY GroupType, DiscriminatorType, IdType
<1>2. bar \in Word
  BY SingleIsSeq DEF Word
<1> HIDE DEF label, bar
<1>3. label \o bar \in Word
  BY <1>1, <1>2, ConcatProperties DEF Word
<1>4. label \o bar \o ds[k].id \in Word
  BY <1>1, <1>3, ConcatProperties DEF Word
<1> QED
  BY <1>1, <1>4 DEF RegisteredName, label, bar

LEMMA NamedType ==
  ASSUME directory \in Directories, NEW f \in 1..Len(directory), f \in Nat
  PROVE  /\ Named(f) \in Seq(Listed)
         /\ Len(Named(f)) = Len(directory[f].declares)
         /\ \A k \in 1..Len(Named(f)) : Named(f)[k].file = f /\ Named(f)[k].at = k
<1> DEFINE ds == directory[f].declares
           Entry(k) == [namespace |-> directory[f].namespace, file |-> f, at |-> k,
                        id |-> ds[k].id, name |-> RegisteredName(ds, k)]
<1>1. directory[f].namespace \in Namespaces /\ ds \in Seq(Declaration)
  BY DocumentType
<1>2. ASSUME NEW k \in 1..Len(ds)
      PROVE  Entry(k) \in Listed /\ Entry(k).file = f /\ Entry(k).at = k
  <2>1. ds[k].id \in Text /\ RegisteredName(ds, k) \in Word
    BY <1>1, DeclarationType, NameType
  <2> QED
    BY <1>1, <2>1 DEF Listed
<1>3. Named(f) = [k \in 1..Len(ds) |-> Entry(k)]
  BY DEF Named
<1>4. Len(ds) \in Nat
  BY <1>1
<1> HIDE DEF Entry, ds
<1>5. Named(f) \in [1..Len(ds) -> Listed]
  BY <1>2, <1>3
<1>6. Named(f) \in Seq(Listed) /\ Len(Named(f)) = Len(ds)
  BY <1>4, <1>5, LenProperties
<1> QED
  BY <1>2, <1>3, <1>6 DEF ds

LEMMA InitEstablishes == Init => IInv
<1> SUFFICES ASSUME Init PROVE IInv
  OBVIOUS
<1>1. directory \in Directories /\ file = 1 /\ operations = <<>>
      /\ schemas = [n \in SchemaNames |-> 0]
  BY DEF Init
<1>2. Len(directory) \in Nat
  BY <1>1, DirectoriesAssumption
<1>3. Len(operations) = 0 /\ operations \in Seq(Listed)
  BY <1>1, EmptySeq
<1>4. schemas \in [SchemaNames -> 0..(file - 1)]
  BY <1>1
<1> QED
  BY <1>1, <1>2, <1>3, <1>4 DEF IInv, TypeOK, Origin, Once

(* Loading leaves what was listed in its place and adds the next document. *)
LEMMA LoadedList ==
  ASSUME IInv, LoadFile
  PROVE  /\ Len(operations) \in Nat /\ Len(Named(file)) \in Nat
         /\ operations' \in Seq(Listed)
         /\ Len(operations') = Len(operations) + Len(Named(file))
         /\ \A n \in 1..Len(operations) : operations'[n] = operations[n]
         /\ \A n \in (Len(operations) + 1)..Len(operations') :
              n - Len(operations) \in 1..Len(Named(file))
              /\ operations'[n] = Named(file)[n - Len(operations)]
<1> DEFINE old == operations
           new == Named(file)
<1>1. directory \in Directories /\ file \in 1..Len(directory) /\ file \in Nat
  <2>1. directory \in Directories /\ file \in 1..(Len(directory) + 1) /\ file <= Len(directory)
    BY DEF IInv, TypeOK, LoadFile
  <2>2. Len(directory) \in Nat
    BY <2>1, DirectoriesAssumption
  <2> QED
    BY <2>1, <2>2
<1>2. old \in Seq(Listed) /\ new \in Seq(Listed)
  BY <1>1, NamedType DEF IInv, Origin
<1>3. operations' = old \o new
  BY DEF LoadFile
<1> HIDE DEF old, new
<1>4. Len(old) \in Nat /\ Len(new) \in Nat
  BY <1>2, LenProperties
<1>5. /\ old \o new \in Seq(Listed) /\ Len(old \o new) = Len(old) + Len(new)
      /\ \A n \in 1..(Len(old) + Len(new)) :
           (old \o new)[n] = IF n <= Len(old) THEN old[n] ELSE new[n - Len(old)]
  BY <1>2, ConcatProperties
<1>6. \A n \in 1..Len(old) : n \in 1..(Len(old) + Len(new)) /\ n <= Len(old)
  BY <1>4
<1>7. \A n \in (Len(old) + 1)..(Len(old) + Len(new)) :
        n \in 1..(Len(old) + Len(new)) /\ ~(n <= Len(old)) /\ n - Len(old) \in 1..Len(new)
  BY <1>4
<1>8. /\ Len(old \o new) = Len(old) + Len(new)
      /\ \A n \in 1..Len(old) : (old \o new)[n] = old[n]
      /\ \A n \in (Len(old) + 1)..Len(old \o new) :
           n - Len(old) \in 1..Len(new) /\ (old \o new)[n] = new[n - Len(old)]
  BY <1>5, <1>6, <1>7
<1> QED
  BY <1>3, <1>4, <1>5, <1>8 DEF old, new

LEMMA LoadFilePreserves ==
  ASSUME IInv, LoadFile
  PROVE  IInv'
<1> DEFINE L == Len(operations)
           f == file
<1>1. directory \in Directories /\ file \in 1..(Len(directory) + 1) /\ file <= Len(directory)
      /\ directory' = directory /\ file' = file + 1 /\ schemas' = Updated(file)
      /\ schemas \in [SchemaNames -> 0..(file - 1)]
  BY DEF IInv, TypeOK, LoadFile
<1>2. Len(directory) \in Nat
  BY <1>1, DirectoriesAssumption
<1>3. file \in 1..Len(directory) /\ file \in Nat /\ file' - 1 = file
      /\ file' \in 1..(Len(directory) + 1)
  BY <1>1, <1>2
<1>4. directory[file].schemas \in SUBSET SchemaNames
  BY <1>1, <1>3, DocumentType
<1>5. schemas' \in [SchemaNames -> 0..(file' - 1)]
  <2>1. \A n \in SchemaNames : schemas[n] \in 0..file /\ file \in 0..file
    BY <1>1, <1>3
  <2> QED
    BY <1>1, <1>3, <2>1 DEF Updated
<1>6. \A n \in 1..Len(operations') :
        \/ n \in 1..L /\ operations'[n] = operations[n]
        \/ /\ n \in (L + 1)..Len(operations') /\ n - L \in 1..Len(Named(file))
           /\ operations'[n] = Named(file)[n - L]
  <2>1. \A n \in 1..Len(operations') : n \in 1..L \/ n \in (L + 1)..Len(operations')
    BY LoadedList
  <2> QED
    BY <2>1, LoadedList
<1>7. /\ Len(Named(file)) = Len(directory[file].declares)
      /\ \A k \in 1..Len(Named(file)) : Named(file)[k].file = file /\ Named(file)[k].at = k
  BY <1>1, <1>3, NamedType
<1>8. Origin'
  <2>1. \A g : Named(g)' = Named(g)
    BY <1>1 DEF Named
  <2>2. ASSUME NEW n \in 1..Len(operations')
        PROVE  /\ operations'[n].file \in 1..file
               /\ operations'[n].at \in 1..Len(directory[operations'[n].file].declares)
               /\ operations'[n] = Named(operations'[n].file)[operations'[n].at]
    <3>1. CASE n \in 1..L /\ operations'[n] = operations[n]
      <4>1. Parsed(operations[n].file, operations[n].at)
            /\ operations[n] = Named(operations[n].file)[operations[n].at]
        BY <3>1 DEF IInv, Origin
      <4>2. \A g \in 1..(file - 1) : g \in 1..file
        BY <1>3
      <4> QED
        BY <3>1, <4>1, <4>2 DEF Parsed
    <3>2. CASE n - L \in 1..Len(Named(file)) /\ operations'[n] = Named(file)[n - L]
      <4> DEFINE k == n - L
      <4>1. k \in 1..Len(Named(file)) /\ operations'[n] = Named(file)[k]
        BY <3>2
      <4> HIDE DEF k
      <4>2. operations'[n].file = file /\ operations'[n].at = k
        BY <4>1, <1>7
      <4>3. file \in 1..file
        BY <1>3
      <4>4. k \in 1..Len(directory[file].declares)
        BY <4>1, <1>7
      <4> QED
        BY <4>1, <4>2, <4>3, <4>4
    <3> QED
      BY <1>6, <3>1, <3>2
  <2>3. operations' \in Seq(Listed)
    BY LoadedList
  <2>4. \A n \in 1..Len(operations') :
          /\ operations'[n].file \in 1..(file' - 1)
          /\ operations'[n].at \in 1..Len(directory'[operations'[n].file].declares)
          /\ operations'[n] = (Named(operations[n].file)[operations[n].at])'
    BY <1>1, <1>3, <2>2 DEF Named
  <2> QED
    BY <2>3, <2>4 DEF Origin, Parsed
<1>9. TypeOK'
  <2>1. ASSUME NEW n \in 1..Len(operations')
        PROVE  operations'[n].namespace \in Namespaces /\ operations'[n].id \in Text
    <3>1. operations'[n] \in Listed
      BY LoadedList, ElementOfSeq
    <3> QED
      BY <3>1 DEF Listed
  <2> QED
    BY <1>1, <1>3, <1>5, <1>8, <2>1 DEF TypeOK, Origin, Parsed
<1>10. Once'
  <2> SUFFICES ASSUME NEW m \in 1..Len(operations'), NEW n \in 1..Len(operations'),
                      operations'[m].file = operations'[n].file,
                      operations'[m].at = operations'[n].at
               PROVE  m = n
    BY DEF Once
  <2> DEFINE Old(x) == x \in 1..L /\ operations'[x] = operations[x]
             New(x) == /\ x \in (L + 1)..Len(operations') /\ x - L \in 1..Len(Named(file))
                       /\ operations'[x] = Named(file)[x - L]
  <2>1. \A x \in {m, n} : Old(x) => operations'[x].file # file
    <3>1. \A x \in 1..L : operations[x].file \in 1..(file - 1)
      BY DEF IInv, Origin, Parsed
    <3>2. \A g \in 1..(file - 1) : g # file
      BY <1>3
    <3> QED
      BY <3>1, <3>2
  <2>2. \A x \in {m, n} : New(x) => operations'[x].file = file /\ operations'[x].at = x - L
    BY <1>7
  <2>3. Old(m) /\ Old(n) => m = n
    BY DEF IInv, Once
  <2>4. New(m) /\ New(n) => m = n
    <3>1. m \in Nat /\ n \in Nat /\ L \in Nat
      BY LoadedList
    <3> HIDE DEF New, L
    <3>2. New(m) /\ New(n) => m - L = n - L
      BY <2>2
    <3> QED
      BY <3>1, <3>2
  <2>5. (Old(m) \/ New(m)) /\ (Old(n) \/ New(n))
    BY <1>6
  <2> HIDE DEF Old, New
  <2> QED
    BY <2>1, <2>2, <2>3, <2>4, <2>5
<1> QED
  BY <1>8, <1>9, <1>10 DEF IInv

LEMMA StutterPreserves ==
  ASSUME IInv, UNCHANGED vars
  PROVE  IInv'
<1>1. \A g : Named(g)' = Named(g)
  BY DEF Named, vars
<1> QED
  BY <1>1 DEF IInv, TypeOK, Origin, Once, Parsed, vars

(* Whatever the documents, the list and the schemas are made of those that  *)
(* were parsed, in their order.                                              *)
THEOREM Invariance == Spec => []IInv
<1>1. IInv /\ [Next]_vars => IInv'
  <2> SUFFICES ASSUME IInv, [Next]_vars PROVE IInv'
    OBVIOUS
  <2>1. CASE LoadFile
    BY <2>1, LoadFilePreserves
  <2>2. CASE Serve
    BY <2>2, StutterPreserves DEF Serve
  <2>3. CASE UNCHANGED vars
    BY <2>3, StutterPreserves
  <2> QED
    BY <2>1, <2>2, <2>3 DEF Next
<1> QED
  BY <1>1, InitEstablishes, PTL DEF Spec

-----------------------------------------------------------------------------
(* What follows from it. *)

(* Every listed operation is one of a document already parsed, in a namespace *)
(* there is, and every schema has come from such a document.                  *)
THEOREM TypeCorrect == Spec => []TypeOK
<1>1. IInv => TypeOK
  BY DEF IInv
<1> QED
  BY <1>1, Invariance, PTL

(* What the list has of an operation, in terms of its declaration. *)
LEMMA ListedAsDeclared ==
  ASSUME IInv, NEW n \in 1..Len(operations)
  PROVE  LET o  == operations[n]
             ds == directory[o.file].declares
         IN  /\ o.file \in 1..Len(directory) /\ o.file \in 1..(file - 1) /\ o.file \in Nat
             /\ ds \in Seq(Declaration) /\ o.at \in 1..Len(ds)
             /\ o.namespace = directory[o.file].namespace
             /\ o.id = ds[o.at].id /\ o.name = RegisteredName(ds, o.at)
<1> DEFINE f == operations[n].file
           k == operations[n].at
<1>1. f \in 1..(file - 1) /\ k \in 1..Len(directory[f].declares) /\ operations[n] = Named(f)[k]
  BY DEF IInv, Origin, Parsed
<1>2. directory \in Directories /\ file \in 1..(Len(directory) + 1)
  BY DEF IInv, TypeOK
<1>3. Len(directory) \in Nat
  BY <1>2, DirectoriesAssumption
<1> HIDE DEF f, k
<1>4. f \in 1..Len(directory) /\ f \in Nat
  BY <1>1, <1>2, <1>3
<1>5. directory[f].declares \in Seq(Declaration)
  BY <1>2, <1>4, DocumentType
<1>6. /\ Named(f)[k].namespace = directory[f].namespace
      /\ Named(f)[k].id = directory[f].declares[k].id
      /\ Named(f)[k].name = RegisteredName(directory[f].declares, k)
  BY <1>1 DEF Named
<1> QED
  BY <1>1, <1>4, <1>5, <1>6 DEF f, k

(* Two operations with one operationId in one file never have one name,      *)
(* whatever the tags, the paths and their number.                            *)
THEOREM Distinguished == Spec => []VariantsAreDistinguished
<1>1. IInv => VariantsAreDistinguished
  <2> SUFFICES ASSUME IInv, NEW m \in 1..Len(operations), NEW n \in 1..Len(operations),
                      operations[m].file = operations[n].file,
                      operations[m].id = operations[n].id,
                      operations[m].name = operations[n].name
               PROVE  m = n
    BY DEF VariantsAreDistinguished
  <2> DEFINE ds == directory[operations[n].file].declares
             j == operations[m].at
             k == operations[n].at
  <2>1. /\ ds \in Seq(Declaration) /\ j \in 1..Len(ds) /\ k \in 1..Len(ds)
        /\ ds[j].id = ds[k].id /\ RegisteredName(ds, j) = RegisteredName(ds, k)
    BY ListedAsDeclared
  <2>2. j = k
    BY <2>1, NamesDiffer
  <2> QED
    BY <2>2 DEF IInv, Once
<1> QED
  BY <1>1, Invariance, PTL

(* Any listed operation is the one that is executed under its namespace and  *)
(* its name, when each namespace has one file and no id has an underscore.   *)
THEOREM Reached == Spec => []ListedOperationsAreReached
<1>1. IInv => ListedOperationsAreReached
  <2> SUFFICES ASSUME IInv, OneFileEach, PlainIds, NEW n \in 1..Len(operations)
               PROVE  Executes(operations[n].namespace, operations[n].name) = n
    BY DEF ListedOperationsAreReached
  <2> DEFINE f == operations[n].file
             ds == directory[f].declares
             k == operations[n].at
  <2>1. ASSUME NEW m \in 1..Len(operations),
               operations[m].namespace = operations[n].namespace,
               operations[m].name = operations[n].name
        PROVE  m = n
    <3> DEFINE j == operations[m].at
    <3>1. operations[m].file = f
      BY <2>1, ListedAsDeclared DEF OneFileEach
    <3>2. /\ ds \in Seq(Declaration) /\ j \in 1..Len(ds) /\ k \in 1..Len(ds)
          /\ f \in 1..Len(directory)
          /\ RegisteredName(ds, j) = RegisteredName(ds, k)
      BY <2>1, <3>1, ListedAsDeclared
    <3>3. Plain(ds[j].id) /\ Plain(ds[k].id)
      BY <3>2 DEF PlainIds, Plain
    <3>4. ds[j].id = ds[k].id
      BY <3>2, <3>3, NameTellsId
    <3>5. j = k
      BY <3>2, <3>4, NamesDiffer
    <3> QED
      BY <3>1, <3>5 DEF IInv, Once
  <2>2. {m \in 1..Len(operations) :
           /\ operations[m].namespace = operations[n].namespace
           /\ operations[m].name = operations[n].name} = {n}
    BY <2>1
  <2>3. n \in Nat
    BY DEF IInv, Origin
  <2> QED
    BY <2>2, <2>3 DEF Executes, FirstIn
<1> QED
  BY <1>1, Invariance, PTL

-----------------------------------------------------------------------------
(* The same declarations in another order. *)

(* rs has the declarations of ds in another order, with to[k] the place of k. *)
Shuffled(ds, rs, to) ==
  /\ ds \in Seq(Declaration) /\ rs \in Seq(Declaration) /\ Len(rs) = Len(ds)
  /\ \A k \in 1..Len(ds) : to[k] \in 1..Len(ds) /\ rs[to[k]] = ds[k]
  /\ \A j, k \in 1..Len(ds) : to[j] = to[k] => j = k
  /\ \A j \in 1..Len(ds) : \E k \in 1..Len(ds) : to[k] = j

Moved(to, group) == {to[k] : k \in group}

Merged(ds, group) ==
  [k \in group |-> IF TagLabel(ds, group, k) # <<>> THEN TagLabel(ds, group, k)
                                                    ELSE PathLabel(ds, group, k)]

Chosen(ds, group) ==
  IF AllDifferent(Merged(ds, group), group) THEN Merged(ds, group)
  ELSE [k \in group |-> PathLabel(ds, group, k)]

LEMMA PreferredIsChosen ==
  ASSUME NEW ds, NEW group, NEW k \in group
  PROVE  Preferred(ds, group)[k] =
           IF Chosen(ds, group)[k] # <<>> THEN Chosen(ds, group)[k] ELSE Positional(group, k)
BY DEF Preferred, Chosen, Merged

LEMMA MovedGroup ==
  ASSUME NEW ds, NEW rs, NEW to, Shuffled(ds, rs, to), NEW group \in SUBSET (1..Len(ds))
  PROVE  /\ Moved(to, group) \in SUBSET (1..Len(ds))
         /\ \A k \in group : to[k] \in Moved(to, group)
         /\ \A p \in Moved(to, group) : \E k \in group : p = to[k]
         /\ \A j, k \in group : to[j] = to[k] => j = k
<1>1. /\ \A k \in group : k \in 1..Len(ds) /\ to[k] \in 1..Len(ds)
      /\ \A j, k \in group : to[j] = to[k] => j = k
  BY DEF Shuffled
<1> QED
  BY <1>1 DEF Moved

LEMMA GroupShuffled ==
  ASSUME NEW ds, NEW rs, NEW to, Shuffled(ds, rs, to), NEW k \in 1..Len(ds)
  PROVE  Group(rs, to[k]) = Moved(to, Group(ds, k))
<1>1. /\ Len(rs) = Len(ds)
      /\ \A j \in 1..Len(ds) : rs[to[j]] = ds[j]
      /\ \A j \in 1..Len(ds) : \E m \in 1..Len(ds) : to[m] = j
  BY DEF Shuffled
<1>2. \A j \in 1..Len(ds) : rs[j].id = ds[k].id <=> j \in Moved(to, Group(ds, k))
  <2> TAKE j \in 1..Len(ds)
  <2>1. PICK m \in 1..Len(ds) : to[m] = j
    BY <1>1
  <2>2. ASSUME rs[j].id = ds[k].id
        PROVE  j \in Moved(to, Group(ds, k))
    <3>1. m \in Group(ds, k)
      BY <1>1, <2>1, <2>2 DEF Group
    <3> QED
      BY <2>1, <3>1 DEF Moved
  <2>3. ASSUME j \in Moved(to, Group(ds, k))
        PROVE  rs[j].id = ds[k].id
    <3>1. PICK i \in Group(ds, k) : j = to[i]
      BY <2>3 DEF Moved
    <3>2. i \in 1..Len(ds) /\ ds[i].id = ds[k].id
      BY DEF Group
    <3> QED
      BY <1>1, <3>1, <3>2
  <2> QED
    BY <2>2, <2>3
<1>3. Moved(to, Group(ds, k)) \in SUBSET (1..Len(ds))
  BY GroupType, MovedGroup DEF Shuffled
<1>4. rs[to[k]].id = ds[k].id
  BY <1>1
<1>5. Group(rs, to[k]) = {j \in 1..Len(ds) : rs[j].id = ds[k].id}
  BY <1>1, <1>4 DEF Group
<1> QED
  BY <1>2, <1>3, <1>5

(* What a label is made from does not depend on the order. *)
LEMMA SharedShuffled ==
  ASSUME NEW ds, NEW rs, NEW to, Shuffled(ds, rs, to),
         NEW group \in SUBSET (1..Len(ds)), NEW n
  PROVE  SharesSuffix(rs, Moved(to, group), n) <=> SharesSuffix(ds, group, n)
<1> DEFINE H == Moved(to, group)
           Ends(a, b) == /\ n <= Len(a)
                         /\ \A m \in 0..(n - 1) : Lower[FromEnd(a, m)] = Lower[FromEnd(b, m)]
<1>1. \A j \in group : rs[to[j]] = ds[j]
  BY DEF Shuffled
<1>2. (\A j \in group : to[j] \in H) /\ \A p \in H : \E j \in group : p = to[j]
  BY MovedGroup
<1>3. SharesSuffix(ds, group, n) <=>
        \A j, k \in group : ds[j].tag # <<>> /\ ds[k].tag # <<>> => Ends(ds[j].tag, ds[k].tag)
  BY DEF SharesSuffix, Tagged
<1>4. SharesSuffix(rs, H, n) <=>
        \A j, k \in H : rs[j].tag # <<>> /\ rs[k].tag # <<>> => Ends(rs[j].tag, rs[k].tag)
  BY DEF SharesSuffix, Tagged
<1> HIDE DEF H, Ends
<1>5. (\A j, k \in H : rs[j].tag # <<>> /\ rs[k].tag # <<>> => Ends(rs[j].tag, rs[k].tag))
        <=> \A j, k \in group : ds[j].tag # <<>> /\ ds[k].tag # <<>> => Ends(ds[j].tag, ds[k].tag)
  BY <1>1, <1>2
<1> QED
  BY <1>3, <1>4, <1>5 DEF H

LEMMA LabelsShuffled ==
  ASSUME NEW ds, NEW rs, NEW to, Shuffled(ds, rs, to),
         NEW group \in SUBSET (1..Len(ds)), NEW k \in group
  PROVE  LET H == Moved(to, group)
             p == to[k]
         IN  /\ TagLabel(rs, H, p) = TagLabel(ds, group, k)
             /\ PathLabel(rs, H, p) = PathLabel(ds, group, k)
<1> DEFINE H == Moved(to, group)
           p == to[k]
<1>1. rs \in Seq(Declaration) /\ H \in SUBSET (1..Len(rs)) /\ p \in H
  BY MovedGroup DEF Shuffled
<1>2. \A j \in group : rs[to[j]] = ds[j]
  BY DEF Shuffled
<1>3. rs[p] = ds[k]
  BY <1>2
<1>4. SuffixLength(rs, H, p) = SuffixLength(ds, group, k)
  <2> DEFINE L == Len(ds[k].tag)
             a == SuffixLength(rs, H, p)
             b == SuffixLength(ds, group, k)
  <2>1. /\ a \in 0..Len(rs[p].tag) /\ SharesSuffix(rs, H, a)
        /\ \A m \in 0..Len(rs[p].tag) : SharesSuffix(rs, H, m) => m <= a
    BY <1>1, SuffixLengthType
  <2>2. /\ b \in 0..L /\ SharesSuffix(ds, group, b)
        /\ \A m \in 0..L : SharesSuffix(ds, group, m) => m <= b
    BY SuffixLengthType DEF Shuffled
  <2>3. SharesSuffix(ds, group, a) /\ SharesSuffix(rs, H, b)
    BY <2>1, <2>2, SharedShuffled
  <2>4. L \in Nat
    BY DeclarationType DEF Shuffled
  <2> HIDE DEF a, b, H, p, L
  <2>5. a \in 0..L /\ \A m \in 0..L : SharesSuffix(rs, H, m) => m <= a
    BY <2>1, <1>3 DEF L
  <2>6. a <= b /\ b <= a
    BY <2>2, <2>3, <2>5
  <2>7. a = b
    BY <2>2, <2>4, <2>5, <2>6
  <2> QED
    BY <2>7 DEF a, b
<1>5. TagLabel(rs, H, p) = TagLabel(ds, group, k)
  <2> HIDE DEF H, p
  <2> QED
    BY <1>3, <1>4 DEF TagLabel
<1>6. PathLabel(rs, H, p) = PathLabel(ds, group, k)
  <2>1. (\A j \in group : to[j] \in H) /\ \A q \in H : \E j \in group : q = to[j]
    BY MovedGroup
  <2> HIDE DEF H, p
  <2>2. \A s : (\E q \in H : s \notin rs[q].path) <=> \E j \in group : s \notin ds[j].path
    BY <1>2, <2>1
  <2>3. {s \in rs[p].path : \E q \in H : s \notin rs[q].path}
          = {s \in ds[k].path : \E j \in group : s \notin ds[j].path}
    BY <1>3, <2>2
  <2> QED
    BY <2>3 DEF PathLabel
<1> QED
  BY <1>5, <1>6

(* So a label that is not a position is chosen for the same operations. *)
LEMMA ChosenShuffled ==
  ASSUME NEW ds, NEW rs, NEW to, Shuffled(ds, rs, to),
         NEW group \in SUBSET (1..Len(ds)), NEW k \in group
  PROVE  Chosen(rs, Moved(to, group))[to[k]] = Chosen(ds, group)[k]
<1> DEFINE H == Moved(to, group)
<1>1. /\ \A j \in group : to[j] \in H
      /\ \A q \in H : \E j \in group : q = to[j]
      /\ \A i, j \in group : to[i] = to[j] => i = j
  BY MovedGroup
<1>2. \A j \in group : /\ TagLabel(rs, H, to[j]) = TagLabel(ds, group, j)
                       /\ PathLabel(rs, H, to[j]) = PathLabel(ds, group, j)
  BY LabelsShuffled
<1> HIDE DEF H
<1>3. \A j \in group : Merged(rs, H)[to[j]] = Merged(ds, group)[j]
  BY <1>1, <1>2 DEF Merged
<1>4. AllDifferent(Merged(rs, H), H) <=> AllDifferent(Merged(ds, group), group)
  BY <1>1, <1>3 DEF AllDifferent
<1>5. Chosen(rs, H)[to[k]] = Chosen(ds, group)[k]
  BY <1>1, <1>2, <1>3, <1>4 DEF Chosen
<1> QED
  BY <1>5 DEF H

(* No tag and no segment of a path is spelled like a positional label. *)
NoLetterIsAPosition == "variant" \notin Letter

LEMMA ChosenType ==
  ASSUME NEW ds \in Seq(Declaration), NEW group \in SUBSET (1..Len(ds)), NEW k \in group
  PROVE  Chosen(ds, group)[k] \in Text
BY TagLabelType, PathLabelType DEF Chosen, Merged

LEMMA ChosenIsNoPosition ==
  ASSUME NoLetterIsAPosition, NEW text \in Text, text # <<>>,
         NEW n \in Nat, NEW group \in SUBSET (1..n), NEW k \in group
  PROVE  text # Positional(group, k)
<1> DEFINE S == Letter \cup {"_"}
<1>1. text \in Seq(S) /\ "variant" \notin S
  BY DEF Text, NoLetterIsAPosition
<1>2. text[1] \in S
  <2> HIDE DEF S
  <2>1. Len(text) \in Nat \ {0}
    BY <1>1, EmptySeq
  <2>2. 1 \in 1..Len(text)
    BY <2>1
  <2> QED
    BY <1>1, <2>2, ElementOfSeq
<1>3. Positional(group, k)[1] = "variant"
  BY PositionalType
<1> QED
  BY <1>1, <1>2, <1>3

(* Other labels that are all different stay so in another order, when no    *)
(* position can come to look like one.                                      *)
LEMMA DifferentShuffled ==
  ASSUME NoLetterIsAPosition,
         NEW ds, NEW rs, NEW to, Shuffled(ds, rs, to), NEW group \in SUBSET (1..Len(ds)),
         AllDifferent(Preferred(ds, group), group)
  PROVE  AllDifferent(Preferred(rs, Moved(to, group)), Moved(to, group))
<1> DEFINE H == Moved(to, group)
<1>1. rs \in Seq(Declaration) /\ H \in SUBSET (1..Len(rs)) /\ Len(rs) \in Nat
  BY MovedGroup, LenProperties DEF Shuffled
<1>2. \A q \in H : \E j \in group : q = to[j]
  BY MovedGroup
<1>3. \A j \in group : to[j] \in H /\ Chosen(rs, H)[to[j]] = Chosen(ds, group)[j]
  BY MovedGroup, ChosenShuffled
<1>4. AllDifferent([q \in H |-> Positional(H, q)], H)
  BY <1>1, PositionsDiffer
<1>5. \A p, q \in H : Chosen(rs, H)[p] # <<>> => Chosen(rs, H)[p] # Positional(H, q)
  BY <1>1, ChosenType, ChosenIsNoPosition
<1> HIDE DEF H
<1>6. ASSUME NEW p \in H, NEW q \in H, Preferred(rs, H)[p] = Preferred(rs, H)[q]
      PROVE  p = q
  <2>1. PICK i \in group, j \in group : p = to[i] /\ q = to[j]
    BY <1>2
  <2>2. CASE Chosen(rs, H)[p] # <<>> /\ Chosen(rs, H)[q] # <<>>
    <3>1. Chosen(rs, H)[p] = Chosen(rs, H)[q]
      BY <1>6, <2>2, PreferredIsChosen
    <3>2. Chosen(ds, group)[i] = Chosen(ds, group)[j] /\ Chosen(ds, group)[i] # <<>>
      BY <1>3, <2>1, <2>2, <3>1
    <3>3. Preferred(ds, group)[i] = Preferred(ds, group)[j]
      BY <3>2, PreferredIsChosen
    <3> QED
      BY <2>1, <3>3 DEF AllDifferent
  <2>3. CASE Chosen(rs, H)[p] = <<>> /\ Chosen(rs, H)[q] = <<>>
    <3>1. Positional(H, p) = Positional(H, q)
      BY <1>6, <2>3, PreferredIsChosen
    <3> QED
      BY <1>4, <3>1 DEF AllDifferent
  <2>4. CASE Chosen(rs, H)[p] # <<>> /\ Chosen(rs, H)[q] = <<>>
    BY <1>5, <1>6, <2>4, PreferredIsChosen
  <2>5. CASE Chosen(rs, H)[p] = <<>> /\ Chosen(rs, H)[q] # <<>>
    BY <1>5, <1>6, <2>5, PreferredIsChosen
  <2> QED
    BY <2>2, <2>3, <2>4, <2>5
<1>7. AllDifferent(Preferred(rs, H), H)
  BY <1>6 DEF AllDifferent
<1> QED
  BY <1>7 DEF H

LEMMA NameShuffled ==
  ASSUME NoLetterIsAPosition,
         NEW ds, NEW rs, NEW to, Shuffled(ds, rs, to), NEW k \in 1..Len(ds), ~IsPositional(ds, k)
  PROVE  RegisteredName(rs, to[k]) = RegisteredName(ds, k)
<1> DEFINE p == to[k]
           group == Group(ds, k)
           H == Moved(to, group)
<1>1. group \in SUBSET (1..Len(ds)) /\ k \in group
  BY GroupType DEF Shuffled
<1>2. p \in H /\ Group(rs, p) = H /\ rs[p] = ds[k]
  <2>1. rs[p] = ds[k]
    BY DEF Shuffled
  <2> QED
    BY <1>1, <2>1, MovedGroup, GroupShuffled
<1>3. group = {k} <=> H = {p}
  <2>1. /\ \A j \in group : to[j] \in H
        /\ \A q \in H : \E j \in group : q = to[j]
        /\ \A j \in group : to[j] = to[k] => j = k
    BY <1>1, MovedGroup
  <2> HIDE DEF group, H
  <2> QED
    BY <1>1, <1>2, <2>1
<1>4. CASE group = {k}
  BY <1>2, <1>3, <1>4 DEF RegisteredName
<1>5. CASE group # {k}
  <2>1. RegisteredName(ds, k) = Discriminators(ds, group)[k] \o <<"_">> \o ds[k].id
    BY <1>5 DEF RegisteredName
  <2>2. RegisteredName(rs, p) = Discriminators(rs, H)[p] \o <<"_">> \o ds[k].id
    BY <1>2, <1>3, <1>5 DEF RegisteredName
  <2>3. \A j \in group : Discriminators(ds, group)[k] # Positional(group, j)
    BY <2>1 DEF IsPositional
  <2>4. AllDifferent(Preferred(ds, group), group)
    BY <1>1, <2>3 DEF Discriminators
  <2>5. Discriminators(ds, group)[k] = Preferred(ds, group)[k]
    BY <2>4 DEF Discriminators
  <2>6. Chosen(ds, group)[k] # <<>> /\ Discriminators(ds, group)[k] = Chosen(ds, group)[k]
    BY <1>1, <2>3, <2>5, PreferredIsChosen
  <2>7. Chosen(rs, H)[p] = Chosen(ds, group)[k]
    BY <1>1, ChosenShuffled
  <2>8. AllDifferent(Preferred(rs, H), H)
    BY <1>1, <2>4, DifferentShuffled
  <2> HIDE DEF p, H
  <2>9. Discriminators(rs, H)[p] = Chosen(ds, group)[k]
    BY <1>2, <2>6, <2>7, <2>8, PreferredIsChosen DEF Discriminators
  <2> QED
    BY <2>1, <2>2, <2>6, <2>9 DEF p
<1>6. RegisteredName(rs, p) = RegisteredName(ds, k)
  BY <1>4, <1>5
<1> QED
  BY <1>6 DEF p

LEMMA ReorderedIsShuffled ==
  ASSUME NEW ds \in Seq(Declaration), NEW order \in Orders(Len(ds))
  PROVE  Shuffled(ds, Reordered(ds, order),
                  [k \in 1..Len(ds) |-> CHOOSE j \in 1..Len(ds) : order[j] = k])
<1> DEFINE n == Len(ds)
           rs == [k \in 1..n |-> ds[order[k]]]
           to == [k \in 1..n |-> CHOOSE j \in 1..n : order[j] = k]
<1>1. n \in Nat /\ ds \in [1..n -> Declaration]
  BY LenProperties
<1> HIDE DEF n
<1>2. /\ order \in [1..n -> 1..n]
      /\ \A j, k \in 1..n : order[j] = order[k] => j = k
      /\ \A k \in 1..n : \E j \in 1..n : order[j] = k
  BY DEF Orders, Bijection, Injection, Surjection, IsInjective, n
<1>3. rs \in [1..n -> Declaration] /\ \A k \in 1..n : rs[k] = ds[order[k]]
  BY <1>1, <1>2
<1>4. rs \in Seq(Declaration) /\ Len(rs) = n
  BY <1>1, <1>3, LenProperties
<1>5. \A k \in 1..n : to[k] \in 1..n /\ order[to[k]] = k
  BY <1>2
<1>6. \A k \in 1..n : to[order[k]] = k
  BY <1>2, <1>5
<1>7. Reordered(ds, order) = rs
  BY DEF Reordered, n
<1> HIDE DEF rs, to
<1>8. Shuffled(ds, rs, to)
  <2>1. \A k \in 1..n : rs[to[k]] = ds[k]
    BY <1>3, <1>5
  <2>2. \A j, k \in 1..n : to[j] = to[k] => j = k
    BY <1>5
  <2>3. \A j \in 1..n : \E k \in 1..n : to[k] = j
    BY <1>2, <1>6
  <2> QED
    BY <1>4, <1>5, <2>1, <2>2, <2>3 DEF Shuffled, n
<1> QED
  BY <1>7, <1>8 DEF to, n

LEMMA PlaceOf ==
  ASSUME NEW n, NEW order \in Orders(n), NEW k \in 1..n
  PROVE  order[k] \in 1..n /\ [m \in 1..n |-> CHOOSE j \in 1..n : order[j] = m][order[k]] = k
<1>1. /\ order \in [1..n -> 1..n]
      /\ \A j, m \in 1..n : order[j] = order[m] => j = m
  BY DEF Orders, Bijection, Injection, Surjection, IsInjective
<1>2. order[k] \in 1..n /\ (CHOOSE j \in 1..n : order[j] = order[k]) = k
  BY <1>1
<1> QED
  BY <1>2

(* A specification that lists its operations in any other order gives every *)
(* operation that is not named by its position the name it had, unless a    *)
(* tag or a segment is spelled like a position: "stable" in the docstring.  *)
THEOREM Stable ==
  ASSUME NoLetterIsAPosition
  PROVE  Spec => []NamesAreStable
<1>1. IInv => NamesAreStable
  <2> DEFINE ds == directory[file].declares
  <2> SUFFICES ASSUME IInv, file <= Len(directory),
                      NEW order \in Orders(Len(ds)), NEW k \in 1..Len(ds),
                      ~IsPositional(ds, order[k])
               PROVE  RegisteredName(Reordered(ds, order), k) = RegisteredName(ds, order[k])
    BY DEF NamesAreStable
  <2>1. directory \in Directories /\ file \in 1..(Len(directory) + 1)
    BY DEF IInv, TypeOK
  <2>2. Len(directory) \in Nat
    BY <2>1, DirectoriesAssumption
  <2>3. ds \in Seq(Declaration)
    BY <2>1, <2>2, DocumentType
  <2> DEFINE to == [m \in 1..Len(ds) |-> CHOOSE j \in 1..Len(ds) : order[j] = m]
  <2> HIDE DEF ds
  <2>4. Shuffled(ds, Reordered(ds, order), to)
    BY <2>3, ReorderedIsShuffled
  <2>5. order[k] \in 1..Len(ds) /\ to[order[k]] = k
    BY PlaceOf
  <2> HIDE DEF to
  <2> QED
    BY <2>4, <2>5, NameShuffled
<1> QED
  BY <1>1, Invariance, PTL
==============================================================================
