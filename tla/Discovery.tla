----------------------------- MODULE Discovery -----------------------------
(***************************************************************************)
(* listOperations over the catalog a server has loaded: a client searches  *)
(* and takes the answer page by page, each page a call of its own that     *)
(* scores and sorts the whole catalog again.                               *)
(***************************************************************************)
EXTENDS OperationCatalog

CONSTANTS
  Characters,  \* the letters, the underscore and "variant", in sorted() order
  Spaces,      \* the namespaces, in sorted() order
  Queries,     \* what clients search for: sequences of lower-case words
  Limit        \* how many operations make a page

ASSUME CharactersAssumption ==
  /\ Characters \in Seq(STRING)
  /\ {Characters[n] : n \in DOMAIN Characters} = Letter \cup {"_", "1", "variant"}
ASSUME SpacesAssumption ==
  Spaces \in Seq(Namespaces) /\ {Spaces[n] : n \in DOMAIN Spaces} = Namespaces
ASSUME QueriesAssumption == Queries \subseteq Seq(Seq(Letter))
ASSUME LimitAssumption == Limit \in Nat \ {0}

Everywhere == "everywhere"

VARIABLES
  query,   \* the words searched for
  scope,   \* the namespace asked for, or Everywhere
  offset,  \* where the next page starts
  seen,    \* the operations on the pages so far, by their position in the list
  more     \* whether the last page was full

search == <<query, scope, offset, seen, more>>

DiscoveryInit ==
  /\ Init
  /\ query = <<>> /\ scope = Everywhere /\ offset = 0 /\ seen = <<>> /\ more = FALSE

-----------------------------------------------------------------------------
(* _score_operation. *)

Declared(j) == directory[operations[j].file].declares[operations[j].at]

Lowered(text) == [n \in 1..Len(text) |-> IF text[n] \in Letter THEN Lower[text[n]] ELSE text[n]]

(* The word occurs in the text, upper or lower case. *)
Occurs(word, text) ==
  \E n \in 0..(Len(text) - Len(word)) :
    \A m \in 1..Len(word) : Lowered(text)[n + m] = word[m]

(* The registered name ends in the operationId, so it holds what that holds; *)
(* the words of the operationId, a tier of its own in the code, are in it.  *)
InName(j, word) == Occurs(word, operations[j].name)

Places(j, word) ==
  {p \in {"operation_id", "summary", "path"} :
     CASE p = "operation_id" -> InName(j, word)
       [] p = "summary" -> Occurs(word, Declared(j).summary)
       [] p = "path" -> \E s \in Declared(j).path : Occurs(word, <<s>>)}

(* search_text adds the tags, here for descriptions too. *)
Hit(j, word) == Places(j, word) # {} \/ Occurs(word, Declared(j).tag)

(* Mutation: the summary counts for more. *)
SummariesCountMore(place) ==
  CASE place = "operation_id" -> 50 [] place = "summary" -> 30 [] place = "path" -> 10

Points(place) == CASE place = "operation_id" -> 50 [] place = "summary" -> 20 [] place = "path" -> 10

Gained(j, word, place) == IF place \in Places(j, word) THEN Points(place) ELSE 0

WordScore(j, word) ==
  IF Places(j, word) = {} THEN 5
  ELSE Gained(j, word, "operation_id") + Gained(j, word, "summary") + Gained(j, word, "path")

AllIn(place, j) == \A n \in DOMAIN query : place \in Places(j, query[n])

Bonus(j) ==
  IF query = <<>> THEN 0
  ELSE IF AllIn("operation_id", j) THEN 20
  ELSE IF AllIn("summary", j) THEN 10
  ELSE 0

Score(j) ==
  LET sum[n \in 0..Len(query)] ==
        IF n = 0 THEN 0 ELSE sum[n - 1] + WordScore(j, query[n])
  IN  sum[Len(query)] + Bonus(j)

-----------------------------------------------------------------------------
(* ToolGenerator.list_operations. *)

(* Every word must be found somewhere. *)
Matches ==
  {j \in 1..Len(operations) :
     /\ scope \in {Everywhere, operations[j].namespace}
     /\ \A n \in DOMAIN query : Hit(j, query[n])}

Place(sequence, x) == CHOOSE n \in DOMAIN sequence : sequence[n] = x

(* Lexicographic order of two texts. *)
TextBefore(s, t) ==
  \E n \in 1..Len(t) :
    /\ \A m \in 1..(n - 1) : m <= Len(s) /\ s[m] = t[m]
    /\ n <= Len(s) => Place(Characters, s[n]) < Place(Characters, t[n])

(* The sort keys, and the order of the list for those that have one key. *)
Before(score, j, k) ==
  LET a == operations[j]  b == operations[k] IN
  \/ score[j] > score[k]
  \/ /\ score[j] = score[k]
     /\ \/ Place(Spaces, a.namespace) < Place(Spaces, b.namespace)
        \/ /\ a.namespace = b.namespace
           /\ \/ TextBefore(a.name, b.name)
              \/ a.name = b.name /\ j < k

Ranked ==
  LET found == Matches
      score == [j \in found |-> Score(j)]
  IN  [j \in found |-> Cardinality({k \in found : Before(score, k, j)})]

Sorted ==
  LET ranked == Ranked
  IN  [n \in 1..Cardinality(DOMAIN ranked) |->
        CHOOSE j \in DOMAIN ranked : ranked[j] = n - 1]

(* Mutation: the page goes on to the first of the next one. *)
PageWithNext ==
  LET sorted == Sorted
  IN  SubSeq(sorted, offset + 1,
             IF offset + Limit < Len(sorted) THEN offset + Limit + 1 ELSE Len(sorted))

(* scored[offset: offset + limit] *)
Page ==
  LET sorted == Sorted
  IN  SubSeq(sorted, offset + 1,
             IF offset + Limit < Len(sorted) THEN offset + Limit ELSE Len(sorted))

-----------------------------------------------------------------------------
(* A client searches, and takes pages until one is not full. *)

Loading == LoadFile /\ UNCHANGED search

Search(q, s) ==
  /\ file > Len(directory) /\ ~more
  /\ query' = q /\ scope' = s
  /\ offset' = 0 /\ seen' = <<>> /\ more' = TRUE
  /\ UNCHANGED vars

ListOperations ==
  /\ more
  /\ seen' = seen \o Page
  /\ offset' = offset + Limit
  /\ more' = (Len(Page) = Limit)
  /\ UNCHANGED <<vars, query, scope>>

DiscoveryNext ==
  \/ Loading
  \/ \E q \in Queries, s \in Namespaces \cup {Everywhere} : Search(q, s)
  \/ ListOperations

DiscoverySpec == DiscoveryInit /\ [][DiscoveryNext]_<<vars, search>>

-----------------------------------------------------------------------------
(* Properties. *)

NamedBy(j) == \A n \in DOMAIN query : InName(j, query[n])

(* An operation that every word searched for names comes before those that  *)
(* mention a word only elsewhere; the most that summary, path and bonus can *)
(* add up to over two words is a tie (_score_operation, "Use 1-2 keyword    *)
(* tokens" in the tool's description: three words may outweigh a name).     *)
NamedOperationsRankFirst ==
  query # <<>> /\ Len(query) <= 2 =>
    \A m, n \in 1..Len(seen) :
      m < n /\ NamedBy(seen[n]) /\ ~NamedBy(seen[m]) =>
        Len(query) = 2 /\ Score(seen[m]) = Score(seen[n])

(* The pages a client took one by one hold every match exactly once,        *)
(* although each was scored and sorted anew and operations of two versions  *)
(* of a namespace may have one name.                                        *)
PagesCoverTheMatches ==
  offset > 0 /\ ~more =>
    /\ {seen[n] : n \in 1..Len(seen)} = Matches
    /\ Len(seen) = Cardinality(Matches)
=============================================================================
