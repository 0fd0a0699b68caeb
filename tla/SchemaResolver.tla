--------------------------- MODULE SchemaResolver ---------------------------
(***************************************************************************)
(* SchemaResolver.resolve: the recursion over $ref that answers            *)
(* getOperationSchema, written out with its stack, the `seen` set each     *)
(* recursive call receives, and the cache that outlives the calls.         *)
(*                                                                         *)
(* A component schema is the sequence of the $refs its branches, fields    *)
(* and items make, in the order they are resolved; everything else in it   *)
(* is a leaf.  Of a resolved schema the model keeps its loose ends: the    *)
(* names of the _circular_ref markers in it that no enclosing node of the  *)
(* same result explains.                                                   *)
(***************************************************************************)
EXTENDS Naturals, Sequences, FiniteSets

CONSTANTS
  Schemas,  \* the names in the combined components/schemas dictionary
  Unknown,  \* a name that is not in it
  Graphs    \* the dictionaries considered: functions from Schemas to $refs

ASSUME SchemasAssumption == IsFiniteSet(Schemas) /\ Unknown \notin Schemas
Ref == Schemas \cup {Unknown}
ASSUME GraphsAssumption == Graphs \subseteq [Schemas -> Seq(Ref)]

Unresolved == [resolved |-> FALSE, loose |-> {}]
Resolved(s) == [resolved |-> TRUE, loose |-> s]
Result == [resolved : BOOLEAN, loose : SUBSET Schemas]

VARIABLES
  refs,    \* self.schemas; never changes
  cache,   \* self._cache
  stack,   \* the calls of resolve in progress, innermost last
  answer   \* what the last outermost call returned

vars == <<refs, cache, stack, answer>>

(* A call resolving the body of name: the $refs still ahead, the seen set  *)
(* it was given, and the loose ends of what it has resolved so far.        *)
Frame == [name : Schemas, ahead : Seq(Ref), seen : SUBSET Schemas,
          loose : SUBSET Schemas]

TypeOK ==
  /\ refs \in Graphs
  /\ cache \in [Schemas -> Result]
  /\ stack \in Seq(Frame)
  /\ answer \in Result

Init ==
  /\ refs \in Graphs
  /\ cache = [n \in Schemas |-> Unresolved]
  /\ stack = <<>> /\ answer = Unresolved

Top == stack[Len(stack)]
Ahead == Head(Top.ahead)
AtRef == stack # <<>> /\ Top.ahead # <<>>

-----------------------------------------------------------------------------
(* Mutations. *)

EnterForgettingSeen(n, seen) ==
  [name |-> n, ahead |-> refs[n], seen |-> {n}, loose |-> {}]
NeverCached(n) == FALSE
MarksAnyAncestor(n) == Top.loose \cup Top.seen
AbsorbWithoutAdvancing(loose) ==
  stack' = [stack EXCEPT ![Len(stack)] = [Top EXCEPT !.loose = loose]]
UnknownMarked ==
  /\ AtRef /\ ~(Ahead \in Schemas /\ cache[Ahead].resolved)
  /\ Ahead \notin Top.seen /\ Ahead \notin Schemas
  /\ stack' = [stack EXCEPT ![Len(stack)] =
       [Top EXCEPT !.ahead = Tail(Top.ahead), !.loose = Top.loose \cup {Ahead}]]
  /\ UNCHANGED <<refs, cache, answer>>

-----------------------------------------------------------------------------
(* The recursion. *)

Cached(n) == n \in Schemas /\ cache[n].resolved

(* resolve(target, seen | {ref_name}) *)
Enter(n, seen) ==
  [name |-> n, ahead |-> refs[n], seen |-> seen \cup {n}, loose |-> {}]

(* The loose ends once a marker for n is added. *)
Mark(n) == Top.loose \cup {n}

(* The innermost call resolves its next $ref to a result with these loose   *)
(* ends, and goes on.                                                       *)
Absorb(loose) ==
  stack' = [stack EXCEPT ![Len(stack)] =
             [Top EXCEPT !.ahead = Tail(Top.ahead), !.loose = loose]]

(* getOperationSchema asks for {"$ref": n}. *)
Ask(n) ==
  /\ stack = <<>>
  /\ IF Cached(n)
       THEN answer' = cache[n] /\ UNCHANGED stack
       ELSE stack' = <<Enter(n, {})>> /\ UNCHANGED answer
  /\ UNCHANGED <<refs, cache>>

(* The three $refs that end the recursion, tested in this order. *)
CacheHit ==
  /\ AtRef /\ Cached(Ahead)
  /\ Absorb(Top.loose \cup cache[Ahead].loose)
  /\ UNCHANGED <<refs, cache, answer>>

CircularRef ==
  /\ AtRef /\ ~Cached(Ahead) /\ Ahead \in Top.seen
  /\ Absorb(Mark(Ahead))
  /\ UNCHANGED <<refs, cache, answer>>

UnknownRef ==
  /\ AtRef /\ ~Cached(Ahead) /\ Ahead \notin Top.seen /\ Ahead \notin Schemas
  /\ Absorb(Top.loose)
  /\ UNCHANGED <<refs, cache, answer>>

Recurse ==
  /\ AtRef /\ ~Cached(Ahead) /\ Ahead \notin Top.seen /\ Ahead \in Schemas
  /\ stack' = Append(stack, Enter(Ahead, Top.seen))
  /\ UNCHANGED <<refs, cache, answer>>

(* A call returns: its own marker is explained, its result is cached, and   *)
(* the caller, whose next $ref it was, takes in what is left loose.         *)
Return ==
  /\ stack # <<>> /\ Top.ahead = <<>>
  /\ LET result == Resolved(Top.loose \ {Top.name})
         below == Len(stack) - 1
     IN  /\ cache' = [cache EXCEPT ![Top.name] = result]
         /\ IF below = 0
              THEN stack' = <<>> /\ answer' = result
              ELSE /\ stack' = [SubSeq(stack, 1, below) EXCEPT ![below] =
                        [stack[below] EXCEPT !.ahead = Tail(stack[below].ahead),
                           !.loose = stack[below].loose \cup result.loose]]
                   /\ UNCHANGED answer
  /\ UNCHANGED refs

Next ==
  \/ \E n \in Schemas : Ask(n)
  \/ CacheHit \/ CircularRef \/ UnknownRef \/ Recurse \/ Return

Fairness == WF_vars(CacheHit \/ CircularRef \/ UnknownRef \/ Recurse \/ Return)

Spec == Init /\ [][Next]_vars /\ Fairness

-----------------------------------------------------------------------------
(* Properties. *)

(* The recursion is never deeper than there are schemas, however the $refs  *)
(* loop: the seen set and the cache cut every way back.                     *)
BoundedRecursion == Len(stack) <= Cardinality(Schemas)

(* What is cached is final: whatever is asked and resolved after it, in a   *)
(* recursion that is under way or a later one, the answer stays the same.   *)
CacheIsFinal ==
  [][\A n \in Schemas : cache[n].resolved => cache'[n] = cache[n]]_vars

Refers(m, n) == \E j \in 1..Len(refs[m]) : refs[m][j] = n
Reaches(m, n) ==
  \E k \in 1..Cardinality(Schemas) : \E path \in [0..k -> Schemas] :
    /\ path[0] = m /\ path[k] = n
    /\ \A j \in 1..k : Refers(path[j - 1], path[j])

(* A loose end in a cached schema names a member of a cycle that the schema *)
(* leads to: a schema that leads to no cycle is resolved in full, whoever   *)
(* asked first.                                                             *)
LooseEndsAreCyclic ==
  \A n \in Schemas : \A m \in cache[n].loose : Reaches(n, m) /\ Reaches(m, m)

(* Every call returns. *)
AskEnds == stack # <<>> ~> stack = <<>>

(* tool_generator.py:379, "deterministic structured response": an answer    *)
(* does not depend on what was asked before, so it has no loose end.        *)
AnswerIsSelfContained == answer.loose = {}
=============================================================================
