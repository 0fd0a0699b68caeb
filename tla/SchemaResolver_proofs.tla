----------------------- MODULE SchemaResolver_proofs -----------------------
(***************************************************************************)
(* Proofs about SchemaResolver, for any dictionary of schemas.             *)
(***************************************************************************)
EXTENDS SchemaResolver, NaturalsLemmas, SequenceTheorems, FiniteSetTheorems, TLAPS

(* What the stack knows: a call was entered by a name that was not cached,  *)
(* sees every name below it and shares its name with none of them; a call   *)
(* that waits for another still has the $ref it waits for ahead.            *)
Call(k) ==
  /\ ~cache[stack[k].name].resolved
  /\ \A j \in 1..k : stack[j].name \in stack[k].seen
  /\ \A j \in 1..(k - 1) : stack[j].name # stack[k].name
  /\ k < Len(stack) => stack[k].ahead # <<>>

StackInv == \A k \in 1..Len(stack) : Call(k)

IInv == TypeOK /\ StackInv

(* The calls of t, in the same order: a call keeps its name and its seen    *)
(* set until it returns, and only the innermost consumes its $refs.         *)
SameCalls(s, t) ==
  /\ Len(s) = Len(t)
  /\ \A k \in 1..Len(t) : s[k].name = t[k].name /\ s[k].seen = t[k].seen
  /\ \A k \in 1..(Len(t) - 1) : s[k].ahead = t[k].ahead

-----------------------------------------------------------------------------
(* The innermost call is a call. *)
LEMMA TopFrame ==
  TypeOK /\ stack # <<>> => Top \in Frame /\ Len(stack) \in 1..Len(stack)
BY DEF TypeOK, Top

(* A call is entered with the $refs of its schema. *)
LEMMA EnterFrame ==
  TypeOK => \A n \in Schemas, seen \in SUBSET Schemas : Enter(n, seen) \in Frame
BY GraphsAssumption DEF TypeOK, Enter, Frame

(* Resolving one more $ref of the innermost call. *)
LEMMA AbsorbStep ==
  ASSUME TypeOK, AtRef, NEW s \in SUBSET Schemas, Absorb(s)
  PROVE  stack' \in Seq(Frame) /\ SameCalls(stack', stack)
<1>1. Top \in Frame /\ Len(stack) \in 1..Len(stack)
  BY TopFrame DEF AtRef
<1>2. Tail(Top.ahead) \in Seq(Ref)
  BY <1>1 DEF AtRef, Frame
<1> DEFINE frame == [Top EXCEPT !.ahead = Tail(Top.ahead), !.loose = s]
<1>3. frame \in Frame /\ frame.name = Top.name /\ frame.seen = Top.seen
  BY <1>1, <1>2 DEF Frame
<1>4. stack' = [stack EXCEPT ![Len(stack)] = frame]
  BY DEF Absorb
<1> QED
  BY <1>1, <1>3, <1>4, ExceptSeq DEF TypeOK, SameCalls, Top

(* The calls in progress stay calls while nothing is cached. *)
LEMMA SameCallsInv ==
  ASSUME TypeOK, StackInv, SameCalls(stack', stack), UNCHANGED cache
  PROVE  StackInv'
<1>1. Len(stack) \in Nat
  BY DEF TypeOK
<1> QED
  BY <1>1 DEF StackInv, Call, SameCalls

(* The next $ref is a schema or Unknown, and a name seen is a schema. *)
LEMMA AheadRef ==
  TypeOK /\ AtRef => Ahead \in Ref /\ Top \in Frame
BY TopFrame DEF AtRef, Ahead, Frame

(* Every step but Return leaves the cache alone and keeps the invariant. *)
LEMMA StepKeeps ==
  ASSUME IInv, CacheHit \/ CircularRef \/ UnknownRef
  PROVE  IInv' /\ cache' = cache
<1> USE DEF IInv
<1>1. CASE CacheHit
  <2>1. Ahead \in Schemas /\ Top.loose \cup cache[Ahead].loose \in SUBSET Schemas
    BY <1>1, AheadRef DEF CacheHit, Cached, TypeOK, Result, Frame
  <2>2. stack' \in Seq(Frame) /\ SameCalls(stack', stack)
    BY <1>1, <2>1, AbsorbStep DEF CacheHit
  <2> QED
    BY <1>1, <2>2, SameCallsInv DEF CacheHit, TypeOK
<1>2. CASE CircularRef
  <2>1. Mark(Ahead) \in SUBSET Schemas
    BY <1>2, AheadRef DEF CircularRef, Mark, Frame
  <2>2. stack' \in Seq(Frame) /\ SameCalls(stack', stack)
    BY <1>2, <2>1, AbsorbStep DEF CircularRef
  <2> QED
    BY <1>2, <2>2, SameCallsInv DEF CircularRef, TypeOK
<1>3. CASE UnknownRef
  <2>1. Top.loose \in SUBSET Schemas
    BY <1>3, AheadRef DEF UnknownRef, Frame
  <2>2. stack' \in Seq(Frame) /\ SameCalls(stack', stack)
    BY <1>3, <2>1, AbsorbStep DEF UnknownRef
  <2> QED
    BY <1>3, <2>2, SameCallsInv DEF UnknownRef, TypeOK
<1> QED
  BY <1>1, <1>2, <1>3

(* The outermost call is the only one on the stack. *)
LEMMA AskKeeps ==
  ASSUME IInv, NEW n \in Schemas, Ask(n)
  PROVE  IInv' /\ cache' = cache
<1> USE DEF IInv
<1>1. CASE Cached(n)
  BY <1>1 DEF Ask, TypeOK, StackInv, Call
<1>2. CASE ~Cached(n)
  <2>1. stack' = <<Enter(n, {})>> /\ cache' = cache /\ refs' = refs /\ answer' = answer
    BY <1>2 DEF Ask
  <2>2. Enter(n, {}) \in Frame
    BY EnterFrame
  <2>3. stack' \in Seq(Frame) /\ Len(stack') = 1 /\ stack'[1] = Enter(n, {})
    BY <2>1, <2>2
  <2>4. TypeOK'
    BY <2>1, <2>3 DEF TypeOK
  <2>5. StackInv'
    BY <1>2, <2>1, <2>3 DEF StackInv, Call, Cached, Enter
  <2> QED
    BY <2>1, <2>4, <2>5
<1> QED
  BY <1>1, <1>2

(* A nested call is entered by a name none of the calls below it has. *)
LEMMA RecurseKeeps ==
  ASSUME IInv, Recurse
  PROVE  IInv' /\ cache' = cache
<1> USE DEF IInv
<1> DEFINE new == Enter(Ahead, Top.seen)
<1>1. Top \in Frame /\ Len(stack) \in 1..Len(stack) /\ Len(stack) \in Nat
  BY TopFrame DEF Recurse, AtRef, TypeOK
<1>2. new \in Frame
  BY <1>1, EnterFrame DEF Recurse, Frame
<1>3. /\ stack' \in Seq(Frame) /\ Len(stack') = Len(stack) + 1
      /\ \A k \in 1..Len(stack) : stack'[k] = stack[k]
      /\ stack'[Len(stack) + 1] = new
  BY <1>2, AppendProperties DEF Recurse, TypeOK
<1>4. TypeOK' /\ cache' = cache
  BY <1>3 DEF Recurse, TypeOK
<1>5. new.name = Ahead /\ new.seen = Top.seen \cup {Ahead} /\ ~cache[Ahead].resolved
  BY DEF Recurse, Enter, Cached
<1>6. \A j \in 1..Len(stack) : stack[j].name \in Top.seen
  BY <1>1 DEF StackInv, Call, Top
<1>7. ASSUME NEW k \in 1..Len(stack')
      PROVE  Call(k)'
  <2>1. CASE k = Len(stack) + 1
    <3>1. \A j \in 1..(k - 1) : stack'[j].name \in Top.seen
      BY <1>1, <1>3, <1>6, <2>1
    <3>2. stack'[k] = new
      BY <1>3, <2>1
    <3>3. \A j \in 1..k : stack'[j].name \in stack'[k].seen
      BY <1>1, <1>5, <2>1, <3>1, <3>2
    <3>4. \A j \in 1..(k - 1) : stack'[j].name # stack'[k].name
      BY <1>5, <3>1, <3>2 DEF Recurse
    <3> QED
      BY <1>1, <1>3, <1>4, <1>5, <2>1, <3>2, <3>3, <3>4 DEF Call
  <2>2. CASE k # Len(stack) + 1
    <3>1. k \in 1..Len(stack)
      BY <1>1, <1>3, <2>2
    <3>2. stack[k].ahead # <<>>
      BY <1>1, <3>1 DEF StackInv, Call, Recurse, AtRef, Top
    <3>3. Call(k) /\ \A j \in 1..k : stack'[j] = stack[j]
      BY <1>1, <1>3, <3>1 DEF StackInv
    <3> QED
      BY <1>1, <1>4, <3>1, <3>2, <3>3 DEF Call
  <2> QED
    BY <2>1, <2>2
<1> QED
  BY <1>4, <1>7 DEF StackInv

(* When a nested call returns, the call below it is the innermost, one $ref *)
(* further; the others are as they were.                                    *)
LEMMA ReturnStack ==
  ASSUME IInv, Return, NEW below, below = Len(stack) - 1, below # 0
  PROVE  /\ below \in 1..Len(stack) /\ below \in Nat /\ below < Len(stack)
         /\ stack[below] \in Frame /\ stack[below].ahead # <<>>
         /\ stack' \in Seq(Frame) /\ Len(stack') = below /\ answer' = answer
         /\ \A k \in 1..below :
              stack'[k].name = stack[k].name /\ stack'[k].seen = stack[k].seen
         /\ \A k \in 1..(below - 1) : stack'[k] = stack[k]
         /\ stack'[below].ahead = Tail(stack[below].ahead)
         /\ stack'[below].loose = stack[below].loose \cup (Top.loose \ {Top.name})
<1> USE DEF IInv
<1> DEFINE left == Top.loose \ {Top.name}
           caller == [stack[below] EXCEPT !.ahead = Tail(stack[below].ahead),
                        !.loose = stack[below].loose \cup left]
           rest == SubSeq(stack, 1, below)
<1>1. Top \in Frame /\ Len(stack) \in 1..Len(stack) /\ Len(stack) \in Nat
  BY TopFrame DEF Return, TypeOK
<1>2. left \in SUBSET Schemas
  BY <1>1 DEF Frame
<1>3. below \in 1..Len(stack) /\ below \in Nat /\ below < Len(stack)
  <2>1. Len(stack) \in Nat /\ 1 <= Len(stack) /\ Len(stack) # 1
    BY <1>1
  <2>2. \A n \in Nat : 1 <= n /\ n # 1 => n - 1 \in 1..n /\ n - 1 \in Nat /\ n - 1 < n
    OBVIOUS
  <2> QED
    BY <2>1, <2>2
<1>4. \A k \in 1..below : stack[k] \in Frame
  BY <1>1, <1>3, ElementOfSeq DEF TypeOK
<1>5. /\ rest \in Seq(Frame) /\ Len(rest) = below
      /\ \A k \in 1..below : rest[k] = stack[k]
  BY <1>3, <1>4, SubSeqProperties
<1>6. stack[below] \in Frame /\ stack[below].ahead # <<>>
  BY <1>3, <1>4 DEF StackInv, Call
<1>7. Tail(stack[below].ahead) \in Seq(Ref) /\ stack[below].loose \cup left \in SUBSET Schemas
  BY <1>2, <1>6 DEF Frame
<1>8. /\ caller \in Frame /\ caller.name = stack[below].name /\ caller.seen = stack[below].seen
      /\ caller.ahead = Tail(stack[below].ahead) /\ caller.loose = stack[below].loose \cup left
  BY <1>6, <1>7 DEF Frame
<1>9. stack' = [rest EXCEPT ![below] = caller] /\ answer' = answer
  BY DEF Return, Resolved
<1>10. below \in 1..Len(rest)
  BY <1>3, <1>5
<1>11. /\ stack' \in Seq(Frame) /\ Len(stack') = below
       /\ \A k \in 1..below : stack'[k] = IF k = below THEN caller ELSE rest[k]
  <2> HIDE DEF caller, rest
  <2> QED
    BY <1>5, <1>8, <1>9, <1>10, ExceptSeq
<1> HIDE DEF caller, rest, left
<1>12. \A k \in 1..(below - 1) : k \in 1..below /\ k # below
  BY <1>3
<1>13. \A k \in 1..(below - 1) : stack'[k] = stack[k]
  BY <1>5, <1>11, <1>12
<1>14. \A k \in 1..below : stack'[k].name = stack[k].name /\ stack'[k].seen = stack[k].seen
  BY <1>5, <1>8, <1>11
<1>15. below \in 1..below
  BY <1>3
<1>16. /\ stack'[below].ahead = Tail(stack[below].ahead)
       /\ stack'[below].loose = stack[below].loose \cup left
  BY <1>8, <1>11, <1>15
<1> QED
  BY <1>3, <1>6, <1>9, <1>11, <1>13, <1>14, <1>16 DEF left

(* A call returns: the name it caches is its own, which no call below has,  *)
(* and the call below it has consumed the $ref it waited for.               *)
LEMMA ReturnKeeps ==
  ASSUME IInv, Return
  PROVE  IInv' /\ \A n \in Schemas : cache[n].resolved => cache'[n] = cache[n]
<1> USE DEF IInv
<1> DEFINE result == Resolved(Top.loose \ {Top.name})
           below == Len(stack) - 1
<1>1. Top \in Frame /\ Len(stack) \in 1..Len(stack) /\ Len(stack) \in Nat
  BY TopFrame DEF Return, TypeOK
<1>2. result \in Result /\ result.loose \in SUBSET Schemas
  BY <1>1 DEF Result, Resolved, Frame
<1>3. cache' = [cache EXCEPT ![Top.name] = result] /\ Top.name \in Schemas
  BY <1>1 DEF Return, Frame
<1>4. cache' \in [Schemas -> Result] /\ refs' \in Graphs
  BY <1>2, <1>3 DEF TypeOK, Return
<1>5. ~cache[Top.name].resolved
  BY <1>1 DEF StackInv, Call, Top
<1>6. \A n \in Schemas : cache[n].resolved => cache'[n] = cache[n]
  BY <1>3, <1>5 DEF TypeOK
<1>7. CASE below = 0
  <2>1. stack' = <<>> /\ answer' = result
    BY <1>7 DEF Return
  <2>2. Len(stack') = 0 /\ stack' \in Seq(Frame)
    BY <2>1
  <2>3. TypeOK'
    BY <1>2, <1>4, <2>1, <2>2 DEF TypeOK
  <2>4. StackInv'
    BY <2>2 DEF StackInv
  <2> QED
    BY <1>6, <2>3, <2>4
<1>8. CASE below # 0
  <2>1. /\ below \in 1..Len(stack) /\ below \in Nat /\ below < Len(stack)
        /\ stack' \in Seq(Frame) /\ Len(stack') = below /\ answer' = answer
        /\ \A k \in 1..below :
             stack'[k].name = stack[k].name /\ stack'[k].seen = stack[k].seen
        /\ \A k \in 1..(below - 1) : stack'[k] = stack[k]
    <3>1. PICK k : k = Len(stack) - 1
      OBVIOUS
    <3> QED
      BY <1>8, <3>1, ReturnStack
  <2>2. \A k \in 1..below : stack[k] \in Frame
    BY <1>1, <2>1, ElementOfSeq DEF TypeOK
  <2>3. TypeOK'
    BY <1>4, <2>1 DEF TypeOK
  <2>4. \A k \in 1..below : stack[k].name # Top.name
    BY <1>1, <2>1 DEF StackInv, Call, Top
  <2>5. ASSUME NEW k \in 1..below
        PROVE  Call(k)'
    <3>1. Call(k) /\ stack[k].name \in Schemas
      BY <1>1, <2>1, <2>2 DEF StackInv, Frame
    <3>2. ~cache'[stack[k].name].resolved
      BY <1>3, <2>4, <3>1 DEF TypeOK, Call
    <3> QED
      BY <2>1, <3>1, <3>2 DEF Call
  <2>6. StackInv'
    BY <2>1, <2>5 DEF StackInv
  <2> QED
    BY <1>6, <2>3, <2>6
<1> QED
  BY <1>7, <1>8

-----------------------------------------------------------------------------
(* Every step keeps the invariant and every cached schema. *)
LEMMA Step ==
  ASSUME IInv, [Next]_vars
  PROVE  IInv' /\ \A n \in Schemas : cache[n].resolved => cache'[n] = cache[n]
<1>1. CASE \E n \in Schemas : Ask(n)
  BY <1>1, AskKeeps
<1>2. CASE CacheHit \/ CircularRef \/ UnknownRef
  BY <1>2, StepKeeps
<1>3. CASE Recurse
  BY <1>3, RecurseKeeps
<1>4. CASE Return
  BY <1>4, ReturnKeeps
<1>5. CASE UNCHANGED vars
  BY <1>5 DEF vars, IInv, TypeOK, StackInv, Call
<1> QED
  BY <1>1, <1>2, <1>3, <1>4, <1>5 DEF Next

(* The invariant holds when the server starts: nothing is cached or asked. *)
LEMMA Initially == Init => IInv
<1> SUFFICES ASSUME Init PROVE IInv
  OBVIOUS
<1>1. stack \in Seq(Frame) /\ Len(stack) = 0
  BY DEF Init
<1>2. cache \in [Schemas -> Result] /\ answer \in Result
  BY DEF Init, Unresolved, Result
<1> QED
  BY <1>1, <1>2 DEF Init, IInv, TypeOK, StackInv

(* The invariant of the recursion. *)
LEMMA Invariance == Spec => []IInv
BY Initially, Step, PTL DEF Spec

(* The calls on the stack have distinct names, all of schemas, so there are *)
(* no more of them than schemas.                                            *)
LEMMA Bounded == IInv => BoundedRecursion
<1> SUFFICES ASSUME IInv PROVE BoundedRecursion
  OBVIOUS
<1> DEFINE calls == 1..Len(stack)
           name == [k \in calls |-> stack[k].name]
<1>1. Len(stack) \in Nat /\ \A k \in calls : stack[k] \in Frame
  BY ElementOfSeq DEF IInv, TypeOK
<1>2. name \in [calls -> Schemas]
  BY <1>1 DEF Frame
<1>3. \A j, k \in calls : name[j] = name[k] => j = k
  <2> SUFFICES ASSUME NEW j \in calls, NEW k \in calls, j < k PROVE name[j] # name[k]
    BY <1>1
  <2>1. j \in 1..(k - 1)
    BY <1>1
  <2> QED
    BY <2>1 DEF IInv, StackInv, Call
<1>4. name \in Injection(calls, Schemas)
  BY <1>2, <1>3 DEF Injection, IsInjective
<1>5. Cardinality(calls) <= Cardinality(Schemas)
  BY <1>4, FS_Injection, SchemasAssumption
<1>6. Cardinality(calls) = Len(stack)
  <2>1. Cardinality(1..Len(stack)) = IF 1 > Len(stack) THEN 0 ELSE Len(stack) - 1 + 1
    BY <1>1, FS_Interval
  <2> QED
    BY <1>1, <2>1
<1> QED
  BY <1>5, <1>6 DEF BoundedRecursion

(* The types of the resolver's state, whatever the schemas refer to. *)
THEOREM TypeCorrect == Spec => []TypeOK
BY Invariance, PTL DEF IInv

(* The recursion of resolve never nests deeper than there are schemas.      *)
THEOREM RecursionBounded == Spec => []BoundedRecursion
BY Invariance, Bounded, PTL

(* An entry of _cache keeps its value for the life of the server, whatever  *)
(* is resolved after it: no schema that is being resolved has one.          *)
THEOREM CacheFinal == Spec => CacheIsFinal
<1>1. IInv /\ [Next]_vars => [\A n \in Schemas : cache[n].resolved => cache'[n] = cache[n]]_vars
  BY Step
<1> QED
  BY <1>1, Invariance, PTL DEF Spec, CacheIsFinal

-----------------------------------------------------------------------------
(* Walks along the $refs of a dictionary g, of any length. *)

Edge(g, m, n) == \E j \in 1..Len(g[m]) : g[m][j] = n

Walk(g, k, path, m, n) ==
  /\ path \in [0..k -> Schemas] /\ path[0] = m /\ path[k] = n
  /\ \A j \in 1..k : Edge(g, path[j - 1], path[j])

Lengths(g, m, n) == {k \in Nat : k > 0 /\ \E path \in [0..k -> Schemas] : Walk(g, k, path, m, n)}

Leads(g, m, n) == Lengths(g, m, n) # {}

LEMMA EdgeLeads ==
  ASSUME NEW g, NEW m \in Schemas, NEW n \in Schemas, Edge(g, m, n)
  PROVE  Leads(g, m, n)
<1> DEFINE path == [j \in 0..1 |-> IF j = 0 THEN m ELSE n]
<1>1. path \in [0..1 -> Schemas] /\ path[0] = m /\ path[1] = n
  OBVIOUS
<1> HIDE DEF path
<1>2. \A j \in 1..1 : Edge(g, path[j - 1], path[j])
  BY <1>1
<1>3. Walk(g, 1, path, m, n)
  BY <1>1, <1>2 DEF Walk
<1>4. 1 \in Lengths(g, m, n)
  BY <1>1, <1>3 DEF Lengths
<1> QED
  BY <1>4 DEF Leads

LEMMA LeadsOn ==
  ASSUME NEW g, NEW l, NEW m, NEW n, Leads(g, l, m), Leads(g, m, n)
  PROVE  Leads(g, l, n)
<1>1. PICK k \in Lengths(g, l, m) : TRUE
  BY DEF Leads
<1>2. k \in Nat /\ k > 0
  BY <1>1 DEF Lengths
<1>3. PICK p \in [0..k -> Schemas] : Walk(g, k, p, l, m)
  BY <1>1 DEF Lengths
<1>4. PICK i \in Lengths(g, m, n) : TRUE
  BY DEF Leads
<1>5. i \in Nat /\ i > 0
  BY <1>4 DEF Lengths
<1>6. PICK q \in [0..i -> Schemas] : Walk(g, i, q, m, n)
  BY <1>4 DEF Lengths
<1> DEFINE r == [j \in 0..(k + i) |-> IF j <= k THEN p[j] ELSE q[j - k]]
<1>7. \A j \in 0..(k + i) : (j <= k => j \in 0..k) /\ (~(j <= k) => j - k \in 1..i /\ j - k \in 0..i)
  BY <1>2, <1>5
<1>8. r \in [0..(k + i) -> Schemas]
  BY <1>7
<1>9. r[0] = l /\ r[k + i] = n
  <2>1. 0 \in 0..(k + i) /\ 0 <= k /\ k + i \in 0..(k + i) /\ ~(k + i <= k) /\ k + i - k = i
    BY <1>2, <1>5
  <2>2. r[0] = p[0]
    BY <2>1
  <2>3. \A j \in 0..(k + i) : ~(j <= k) => r[j] = q[j - k]
    OBVIOUS
  <2> HIDE DEF r
  <2>4. \A j \in 0..(k + i) : j = k + i => r[j] = q[i]
    <3>1. \A j \in 0..(k + i) : j = k + i => ~(j <= k) /\ j - k = i
      BY <1>2, <1>5
    <3> QED
      BY <2>3, <3>1
  <2>5. r[k + i] = q[i]
    BY <2>1, <2>4
  <2> QED
    BY <2>2, <2>5, <1>3, <1>6 DEF Walk
<1>10. ASSUME NEW j \in 1..(k + i)
       PROVE  Edge(g, r[j - 1], r[j])
  <2>1. j \in 0..(k + i) /\ j - 1 \in 0..(k + i)
    BY <1>2, <1>5
  <2>2. CASE j <= k
    <3>1. j \in 1..k /\ j - 1 <= k
      BY <1>2, <2>2
    <3>2. r[j] = p[j] /\ r[j - 1] = p[j - 1]
      BY <2>1, <2>2, <3>1
    <3> QED
      BY <1>3, <3>1, <3>2 DEF Walk
  <2>3. CASE j = k + 1
    <3>1. ~(j <= k) /\ j - 1 = k /\ j - k = 1 /\ 1 \in 1..i /\ k <= k
      BY <1>2, <1>5, <2>3
    <3>2. r[j] = q[1] /\ r[j - 1] = p[k]
      BY <2>1, <3>1
    <3>3. p[k] = q[0] /\ Edge(g, q[1 - 1], q[1])
      BY <1>3, <1>6, <3>1 DEF Walk
    <3>4. 1 - 1 = 0
      OBVIOUS
    <3> QED
      BY <3>2, <3>3, <3>4
  <2>4. CASE j > k + 1
    <3>1. /\ ~(j <= k) /\ ~(j - 1 <= k) /\ j - k \in 1..i
          /\ (j - 1) - k = (j - k) - 1
      BY <1>2, <1>5, <2>4
    <3>2. r[j] = q[j - k] /\ r[j - 1] = q[(j - k) - 1]
      BY <2>1, <3>1
    <3> QED
      BY <1>6, <3>1, <3>2 DEF Walk
  <2> QED
    BY <1>2, <2>2, <2>3, <2>4
<1> HIDE DEF r
<1>11. k + i \in Nat /\ k + i > 0
  BY <1>2, <1>5
<1>12. Walk(g, k + i, r, l, n)
  BY <1>8, <1>9, <1>10 DEF Walk
<1>13. k + i \in Lengths(g, l, n)
  BY <1>8, <1>11, <1>12 DEF Lengths
<1> QED
  BY <1>13 DEF Leads

(* A walk that comes by a schema twice can leave out what is in between. *)
LEMMA Shortened ==
  ASSUME NEW g, NEW m, NEW n, NEW k \in Nat, NEW p \in [0..k -> Schemas],
         Walk(g, k, p, m, n), NEW a \in 1..k, NEW b \in 1..k, a < b, p[a] = p[b]
  PROVE  k - (b - a) \in Lengths(g, m, n) /\ k - (b - a) < k
<1> DEFINE d == b - a
           l == k - d
           r == [j \in 0..l |-> IF j <= a THEN p[j] ELSE p[j + d]]
<1>1. d \in Nat /\ d > 0 /\ l \in Nat /\ l > 0 /\ l < k /\ a <= l
  OBVIOUS
<1>2. \A j \in 0..l : j \in 0..k /\ j + d \in 0..k
  BY <1>1
<1>3. r \in [0..l -> Schemas]
  BY <1>2
<1>4. r[0] = m /\ r[l] = n
  <2>1. 0 \in 0..l /\ 0 <= a /\ l \in 0..l /\ l + d = k
    BY <1>1
  <2>2. r[0] = p[0]
    BY <2>1
  <2>3. r[l] = p[k]
    <3>1. CASE l <= a
      <4>1. l = a /\ k = b
        BY <1>1, <3>1
      <4> QED
        BY <2>1, <3>1, <4>1
    <3>2. CASE ~(l <= a)
      BY <2>1, <3>2
    <3> QED
      BY <3>1, <3>2
  <2> QED
    BY <2>2, <2>3 DEF Walk
<1>5. ASSUME NEW j \in 1..l
      PROVE  Edge(g, r[j - 1], r[j])
  <2>1. j \in 0..l /\ j - 1 \in 0..l
    BY <1>1
  <2>2. CASE j <= a
    <3>1. j - 1 <= a /\ j \in 1..k
      BY <1>1, <2>2
    <3>2. r[j] = p[j] /\ r[j - 1] = p[j - 1]
      BY <2>1, <2>2, <3>1
    <3> QED
      BY <3>1, <3>2 DEF Walk
  <2>3. CASE ~(j <= a)
    <3>1. j + d \in 1..k /\ (j + d) - 1 = (j - 1) + d
      BY <1>1
    <3>2. r[j] = p[j + d]
      BY <2>1, <2>3
    <3>3. r[j - 1] = p[(j - 1) + d]
      <4>1. CASE j - 1 <= a
        <5>1. j - 1 = a /\ a + d = b
          BY <1>1, <2>3, <4>1
        <5> QED
          BY <2>1, <4>1, <5>1
      <4>2. CASE ~(j - 1 <= a)
        BY <2>1, <4>2
      <4> QED
        BY <4>1, <4>2
    <3>4. Edge(g, p[(j + d) - 1], p[j + d])
      BY <3>1 DEF Walk
    <3> QED
      BY <3>1, <3>2, <3>3, <3>4
  <2> QED
    BY <2>2, <2>3
<1> HIDE DEF r
<1>6. Walk(g, l, r, m, n)
  BY <1>3, <1>4, <1>5 DEF Walk
<1>7. l \in Lengths(g, m, n)
  BY <1>1, <1>3, <1>6 DEF Lengths
<1> QED
  BY <1>1, <1>7

(* So the shortest walk is no longer than there are schemas. *)
LEMMA LeadsReaches ==
  ASSUME NEW m, NEW n, Leads(refs, m, n)
  PROVE  Reaches(m, n)
<1>1. Lengths(refs, m, n) \in SUBSET Nat /\ Lengths(refs, m, n) # {}
  BY DEF Leads, Lengths
<1>2. PICK k \in Lengths(refs, m, n) : \A l \in Lengths(refs, m, n) : k <= l
  BY <1>1, HasLeast
<1>3. k \in Nat /\ k > 0
  BY <1>1 DEF Lengths
<1>4. PICK p \in [0..k -> Schemas] : Walk(refs, k, p, m, n)
  BY DEF Lengths
<1>5. \A a, b \in 1..k : a < b => p[a] # p[b]
  <2> SUFFICES ASSUME NEW a \in 1..k, NEW b \in 1..k, a < b, p[a] = p[b] PROVE FALSE
    OBVIOUS
  <2>1. k - (b - a) \in Lengths(refs, m, n) /\ k - (b - a) < k
    BY <1>3, <1>4, Shortened
  <2>2. k <= k - (b - a)
    BY <1>2, <2>1
  <2> QED
    BY <1>3, <2>1, <2>2
<1> DEFINE q == [j \in 1..k |-> p[j]]
<1>6. q \in Injection(1..k, Schemas)
  <2>1. q \in [1..k -> Schemas]
    BY <1>3
  <2>2. \A a, b \in 1..k : q[a] = q[b] => a = b
    <3>1. \A a, b \in 1..k : a < b \/ b < a \/ a = b
      BY <1>3
    <3> QED
      BY <1>5, <3>1
  <2> HIDE DEF q
  <2> QED
    BY <2>1, <2>2 DEF Injection, IsInjective
<1>7. Cardinality(1..k) <= Cardinality(Schemas) /\ Cardinality(Schemas) \in Nat
  BY <1>6, FS_Injection, FS_CardinalityType, SchemasAssumption
<1>8. Cardinality(1..k) = k
  <2>1. Cardinality(1..k) = IF 1 > k THEN 0 ELSE k - 1 + 1
    BY <1>3, FS_Interval
  <2> QED
    BY <1>3, <2>1
<1>9. k \in 1..Cardinality(Schemas)
  BY <1>3, <1>7, <1>8
<1>10. \A j \in 1..k : Refers(p[j - 1], p[j])
  BY <1>4 DEF Walk, Edge, Refers
<1> QED
  BY <1>4, <1>9, <1>10 DEF Reaches, Walk

-----------------------------------------------------------------------------
(* The loose ends of what is cached or in progress.  Every call on the stack *)
(* was reached from the calls below it; what is still ahead of it are $refs  *)
(* of its schema, and it sees the schemas of the stack and no other.         *)

LooseEnds(m, loose) == \A n \in loose : Leads(refs, m, n) /\ Leads(refs, n, n)

Nested(j, k) == Leads(refs, stack[j].name, stack[k].name)

CallKnows(k) ==
  /\ \A j \in 1..(k - 1) : Nested(j, k)
  /\ \A n \in stack[k].seen : \E j \in 1..k : stack[j].name = n
  /\ \A i \in 1..Len(stack[k].ahead) : Edge(refs, stack[k].name, stack[k].ahead[i])
  /\ LooseEnds(stack[k].name, stack[k].loose)

LooseInv ==
  /\ \A k \in 1..Len(stack) : CallKnows(k)
  /\ \A n \in Schemas : LooseEnds(n, cache[n].loose)

(* A call that has gone on knows what it knew, if what it added is true. *)
LEMMA CallKeeps ==
  ASSUME NEW k \in Nat, CallKnows(k), refs' = refs,
         \A j \in 1..k : stack'[j].name = stack[j].name,
         stack'[k].name = stack[k].name, stack'[k].seen = stack[k].seen,
         \A i \in 1..Len(stack'[k].ahead) : Edge(refs, stack[k].name, stack'[k].ahead[i]),
         LooseEnds(stack[k].name, stack'[k].loose)
  PROVE  CallKnows(k)'
<1>1. \A j \in 1..(k - 1) : j \in 1..k
  OBVIOUS
<1>2. \A j \in 1..(k - 1) : Leads(refs, stack'[j].name, stack'[k].name)
  BY <1>1 DEF CallKnows, Nested
<1>3. \A n \in stack'[k].seen : \E j \in 1..k : stack'[j].name = n
  BY DEF CallKnows
<1> QED
  BY <1>2, <1>3 DEF CallKnows, Nested, LooseEnds

LEMMA TailEdges ==
  ASSUME NEW m, NEW ahead \in Seq(Ref), ahead # <<>>,
         \A i \in 1..Len(ahead) : Edge(refs, m, ahead[i])
  PROVE  \A i \in 1..Len(Tail(ahead)) : Edge(refs, m, Tail(ahead)[i])
<1>1. Len(ahead) \in Nat /\ Len(ahead) > 0
  BY EmptySeq
<1>2. /\ Len(Tail(ahead)) = Len(ahead) - 1
      /\ \A i \in 1..Len(Tail(ahead)) : Tail(ahead)[i] = ahead[i + 1]
  BY HeadTailProperties
<1>3. \A i \in 1..Len(Tail(ahead)) : i + 1 \in 1..Len(ahead)
  BY <1>1, <1>2
<1> HIDE DEF Edge
<1> QED
  BY <1>2, <1>3

LEMMA AbsorbKnows ==
  ASSUME TypeOK, LooseInv, AtRef, NEW s \in SUBSET Schemas, Absorb(s),
         LooseEnds(Top.name, s), refs' = refs, cache' = cache
  PROVE  LooseInv'
<1> DEFINE L == Len(stack)
           frame == [Top EXCEPT !.ahead = Tail(Top.ahead), !.loose = s]
<1>1. Top \in Frame /\ L \in 1..L /\ Top = stack[L] /\ Top.ahead # <<>> /\ L \in Nat
  BY TopFrame DEF AtRef, Top, TypeOK
<1>2. Tail(Top.ahead) \in Seq(Ref)
  BY <1>1, HeadTailProperties DEF Frame
<1>3. /\ frame \in Frame /\ frame.name = Top.name /\ frame.seen = Top.seen
      /\ frame.ahead = Tail(Top.ahead) /\ frame.loose = s
  BY <1>1, <1>2 DEF Frame
<1>4. stack' = [stack EXCEPT ![L] = frame]
  BY DEF Absorb
<1> HIDE DEF frame
<1>5. Len(stack') = L /\ \A k \in 1..L : stack'[k] = IF k = L THEN frame ELSE stack[k]
  BY <1>1, <1>3, <1>4, ExceptSeq DEF TypeOK
<1> HIDE DEF L
<1>6. \A i \in 1..Len(frame.ahead) : Edge(refs, Top.name, frame.ahead[i])
  <2>1. Top.ahead \in Seq(Ref)
    BY <1>1 DEF Frame
  <2>2. \A i \in 1..Len(Top.ahead) : Edge(refs, Top.name, Top.ahead[i])
    BY <1>1 DEF LooseInv, CallKnows, L
  <2> QED
    BY <1>1, <1>3, <2>1, <2>2, TailEdges
<1>7. ASSUME NEW k \in 1..L
      PROVE  CallKnows(k)'
  <2>1. k \in Nat /\ \A j \in 1..k : j \in 1..L
    BY <1>1
  <2>2. CallKnows(k)
    BY DEF LooseInv, L
  <2>3. \A j \in 1..L : stack'[j].name = stack[j].name /\ stack'[j].seen = stack[j].seen
    BY <1>1, <1>3, <1>5
  <2>4. CASE k = L
    <3>1. /\ \A i \in 1..Len(stack'[k].ahead) : Edge(refs, stack[k].name, stack'[k].ahead[i])
          /\ LooseEnds(stack[k].name, stack'[k].loose)
      BY <1>1, <1>3, <1>5, <1>6, <2>4
    <3> QED
      BY <2>1, <2>2, <2>3, <3>1, CallKeeps
  <2>5. CASE k # L
    <3>1. stack'[k] = stack[k]
      BY <1>5, <2>5
    <3>2. /\ \A i \in 1..Len(stack'[k].ahead) : Edge(refs, stack[k].name, stack'[k].ahead[i])
          /\ LooseEnds(stack[k].name, stack'[k].loose)
      BY <2>2, <3>1 DEF CallKnows
    <3> QED
      BY <2>1, <2>2, <2>3, <3>2, CallKeeps
  <2> QED
    BY <2>4, <2>5
<1>8. \A n \in Schemas : LooseEnds(n, cache[n].loose)'
  BY DEF LooseInv, LooseEnds
<1> QED
  BY <1>5, <1>7, <1>8 DEF LooseInv

(* The next $ref is one of the schema of the innermost call. *)
LEMMA AheadLeads ==
  ASSUME TypeOK, LooseInv, AtRef, Ahead \in Schemas
  PROVE  /\ Top.name \in Schemas /\ Leads(refs, Top.name, Ahead)
         /\ Ahead \in Top.seen => Leads(refs, Ahead, Ahead)
<1> DEFINE L == Len(stack)
<1>1. Top \in Frame /\ L \in 1..L /\ Top = stack[L] /\ Top.ahead # <<>> /\ L \in Nat
  BY TopFrame DEF AtRef, Top, TypeOK
<1>2. Top.name \in Schemas /\ Top.ahead \in Seq(Ref)
  BY <1>1 DEF Frame
<1>3. CallKnows(L)
  BY <1>1 DEF LooseInv
<1>4. Edge(refs, Top.name, Ahead)
  <2>1. Len(Top.ahead) \in Nat \ {0}
    BY <1>1, <1>2, EmptySeq
  <2>2. 1 \in 1..Len(Top.ahead) /\ Ahead = Top.ahead[1]
    BY <1>1, <1>2, <2>1, HeadTailProperties DEF Ahead
  <2> QED
    BY <1>1, <1>3, <2>2 DEF CallKnows
<1>5. Leads(refs, Top.name, Ahead)
  BY <1>2, <1>4, EdgeLeads
<1>6. ASSUME Ahead \in Top.seen
      PROVE  Leads(refs, Ahead, Ahead)
  <2>1. PICK j \in 1..L : stack[j].name = Ahead
    BY <1>1, <1>3, <1>6 DEF CallKnows
  <2>2. CASE j = L
    BY <1>1, <1>5, <2>1, <2>2
  <2>3. CASE j # L
    <3>1. j \in 1..(L - 1)
      BY <1>1, <2>3
    <3>2. Leads(refs, Ahead, Top.name)
      BY <1>1, <1>3, <2>1, <3>1 DEF CallKnows, Nested
    <3> QED
      BY <1>5, <3>2, LeadsOn
  <2> QED
    BY <2>2, <2>3
<1> QED
  BY <1>2, <1>5, <1>6

LEMMA StepKnows ==
  ASSUME TypeOK, LooseInv, CacheHit \/ CircularRef \/ UnknownRef
  PROVE  LooseInv'
<1>1. /\ AtRef /\ Ahead \in Ref /\ Top \in Frame /\ Top.loose \in SUBSET Schemas
      /\ Top.name \in Schemas
  BY AheadRef DEF CacheHit, CircularRef, UnknownRef, Frame
<1>2. LooseEnds(Top.name, Top.loose)
  <2>1. Len(stack) \in 1..Len(stack)
    BY <1>1, TopFrame DEF AtRef
  <2> QED
    BY <2>1 DEF LooseInv, CallKnows, Top
<1>3. CASE CacheHit
  <2> DEFINE s == cache[Ahead].loose
  <2>1. Ahead \in Schemas /\ s \in SUBSET Schemas
    BY <1>3 DEF CacheHit, Cached, TypeOK, Result
  <2>2. Leads(refs, Top.name, Ahead) /\ LooseEnds(Ahead, s)
    BY <1>1, <2>1, AheadLeads DEF LooseInv
  <2> HIDE DEF s
  <2>3. LooseEnds(Top.name, Top.loose \cup s)
    BY <1>2, <2>2, LeadsOn DEF LooseEnds
  <2>4. Absorb(Top.loose \cup s) /\ refs' = refs /\ cache' = cache
    BY <1>3 DEF CacheHit, s
  <2> QED
    BY <1>1, <2>1, <2>3, <2>4, AbsorbKnows
<1>4. CASE CircularRef
  <2>1. Ahead \in Top.seen /\ Ahead \in Schemas
    BY <1>1, <1>4 DEF CircularRef, Frame
  <2>2. Leads(refs, Top.name, Ahead) /\ Leads(refs, Ahead, Ahead)
    BY <1>1, <2>1, AheadLeads
  <2>3. LooseEnds(Top.name, Mark(Ahead)) /\ Mark(Ahead) \in SUBSET Schemas
    BY <1>1, <1>2, <2>1, <2>2 DEF LooseEnds, Mark
  <2> QED
    BY <1>1, <1>4, <2>3, AbsorbKnows DEF CircularRef
<1>5. CASE UnknownRef
  BY <1>1, <1>2, <1>5, AbsorbKnows DEF UnknownRef
<1> QED
  BY <1>3, <1>4, <1>5

(* What a call starts with: all its $refs ahead, and nothing loose. *)
LEMMA EnterKnows ==
  ASSUME TypeOK, NEW n \in Schemas, NEW seen \in SUBSET Schemas
  PROVE  LET call == Enter(n, seen)
         IN  /\ call.name = n /\ call.seen = seen \cup {n} /\ call.loose = {}
             /\ \A i \in 1..Len(call.ahead) : Edge(refs, n, call.ahead[i])
BY DEF Enter, Edge

LEMMA AskKnows ==
  ASSUME TypeOK, LooseInv, NEW n \in Schemas, Ask(n)
  PROVE  LooseInv'
<1>1. refs' = refs /\ cache' = cache
  BY DEF Ask
<1>2. CASE Cached(n)
  BY <1>1, <1>2 DEF Ask, LooseInv, CallKnows, Nested, LooseEnds
<1>3. CASE ~Cached(n)
  <2> DEFINE call == Enter(n, {})
  <2>1. stack' = <<call>>
    BY <1>3 DEF Ask
  <2>2. /\ call.name = n /\ call.seen = {n} /\ call.loose = {}
        /\ \A i \in 1..Len(call.ahead) : Edge(refs, n, call.ahead[i])
    BY EnterKnows
  <2> HIDE DEF call
  <2>3. Len(stack') = 1 /\ stack'[1] = call
    BY <2>1
  <2>4. CallKnows(1)'
    BY <1>1, <2>2, <2>3 DEF CallKnows, LooseEnds
  <2> QED
    BY <1>1, <2>3, <2>4 DEF LooseInv, LooseEnds
<1> QED
  BY <1>2, <1>3

LEMMA RecurseKnows ==
  ASSUME TypeOK, LooseInv, Recurse
  PROVE  LooseInv'
<1> DEFINE L == Len(stack)
           call == Enter(Ahead, Top.seen)
<1>1. Top \in Frame /\ L \in 1..L /\ Top = stack[L] /\ L \in Nat /\ Top.seen \in SUBSET Schemas
  BY TopFrame DEF Recurse, AtRef, TypeOK, Top, Frame
<1>2. refs' = refs /\ cache' = cache /\ Ahead \in Schemas
  BY DEF Recurse
<1>3. call \in Frame
  BY <1>1, <1>2, EnterFrame
<1>4. /\ call.name = Ahead /\ call.seen = Top.seen \cup {Ahead} /\ call.loose = {}
      /\ \A i \in 1..Len(call.ahead) : Edge(refs, Ahead, call.ahead[i])
  BY <1>1, <1>2, EnterKnows
<1>5. Leads(refs, Top.name, Ahead)
  BY <1>2, AheadLeads DEF Recurse
<1>6. /\ Len(stack') = L + 1 /\ \A k \in 1..L : stack'[k] = stack[k]
      /\ stack'[L + 1] = call
  BY <1>3, AppendProperties DEF Recurse, TypeOK
<1> HIDE DEF call, L
<1>7. \A k \in 1..L : CallKnows(k)
  BY DEF LooseInv, L
<1>8. ASSUME NEW k \in 1..L
      PROVE  CallKnows(k)'
  <2>1. k \in Nat /\ CallKnows(k) /\ \A j \in 1..k : j \in 1..L
    BY <1>1, <1>7
  <2>2. \A j \in 1..k : stack'[j].name = stack[j].name
    BY <1>6, <2>1
  <2>3. stack'[k] = stack[k]
    BY <1>6
  <2>4. /\ \A i \in 1..Len(stack[k].ahead) : Edge(refs, stack[k].name, stack[k].ahead[i])
        /\ LooseEnds(stack[k].name, stack[k].loose)
    BY <2>1 DEF CallKnows
  <2> QED
    BY <1>2, <2>1, <2>2, <2>3, <2>4, CallKeeps
<1>9. ASSUME NEW k \in Nat, k = L + 1
      PROVE  CallKnows(k)'
  <2>1. \A j \in 1..L : Leads(refs, stack[j].name, Ahead)
    <3> TAKE j \in 1..L
    <3>1. CASE j = L
      BY <1>1, <1>5, <3>1
    <3>2. CASE j # L
      <4>1. j \in 1..(L - 1)
        BY <1>1, <3>2
      <4>2. Leads(refs, stack[j].name, Top.name)
        BY <1>1, <1>7, <4>1 DEF CallKnows, Nested
      <4> QED
        BY <1>5, <4>2, LeadsOn
    <3> QED
      BY <3>1, <3>2
  <2>2. \A j \in 1..(k - 1) : Leads(refs, stack'[j].name, stack'[k].name)
    <3>1. \A j \in 1..(k - 1) : j \in 1..L
      BY <1>1, <1>9
    <3> QED
      BY <1>4, <1>6, <1>9, <2>1, <3>1
  <2>3. \A n \in call.seen : \E j \in 1..k : stack'[j].name = n
    <3>1. \A n \in Top.seen : \E j \in 1..L : stack[j].name = n
      BY <1>1, <1>7 DEF CallKnows
    <3>2. k \in 1..k /\ \A j \in 1..L : j \in 1..k
      BY <1>1, <1>9
    <3>3. stack'[k] = call
      BY <1>6, <1>9
    <3> QED
      BY <1>4, <1>6, <3>1, <3>2, <3>3
  <2>4. stack'[k] = call
    BY <1>6, <1>9
  <2> QED
    BY <1>2, <1>4, <2>2, <2>3, <2>4 DEF CallKnows, Nested, LooseEnds
<1>10. ASSUME NEW k \in 1..Len(stack')
       PROVE  CallKnows(k)'
  <2>1. k \in Nat /\ (k \in 1..L \/ k = L + 1)
    BY <1>1, <1>6
  <2> QED
    BY <1>8, <1>9, <2>1
<1>11. \A n \in Schemas : LooseEnds(n, cache[n].loose)'
  BY <1>2 DEF LooseInv, LooseEnds
<1> QED
  BY <1>10, <1>11 DEF LooseInv

LEMMA ReturnKnows ==
  ASSUME IInv, LooseInv, Return
  PROVE  LooseInv'
<1> DEFINE L == Len(stack)
           left == Top.loose \ {Top.name}
<1>1. /\ TypeOK /\ Top \in Frame /\ L \in 1..L /\ Top = stack[L] /\ L \in Nat
      /\ Top.name \in Schemas
  BY TopFrame DEF IInv, Return, TypeOK, Top, Frame
<1>2. CallKnows(L)
  BY <1>1 DEF LooseInv
<1>3. LooseEnds(Top.name, left)
  BY <1>1, <1>2 DEF CallKnows, LooseEnds
<1>4. refs' = refs /\ cache' = [cache EXCEPT ![Top.name] = Resolved(left)]
  BY DEF Return
<1> HIDE DEF left
<1>5. \A n \in Schemas : LooseEnds(n, cache[n].loose)'
  <2> TAKE n \in Schemas
  <2>1. CASE n = Top.name
    <3>1. cache'[n].loose = left
      BY <1>4, <2>1, <1>1 DEF TypeOK, Resolved
    <3> QED
      BY <1>3, <1>4, <2>1, <3>1 DEF LooseEnds
  <2>2. CASE n # Top.name
    <3>1. cache'[n] = cache[n]
      BY <1>1, <1>4, <2>2 DEF TypeOK
    <3> QED
      BY <1>4, <3>1 DEF LooseInv, LooseEnds
  <2> QED
    BY <2>1, <2>2
<1>6. CASE L - 1 = 0
  <2>1. stack' = <<>>
    BY <1>6 DEF Return
  <2>2. Len(stack') = 0
    BY <2>1
  <2> QED
    BY <1>5, <2>2 DEF LooseInv
<1>7. CASE L - 1 # 0
  <2>1. PICK below : below = L - 1
    OBVIOUS
  <2>2. /\ below \in 1..L /\ below \in Nat /\ below < L
        /\ stack[below] \in Frame /\ stack[below].ahead # <<>>
        /\ Len(stack') = below
        /\ \A k \in 1..below :
             stack'[k].name = stack[k].name /\ stack'[k].seen = stack[k].seen
        /\ \A k \in 1..(below - 1) : stack'[k] = stack[k]
        /\ stack'[below].ahead = Tail(stack[below].ahead)
        /\ stack'[below].loose = stack[below].loose \cup left
    BY <1>7, <2>1, ReturnStack DEF left
  <2> HIDE DEF L
  <2>3. \A k \in 1..below : k \in Nat /\ k \in 1..L /\ \A j \in 1..k : j \in 1..below
    BY <1>1, <2>2
  <2>4. \A k \in 1..L : CallKnows(k)
    BY DEF LooseInv, L
  <2>5. Leads(refs, stack[below].name, Top.name)
    <3>1. below \in 1..(L - 1)
      BY <1>1, <2>1, <2>2
    <3> QED
      BY <1>1, <1>2, <3>1 DEF CallKnows, Nested
  <2>6. LooseEnds(stack[below].name, stack[below].loose \cup left)
    <3>1. LooseEnds(stack[below].name, stack[below].loose)
      BY <2>2, <2>4 DEF CallKnows
    <3>2. LooseEnds(stack[below].name, left)
      BY <1>3, <2>5, LeadsOn DEF LooseEnds
    <3> QED
      BY <3>1, <3>2 DEF LooseEnds
  <2>7. \A i \in 1..Len(Tail(stack[below].ahead)) :
          Edge(refs, stack[below].name, Tail(stack[below].ahead)[i])
    <3>1. \A i \in 1..Len(stack[below].ahead) : Edge(refs, stack[below].name, stack[below].ahead[i])
      BY <2>2, <2>4 DEF CallKnows
    <3>2. stack[below].ahead \in Seq(Ref)
      BY <2>2 DEF Frame
    <3> QED
      BY <2>2, <3>1, <3>2, TailEdges
  <2>8. ASSUME NEW k \in 1..below
        PROVE  CallKnows(k)'
    <3>1. k \in Nat /\ CallKnows(k) /\ \A j \in 1..k : stack'[j].name = stack[j].name
      BY <2>2, <2>3, <2>4
    <3>2. CASE k = below
      BY <1>4, <2>2, <2>6, <2>7, <3>1, <3>2, CallKeeps
    <3>3. CASE k # below
      <4>1. k \in 1..(below - 1)
        BY <2>2, <3>3
      <4>2. stack'[k] = stack[k]
        BY <2>2, <4>1
      <4>3. /\ \A i \in 1..Len(stack[k].ahead) : Edge(refs, stack[k].name, stack[k].ahead[i])
            /\ LooseEnds(stack[k].name, stack[k].loose)
        BY <3>1 DEF CallKnows
      <4> QED
        BY <1>4, <3>1, <4>2, <4>3, CallKeeps
    <3> QED
      BY <3>2, <3>3
  <2> QED
    BY <1>5, <2>2, <2>8 DEF LooseInv
<1> QED
  BY <1>6, <1>7

LEMMA LooseInitially == Init => LooseInv
<1> SUFFICES ASSUME Init PROVE LooseInv
  OBVIOUS
<1>1. Len(stack) = 0
  BY DEF Init
<1>2. \A n \in Schemas : cache[n].loose = {}
  BY DEF Init, Unresolved
<1> QED
  BY <1>1, <1>2 DEF LooseInv, LooseEnds

LEMMA LooseStep ==
  ASSUME IInv, LooseInv, [Next]_vars
  PROVE  LooseInv'
<1> USE DEF IInv
<1>1. CASE \E n \in Schemas : Ask(n)
  BY <1>1, AskKnows
<1>2. CASE CacheHit \/ CircularRef \/ UnknownRef
  BY <1>2, StepKnows
<1>3. CASE Recurse
  BY <1>3, RecurseKnows
<1>4. CASE Return
  BY <1>4, ReturnKnows
<1>5. CASE UNCHANGED vars
  BY <1>5 DEF vars, LooseInv, CallKnows, Nested, LooseEnds
<1> QED
  BY <1>1, <1>2, <1>3, <1>4, <1>5 DEF Next

(* A _circular_ref marker that nothing around it explains names a schema of  *)
(* a cycle that the cached schema leads to: a schema that leads to no cycle  *)
(* is resolved in full, whatever was asked before it.                        *)
THEOREM LooseEndsCyclic == Spec => []LooseEndsAreCyclic
<1>1. LooseInv => LooseEndsAreCyclic
  BY LeadsReaches DEF LooseInv, LooseEnds, LooseEndsAreCyclic
<1>2. Spec => []LooseInv
  BY Invariance, LooseInitially, LooseStep, PTL DEF Spec
<1> QED
  BY <1>1, <1>2, PTL
=============================================================================
