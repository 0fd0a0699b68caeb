------------------------- MODULE ToolSession_proofs -------------------------
(***************************************************************************)
(* Proofs about ToolSession, for any clients, catalogs, arguments and any  *)
(* number of calls.                                                        *)
(***************************************************************************)
EXTENDS ToolSession, NaturalsLemmas, FiniteSetTheorems, TLAPS

-----------------------------------------------------------------------------
(* The inductive invariant: where the request of a call can be. *)

(* Nothing was sent for this call. *)
NotSent(k) ==
  /\ \A r \in line : r.call # k
  /\ \A j \in 1..Len(log) : log[j].call # k

(* The calls in the inbox are open and wait once. *)
Waiting ==
  /\ \A n \in 1..Len(inbox) :
       outcome[inbox[n]] = "open" /\ inbox[n] # current /\ NotSent(inbox[n])
  /\ \A m, n \in 1..Len(inbox) : inbox[m] = inbox[n] => m = n

Awaited == current # 0 => outcome[current] = "open"

(* There is a response only to the request that is awaited. *)
Responded == response # NoResponse => current # 0

(* Nothing is, or was, under way for a refused call. *)
Refused == \A k \in 1..Len(outcome) : outcome[k] = "refused" => NotSent(k)

(* What is under way is what the arguments of its call amount to. *)
Asked ==
  \A r \in line :
    /\ r.call \in 1..Len(made) /\ r = RequestOf(r.call)
    /\ Permitted(made[r.call].args)
    /\ \A j \in 1..Len(log) : log[j].call # r.call

(* So is what was executed, over the version it was guarded by. *)
Justified(k, over) ==
  /\ k \in 1..Len(made) /\ Permitted(made[k].args)
  /\ RequestOf(k).method # "GET" /\ RequestOf(k).id \in executed
  /\ RequestOf(k).ifMatch \in {NoTag, over}

Logged == \A j \in 1..Len(log) : Justified(log[j].call, log[j].over)

ExecutedOnce ==
  \A i, j \in 1..Len(log) :
    RequestOf(log[i].call).id = RequestOf(log[j].call).id => i = j

Versions == version <= Len(log) + 1

IInv ==
  /\ TypeOK /\ Waiting /\ Awaited /\ Responded
  /\ Asked /\ Logged /\ ExecutedOnce /\ Versions /\ Refused

-----------------------------------------------------------------------------
(* Requests. *)

(* _find_operation finds an operation of the catalog if there is a match. *)
LEMMA FoundType ==
  ASSUME operations \in Seq(Operations), NEW args, Matches(args) # {}
  PROVE  Found(args) \in Operations
<1>1. Matches(args) \in SUBSET Nat
  BY DEF Matches
<1>2. \E j \in Matches(args) : \A m \in Matches(args) : j <= m
  BY <1>1, HasLeast
<1> DEFINE first == CHOOSE j \in Matches(args) : \A m \in Matches(args) : j <= m
<1>3. first \in Matches(args)
  BY <1>2
<1>4. first \in 1..Len(operations)
  BY <1>3 DEF Matches
<1> QED
  BY <1>4 DEF Found

(* The request of a permitted call has a type. *)
LEMMA RequestType ==
  ASSUME TypeOK, NEW k \in 1..Len(made), Permitted(made[k].args)
  PROVE  RequestOf(k) \in Request
<1>1. Found(made[k].args) \in OperationType
  <2>1. operations \in Seq(Operations)
    BY SessionAssumption DEF TypeOK
  <2>2. Matches(made[k].args) # {}
    BY DEF Permitted
  <2> QED
    BY <2>1, <2>2, FoundType, SessionAssumption
<1>2. /\ made[k].args \in ArgumentsType /\ made[k].ifMatch \in 0..(MaxCalls + 1)
  <2>1. made[k] \in CallType
    BY DEF TypeOK
  <2> QED
    BY <2>1, SessionAssumption DEF CallType
<1>3. k \in 1..MaxCalls
  BY SessionAssumption DEF TypeOK
<1>4. RequestId(Found(made[k].args), k) \in RequestIds \cup {Generated(n) : n \in 1..MaxCalls}
  BY <1>2, <1>3 DEF RequestId, ArgumentsType
<1>5. (IF Forwards(Found(made[k].args), "If-Match") THEN made[k].ifMatch ELSE NoTag)
        \in 0..(MaxCalls + 1)
  BY <1>2, SessionAssumption DEF NoTag
<1>6. Found(made[k].args).method \in {"GET", "PUT", "POST"}
  BY <1>1 DEF OperationType
<1> QED
  BY <1>3, <1>4, <1>5, <1>6 DEF RequestOf, Request

(* What was asked in a call does not change. *)
LEMMA CallsStay ==
  ASSUME TypeOK, [Next]_vars, NEW k \in 1..Len(made)
  PROVE  /\ k \in 1..Len(made') /\ made'[k] = made[k]
         /\ RequestOf(k)' = RequestOf(k)
         /\ Permitted(made[k].args)' = Permitted(made[k].args)
<1>1. operations' = operations /\ readOnly' = readOnly
  BY DEF Next, vars, loaded, Call, Refuse, SendFails, Send, Answer, TimesOut, Respond, Receive, Lose
<1>2. made' = made \/ \E x : made' = Append(made, x)
  BY DEF Next, vars, session, Call, Refuse, SendFails, Send, Answer, TimesOut, Respond,
         Receive, Lose
<1>3. made \in Seq(CallType)
  BY DEF TypeOK
<1>4. k \in 1..Len(made') /\ made'[k] = made[k]
  BY <1>2, <1>3
<1>5. Matches(made[k].args)' = Matches(made[k].args)
  BY <1>1, <1>4 DEF Matches
<1>6. Found(made[k].args)' = Found(made[k].args)
  BY <1>1, <1>4, <1>5 DEF Found
<1> QED
  BY <1>1, <1>4, <1>5, <1>6
     DEF RequestOf, RequestId, Forwards, Permitted, BlockedByReadOnly

(* Every logged write is of a call of its own, and so is a request under way: *)
(* there are no more of them than calls.                                      *)
LEMMA RoomForOne ==
  ASSUME TypeOK, Asked, Logged, ExecutedOnce, NEW r \in line
  PROVE  Len(log) + 1 <= MaxCalls
<1> DEFINE N == Len(log)
           caller == [j \in 1..(N + 1) |-> IF j <= N THEN log[j].call ELSE r.call]
<1>1. N \in Nat /\ MaxCalls \in Nat /\ Len(made) <= MaxCalls /\ Len(made) \in Nat
  BY SessionAssumption DEF TypeOK
<1>2. /\ \A j \in 1..N : log[j].call \in 1..MaxCalls /\ log[j].call # r.call
      /\ r.call \in 1..MaxCalls
  <2>1. r.call \in 1..Len(made) /\ \A j \in 1..N : log[j].call # r.call
    BY DEF Asked
  <2>2. \A j \in 1..N : log[j].call \in 1..Len(made)
    BY DEF Logged, Justified
  <2> QED
    BY <1>1, <2>1, <2>2
<1>3. \A i, j \in 1..N : log[i].call = log[j].call => i = j
  BY DEF ExecutedOnce
<1>4. caller \in Injection(1..(N + 1), 1..MaxCalls)
  <2>1. caller \in [1..(N + 1) -> 1..MaxCalls]
    BY <1>1, <1>2
  <2>2. ASSUME NEW i \in 1..(N + 1), NEW j \in 1..(N + 1), caller[i] = caller[j]
        PROVE  i = j
    BY <1>1, <1>2, <1>3, <2>2
  <2> QED
    BY <2>1, <2>2 DEF Injection, IsInjective
<1>5. IsFiniteSet(1..MaxCalls) /\ Cardinality(1..MaxCalls) = MaxCalls
  BY <1>1, FS_Interval
<1>6. Cardinality(1..(N + 1)) = N + 1
  BY <1>1, FS_Interval
<1>7. Cardinality(1..(N + 1)) <= Cardinality(1..MaxCalls)
  BY <1>4, <1>5, FS_Injection
<1> QED
  BY <1>5, <1>6, <1>7

-----------------------------------------------------------------------------
(* The invariant holds at first and is kept by every step. *)

LEMMA InvInit == Init => IInv
<1> SUFFICES ASSUME Init PROVE IInv
  OBVIOUS
<1>1. TypeOK
  <2>1. /\ made = <<>> /\ outcome = <<>> /\ inbox = <<>> /\ log = <<>> /\ line = {}
        /\ current = 0 /\ response = NoResponse /\ version = 1
        /\ operations \in Catalogs /\ readOnly \in BOOLEAN
        /\ etag = [c \in Clients |-> 0]
    BY DEF Init, NoTag
  <2> QED
    BY <2>1, SessionAssumption DEF TypeOK
<1> QED
  BY <1>1 DEF Init, IInv, Waiting, Awaited, Responded, Asked, Logged, ExecutedOnce,
              Versions, Refused

LEMMA TypeNext == IInv /\ [Next]_vars => TypeOK'
<1> SUFFICES ASSUME IInv, [Next]_vars PROVE TypeOK'
  OBVIOUS
<1> USE SessionAssumption DEF TypeOK, loaded, session, central
<1>0. TypeOK
  BY DEF IInv
<1>1. ASSUME NEW c \in Clients, NEW args \in Arguments, Call(c, args)
      PROVE  TypeOK'
  <2> DEFINE call == [client |-> c, args |-> args,
                      ifMatch |-> IF args.guarded THEN etag[c] ELSE NoTag]
  <2>1. call \in CallType
    BY <1>0 DEF CallType, NoTag
  <2>2. /\ made' = Append(made, call) /\ Len(made) < MaxCalls
        /\ outcome' = Append(outcome, "open") /\ inbox' = Append(inbox, Len(made) + 1)
        /\ UNCHANGED <<operations, readOnly, current, line, response, etag, version, log>>
    BY <1>1 DEF Call
  <2>3. made' \in Seq(CallType) /\ Len(made') = Len(made) + 1 /\ Len(made') <= MaxCalls
    BY <1>0, <2>1, <2>2
  <2>4. inbox \in Seq(1..Len(made')) /\ Len(made) + 1 \in 1..Len(made')
    BY <1>0, <2>3
  <2>5. inbox' \in Seq(1..Len(made'))
    BY <2>2, <2>4
  <2>6. current' \in 0..Len(made')
    BY <1>0, <2>2, <2>3
  <2>7. /\ outcome' \in Seq({"open", "refused", "uncertain", "answered"})
        /\ Len(outcome') = Len(made')
    BY <1>0, <2>2, <2>3
  <2> QED
    BY <1>0, <2>2, <2>3, <2>5, <2>6, <2>7
<1>2. CASE Refuse
  BY <1>0, <1>2 DEF Refuse, Idle
<1>3. CASE SendFails
  BY <1>0, <1>3 DEF SendFails, Idle
<1>4. CASE Send
  <2>1. Head(inbox) \in 1..Len(made) /\ Permitted(made[Head(inbox)].args)
        /\ Tail(inbox) \in Seq(1..Len(made))
    BY <1>0, <1>4 DEF Send, Idle
  <2>2. RequestOf(Head(inbox)) \in Request
    BY <1>0, <2>1, RequestType
  <2> QED
    BY <1>0, <1>4, <2>1, <2>2 DEF Send
<1>5. CASE Answer
  <2>1. current \in 1..Len(made) /\ response \in [tag : 0..(MaxCalls + 1)]
    BY <1>0, <1>5 DEF Answer
  <2>2. /\ outcome' \in Seq({"open", "refused", "uncertain", "answered"})
        /\ Len(outcome') = Len(outcome)
    BY <1>0, <1>5, <2>1 DEF Answer
  <2>3. etag' \in [Clients -> 0..(MaxCalls + 1)]
    BY <1>0, <1>5, <2>1 DEF Answer
  <2> QED
    BY <1>0, <1>5, <2>2, <2>3 DEF Answer
<1>6. CASE TimesOut
  BY <1>0, <1>6 DEF TimesOut
<1>7. ASSUME NEW r \in line, Receive(r)
      PROVE  TypeOK'
  <2>1. Len(log) + 1 <= MaxCalls /\ Len(log) \in Nat /\ version <= Len(log) + 1
    BY <1>0, RoomForOne DEF IInv, Versions
  <2>2. version + 1 \in 1..(MaxCalls + 1) /\ version \in 1..MaxCalls
    BY <1>0, <2>1
  <2>3. r \in Request /\ r.call \in 1..MaxCalls
    BY <1>0 DEF Request
  <2>4. Tagged(r) \in [tag : 0..(MaxCalls + 1)]
    BY <1>0, <2>2 DEF Tagged, NoTag
  <2>5. CASE Applies(r)
    <3>1. [call |-> r.call, method |-> r.method, over |-> version] \in Logging
      BY <2>2, <2>3, <2>5 DEF Applies, Logging, Request
    <3>2. /\ log' = Append(log, [call |-> r.call, method |-> r.method, over |-> version])
          /\ version' \in {version, version + 1}
          /\ line' = line \ {r} /\ response' \in {Tagged(r), response}
      BY <1>7, <2>5 DEF Receive
    <3>3. log' \in Seq(Logging)
      BY <1>0, <3>1, <3>2
    <3>4. version' \in 1..(MaxCalls + 1)
      BY <2>2, <3>2
    <3> QED
      BY <1>0, <1>7, <2>4, <3>2, <3>3, <3>4 DEF Receive
  <2>6. CASE ~Applies(r)
    BY <1>0, <1>7, <2>4, <2>6 DEF Receive
  <2> QED
    BY <2>5, <2>6
<1>8. ASSUME NEW r \in line, Lose(r)
      PROVE  TypeOK'
  BY <1>0, <1>8 DEF Lose
<1>9. ASSUME NEW r \in line, Respond(r)
      PROVE  TypeOK'
  <2>1. response' \in [tag : 0..(MaxCalls + 1)]
    BY <1>9 DEF Respond, NoTag
  <2> QED
    BY <1>0, <1>9, <2>1 DEF Respond
<1>10. CASE UNCHANGED vars
  BY <1>0, <1>10 DEF vars
<1> QED
  BY <1>1, <1>2, <1>3, <1>4, <1>5, <1>6, <1>7, <1>8, <1>9, <1>10 DEF Next

LEMMA WaitingNext == IInv /\ [Next]_vars => Waiting'
<1> SUFFICES ASSUME IInv, [Next]_vars PROVE Waiting'
  OBVIOUS
<1> USE DEF loaded, session, central
<1>0. TypeOK /\ Waiting /\ Awaited /\ Asked /\ Logged
  BY DEF IInv
<1>a. /\ inbox \in Seq(1..Len(made)) /\ Len(made) \in Nat /\ Len(outcome) = Len(made)
      /\ outcome \in Seq({"open", "refused", "uncertain", "answered"})
      /\ current \in 0..Len(made)
  BY <1>0 DEF TypeOK
<1>b. /\ \A r \in line : r.call \in 1..Len(made)
      /\ \A j \in 1..Len(log) : log[j].call \in 1..Len(made)
  BY <1>0 DEF Asked, Logged, Justified
<1>1. ASSUME NEW c \in Clients, NEW args \in Arguments, Call(c, args)
      PROVE  Waiting'
  <2> DEFINE new == Len(made) + 1
  <2>1. /\ outcome' = Append(outcome, "open") /\ inbox' = Append(inbox, new)
        /\ UNCHANGED <<current, line, log>>
    BY <1>1 DEF Call
  <2>2. /\ Len(inbox') = Len(inbox) + 1 /\ Len(inbox) \in Nat
        /\ inbox'[Len(inbox) + 1] = new
        /\ \A n \in 1..Len(inbox) : inbox'[n] = inbox[n] /\ inbox[n] \in 1..Len(made)
        /\ \A k \in 1..Len(made) : outcome'[k] = outcome[k]
        /\ outcome'[new] = "open"
    BY <1>a, <2>1
  <2>3. new # current /\ NotSent(new)
    BY <1>a, <1>b DEF NotSent
  <2>4. ASSUME NEW n \in 1..Len(inbox')
        PROVE  outcome'[inbox'[n]] = "open" /\ inbox'[n] # current' /\ NotSent(inbox[n])'
    <3>1. CASE n \in 1..Len(inbox)
      <4>1. outcome[inbox[n]] = "open" /\ inbox[n] # current /\ NotSent(inbox[n])
        BY <1>0, <3>1 DEF Waiting
      <4>2. inbox'[n] = inbox[n] /\ outcome'[inbox[n]] = outcome[inbox[n]]
        BY <2>2, <3>1
      <4> QED
        BY <2>1, <4>1, <4>2 DEF NotSent
    <3>2. CASE n = Len(inbox) + 1
      BY <2>1, <2>2, <2>3, <3>2 DEF NotSent
    <3> QED
      BY <2>2, <3>1, <3>2
  <2>5. ASSUME NEW m \in 1..Len(inbox'), NEW n \in 1..Len(inbox'), inbox'[m] = inbox'[n]
        PROVE  m = n
    <3>1. /\ m \in 1..Len(inbox) \/ m = Len(inbox) + 1
          /\ n \in 1..Len(inbox) \/ n = Len(inbox) + 1
      BY <2>2
    <3>2. CASE m \in 1..Len(inbox) /\ n \in 1..Len(inbox)
      <4>1. inbox[m] = inbox[n]
        BY <2>2, <2>5, <3>2
      <4> QED
        BY <1>0, <3>2, <4>1 DEF Waiting
    <3>3. new \notin 1..Len(made)
      BY <1>a
    <3> QED
      BY <2>2, <2>5, <3>1, <3>2, <3>3
  <2> QED
    BY <2>4, <2>5 DEF Waiting
<1>2. ASSUME inbox # <<>>, inbox' = Tail(inbox),
             \A k \in 1..Len(made) : k # Head(inbox) => outcome'[k] = outcome[k],
             \A n \in 1..Len(inbox) : inbox[n] # Head(inbox) => inbox[n] # current',
             \A r \in line' : r \in line \/ r.call = Head(inbox), log' = log
      PROVE  Waiting'
  <2>1. /\ Len(inbox') = Len(inbox) - 1 /\ Len(inbox) \in Nat \ {0}
        /\ \A n \in 1..Len(inbox') : inbox'[n] = inbox[n + 1] /\ n + 1 \in 1..Len(inbox)
        /\ Head(inbox) = inbox[1]
    BY <1>2, <1>a
  <2>2. ASSUME NEW n \in 1..Len(inbox')
        PROVE  outcome'[inbox'[n]] = "open" /\ inbox'[n] # current' /\ NotSent(inbox[n])'
    <3>1. inbox'[n] = inbox[n + 1] /\ inbox[n + 1] # inbox[1] /\ inbox[n + 1] \in 1..Len(made)
      BY <1>0, <1>a, <2>1 DEF Waiting
    <3>2. outcome[inbox[n + 1]] = "open" /\ NotSent(inbox[n + 1])
      BY <1>0, <2>1 DEF Waiting
    <3> QED
      BY <1>2, <2>1, <3>1, <3>2 DEF NotSent
  <2> QED
    BY <1>0, <2>1, <2>2 DEF Waiting
<1>3. ASSUME inbox' = inbox,
             \A n \in 1..Len(inbox) : outcome'[inbox[n]] = outcome[inbox[n]],
             \A n \in 1..Len(inbox) : inbox[n] # current',
             \A n \in 1..Len(inbox) : NotSent(inbox[n])'
      PROVE  Waiting'
  BY <1>0, <1>3 DEF Waiting
<1>4. CASE Refuse \/ SendFails
  <2>1. \A k \in 1..Len(made) : k # Head(inbox) => outcome'[k] = outcome[k]
    BY <1>4, <1>a DEF Refuse, SendFails
  <2> QED
    BY <1>0, <1>2, <1>4, <2>1 DEF Refuse, SendFails, Idle, Waiting
<1>5. CASE Send
  <2>1. (RequestOf(Head(inbox))).call = Head(inbox)
    BY DEF RequestOf
  <2> QED
    BY <1>2, <1>5, <2>1 DEF Send, Idle
<1>6. CASE Answer \/ TimesOut
  <2>1. ASSUME NEW n \in 1..Len(inbox)
        PROVE  /\ outcome'[inbox[n]] = outcome[inbox[n]] /\ inbox[n] # current'
               /\ NotSent(inbox[n])'
    <3>1. inbox[n] \in 1..Len(made) /\ inbox[n] # current /\ NotSent(inbox[n])
      BY <1>0, <1>a DEF Waiting
    <3> QED
      BY <1>6, <1>a, <3>1 DEF Answer, TimesOut, NotSent
  <2> QED
    BY <1>3, <1>6, <2>1 DEF Answer, TimesOut
<1>7. ASSUME NEW r \in line, Receive(r)
      PROVE  Waiting'
  <2>1. /\ UNCHANGED <<inbox, outcome, current>> /\ line' = line \ {r}
        /\ \/ log' = log
           \/ log' = Append(log, [call |-> r.call, method |-> r.method, over |-> version])
    BY <1>7 DEF Receive
  <2>2. ASSUME NEW n \in 1..Len(inbox)
        PROVE  NotSent(inbox[n])'
    <3>1. NotSent(inbox[n]) /\ r.call # inbox[n]
      BY <1>0 DEF Waiting, NotSent
    <3>2. log \in Seq(Logging)
      BY <1>0 DEF TypeOK
    <3>3. \A j \in 1..Len(log') :
            \/ j \in 1..Len(log) /\ log'[j] = log[j]
            \/ log'[j].call = r.call
      BY <2>1, <3>2
    <3> QED
      BY <2>1, <3>1, <3>3 DEF NotSent
  <2> QED
    BY <1>0, <1>3, <2>1, <2>2 DEF Waiting
<1>8. ASSUME NEW r \in line, Lose(r)
      PROVE  Waiting'
  BY <1>0, <1>3, <1>8 DEF Lose, Waiting, NotSent
<1>9. ASSUME NEW r \in line, Respond(r)
      PROVE  Waiting'
  BY <1>0, <1>3, <1>9 DEF Respond, Waiting, NotSent
<1>10. CASE UNCHANGED vars
  BY <1>0, <1>10 DEF vars, Waiting, NotSent
<1> QED
  BY <1>1, <1>4, <1>5, <1>6, <1>7, <1>8, <1>9, <1>10 DEF Next

(* Both parts that are about the call the loop is busy with. *)
LEMMA CurrentNext == IInv /\ [Next]_vars => Awaited' /\ Responded'
<1> SUFFICES ASSUME IInv, [Next]_vars PROVE Awaited' /\ Responded'
  OBVIOUS
<1> USE DEF loaded, session, central, Awaited, Responded
<1>0. TypeOK /\ Waiting /\ Awaited /\ Responded /\ Asked
  BY DEF IInv
<1>a. /\ inbox \in Seq(1..Len(made)) /\ Len(made) \in Nat /\ Len(outcome) = Len(made)
      /\ outcome \in Seq({"open", "refused", "uncertain", "answered"})
      /\ current \in 0..Len(made)
  BY <1>0 DEF TypeOK
<1>1. ASSUME NEW c \in Clients, NEW args \in Arguments, Call(c, args)
      PROVE  Awaited' /\ Responded'
  BY <1>0, <1>1, <1>a DEF Call
<1>2. CASE Refuse \/ SendFails
  BY <1>0, <1>2, <1>a DEF Refuse, SendFails, Idle
<1>3. CASE Send
  <2>1. inbox # <<>> /\ Head(inbox) = inbox[1] /\ 1 \in 1..Len(inbox)
    BY <1>3, <1>a DEF Send, Idle
  <2>2. outcome[Head(inbox)] = "open" /\ response = NoResponse
    BY <1>0, <1>3, <2>1 DEF Waiting, Send, Idle
  <2> QED
    BY <1>3, <2>2 DEF Send
<1>4. CASE Answer \/ TimesOut
  BY <1>0, <1>4 DEF Answer, TimesOut
<1>5. ASSUME NEW r \in line, Receive(r)
      PROVE  Awaited' /\ Responded'
  <2>1. UNCHANGED <<outcome, current>> /\ line' = line \ {r}
    BY <1>5 DEF Receive
  <2>2. CASE Unanswered(r)
    BY <1>0, <1>a, <2>1, <2>2 DEF Asked, Unanswered
  <2>3. CASE ~Unanswered(r)
    BY <1>0, <1>5, <2>1, <2>3 DEF Receive
  <2> QED
    BY <2>2, <2>3
<1>6. ASSUME NEW r \in line, Lose(r)
      PROVE  Awaited' /\ Responded'
  BY <1>0, <1>6 DEF Lose
<1>7. ASSUME NEW r \in line, Respond(r)
      PROVE  Awaited' /\ Responded'
  BY <1>0, <1>7, <1>a DEF Respond, Unanswered, Asked
<1>8. CASE UNCHANGED vars
  BY <1>0, <1>8 DEF vars
<1> QED
  BY <1>1, <1>2, <1>3, <1>4, <1>5, <1>6, <1>7, <1>8 DEF Next

(* How the requests under way and the log change. *)
LEMMA LineAndLog ==
  ASSUME IInv, [Next]_vars
  PROVE  /\ \A r \in line' : r \in line \/ (Send /\ r = RequestOf(Head(inbox)))
         /\ \/ log' = log /\ executed \subseteq executed' /\ version' = version
            \/ \E q \in line :
                 /\ q \notin line' /\ line' \subseteq line /\ Applies(q)
                 /\ log' = Append(log, [call |-> q.call, method |-> q.method, over |-> version])
                 /\ executed' = executed \cup {q.id}
                 /\ version' \in {version, version + 1}
<1> USE DEF loaded, session, central
<1>1. ASSUME NEW c \in Clients, NEW args \in Arguments, Call(c, args)
      PROVE  UNCHANGED <<line, log, executed, version>>
  BY <1>1 DEF Call
<1>2. CASE Refuse \/ SendFails \/ Answer \/ TimesOut \/ UNCHANGED vars
  BY <1>2 DEF Refuse, SendFails, Answer, TimesOut, vars
<1>3. CASE Send
  BY <1>3 DEF Send
<1>4. ASSUME NEW r \in line, Receive(r)
      PROVE  /\ line' = line \ {r}
             /\ \/ UNCHANGED <<log, executed, version>>
                \/ /\ Applies(r)
                   /\ log' = Append(log, [call |-> r.call, method |-> r.method, over |-> version])
                   /\ executed' = executed \cup {r.id}
                   /\ version' \in {version, version + 1}
  BY <1>4 DEF Receive
<1>5. ASSUME NEW r \in line, Lose(r)
      PROVE  line' = line \ {r} /\ UNCHANGED <<log, executed, version>>
  BY <1>5 DEF Lose
<1>6. ASSUME NEW r \in line, Respond(r)
      PROVE  UNCHANGED <<line, log, executed, version>>
  BY <1>6 DEF Respond
<1> QED
  BY <1>1, <1>2, <1>3, <1>4, <1>5, <1>6 DEF Next

LEMMA AskedNext == IInv /\ [Next]_vars => Asked'
<1> SUFFICES ASSUME IInv, [Next]_vars PROVE Asked'
  OBVIOUS
<1>0. TypeOK /\ Waiting /\ Asked
  BY DEF IInv
<1>a. log \in Seq(Logging)
  BY <1>0 DEF TypeOK
<1>1. ASSUME NEW r \in line'
      PROVE  /\ r.call \in 1..Len(made') /\ r = RequestOf(r.call)'
             /\ Permitted(made[r.call].args)'
             /\ \A j \in 1..Len(log') : log'[j].call # r.call
  <2>1. CASE r \in line
    <3>1. /\ r.call \in 1..Len(made) /\ r = RequestOf(r.call)
          /\ Permitted(made[r.call].args)
          /\ \A j \in 1..Len(log) : log[j].call # r.call
      BY <1>0, <2>1 DEF Asked
    <3>2. \A q \in line : q # r => q.call # r.call
      BY <1>0, <3>1 DEF Asked
    <3>3. \/ log' = log
          \/ \E q \in line : q # r /\ log' = Append(log, [call |-> q.call, method |-> q.method,
                                                         over |-> version])
      BY LineAndLog
    <3>4. \A j \in 1..Len(log') : log'[j].call # r.call
      <4>1. CASE log' = log
        BY <3>1, <4>1
      <4>2. ASSUME NEW q \in line, q # r,
                   log' = Append(log, [call |-> q.call, method |-> q.method, over |-> version])
            PROVE  \A j \in 1..Len(log') : log'[j].call # r.call
        BY <1>a, <3>1, <3>2, <4>2
      <4> QED
        BY <3>3, <4>1, <4>2
    <3>5. /\ r.call \in 1..Len(made') /\ RequestOf(r.call)' = RequestOf(r.call)
          /\ Permitted(made[r.call].args)' = Permitted(made[r.call].args)
      BY <1>0, <3>1, CallsStay
    <3> QED
      BY <3>1, <3>4, <3>5
  <2>2. CASE Send /\ r = RequestOf(Head(inbox))
    <3>1. r.call = Head(inbox) /\ r = RequestOf(r.call)
      BY <2>2 DEF RequestOf
    <3>2. /\ inbox \in Seq(1..Len(made)) /\ inbox # <<>> /\ log' = log
          /\ Permitted(made[r.call].args)
      BY <1>0, <2>2, <3>1 DEF Send, Idle, central, TypeOK
    <3>3. r.call \in 1..Len(made) /\ NotSent(r.call)
      BY <1>0, <3>1, <3>2 DEF Waiting
    <3>4. /\ r.call \in 1..Len(made') /\ RequestOf(r.call)' = RequestOf(r.call)
          /\ Permitted(made[r.call].args)' = Permitted(made[r.call].args)
      BY <1>0, <3>3, CallsStay
    <3> QED
      BY <3>1, <3>2, <3>3, <3>4 DEF NotSent
  <2> QED
    BY <2>1, <2>2, LineAndLog
<1> QED
  BY <1>1 DEF Asked

LEMMA LoggedNext == IInv /\ [Next]_vars => Logged' /\ ExecutedOnce' /\ Versions'
<1> SUFFICES ASSUME IInv, [Next]_vars PROVE Logged' /\ ExecutedOnce' /\ Versions'
  OBVIOUS
<1>0. TypeOK /\ Asked /\ Logged /\ ExecutedOnce /\ Versions
  BY DEF IInv
<1>a. log \in Seq(Logging) /\ version \in Nat /\ Len(log) \in Nat
  BY <1>0, SessionAssumption DEF TypeOK
<1>b. \A k \in 1..Len(made) : RequestOf(k)' = RequestOf(k)
  BY <1>0, CallsStay
<1>c. \A j \in 1..Len(log) : log[j].call \in 1..Len(made)
  BY <1>0 DEF Logged, Justified
<1>1. ASSUME NEW k, NEW over, executed \subseteq executed', Justified(k, over)
      PROVE  Justified(k, over)'
  <2>1. k \in 1..Len(made)
    BY <1>1 DEF Justified
  <2>2. /\ k \in 1..Len(made') /\ RequestOf(k)' = RequestOf(k)
        /\ Permitted(made[k].args)' = Permitted(made[k].args)
    BY <1>0, <2>1, CallsStay
  <2> QED
    BY <1>1, <2>2 DEF Justified, NoTag
<1>2. CASE log' = log /\ executed \subseteq executed' /\ version' = version
  <2>1. Logged'
    BY <1>0, <1>1, <1>2 DEF Logged
  <2>2. ExecutedOnce'
    BY <1>0, <1>b, <1>c, <1>2 DEF ExecutedOnce
  <2> QED
    BY <1>0, <1>2, <2>1, <2>2 DEF Versions
<1>3. ASSUME NEW q \in line, Applies(q),
             log' = Append(log, [call |-> q.call, method |-> q.method, over |-> version]),
             executed' = executed \cup {q.id}, version' \in {version, version + 1}
      PROVE  Logged' /\ ExecutedOnce' /\ Versions'
  <2> DEFINE N == Len(log)
  <2>1. /\ q.call \in 1..Len(made) /\ q = RequestOf(q.call) /\ Permitted(made[q.call].args)
        /\ q.call \in 1..Len(made') /\ RequestOf(q.call)' = q
        /\ Permitted(made[q.call].args)'
    <3>1. q.call \in 1..Len(made) /\ q = RequestOf(q.call) /\ Permitted(made[q.call].args)
      BY <1>0 DEF Asked
    <3> QED
      BY <1>0, <3>1, CallsStay
  <2>2. /\ Len(log') = N + 1 /\ \A j \in 1..N : log'[j] = log[j]
        /\ log'[N + 1].call = q.call /\ log'[N + 1].over = version
        /\ \A j \in 1..Len(log') : j \in 1..N \/ j = N + 1
    BY <1>a, <1>3
  <2>3. \A j \in 1..N : Justified(log[j].call, log[j].over)'
    <3> SUFFICES ASSUME NEW j \in 1..N PROVE Justified(log[j].call, log[j].over)'
      OBVIOUS
    <3> DEFINE k == log[j].call over == log[j].over
    <3>1. log'[j].call = k /\ log'[j].over = over /\ Justified(k, over)
      BY <1>0, <2>2 DEF Logged
    <3> QED
      BY <1>1, <1>3, <3>1
  <2>4. ASSUME NEW over, over = version
        PROVE  Justified(q.call, over)'
    BY <1>3, <2>1, <2>4 DEF Applies, Justified, NoTag
  <2>5. Logged'
    BY <2>2, <2>3, <2>4 DEF Logged
  <2>6. ExecutedOnce'
    <3>1. \A j \in 1..N : RequestOf(log[j].call)'.id \in executed
      BY <1>0, <1>b, <2>2 DEF Logged, Justified
    <3>2. /\ q.id \notin executed
          /\ \A j : j = N + 1 => RequestOf(log[j].call)'.id = q.id
      BY <1>3, <2>1, <2>2 DEF Applies
    <3>3. \A i, j \in 1..N :
            RequestOf(log[i].call)'.id = RequestOf(log[j].call)'.id => i = j
      BY <1>0, <1>b, <1>c, <2>2 DEF ExecutedOnce
    <3> QED
      BY <2>2, <3>1, <3>2, <3>3 DEF ExecutedOnce
  <2>7. Versions'
    BY <1>0, <1>3, <1>a, <2>2 DEF Versions
  <2> QED
    BY <2>5, <2>6, <2>7
<1> QED
  BY <1>2, <1>3, LineAndLog

LEMMA RefusedNext == IInv /\ [Next]_vars => Refused'
<1> SUFFICES ASSUME IInv, [Next]_vars PROVE Refused'
  OBVIOUS
<1> USE DEF loaded, session, central, NotSent
<1>0. TypeOK /\ Waiting /\ Awaited /\ Refused
  BY DEF IInv
<1>a. /\ Len(made) \in Nat /\ Len(outcome) = Len(made) /\ log \in Seq(Logging)
      /\ outcome \in Seq({"open", "refused", "uncertain", "answered"})
      /\ inbox \in Seq(1..Len(made)) /\ current \in 0..Len(made)
  BY <1>0 DEF TypeOK
<1>b. inbox # <<>> => /\ Head(inbox) \in 1..Len(made) /\ NotSent(Head(inbox))
                      /\ outcome[Head(inbox)] = "open"
  BY <1>0, <1>a DEF Waiting
<1>c. \A k \in 1..Len(outcome) : outcome[k] = "refused" => NotSent(k)
  BY <1>0 DEF Refused
<1>1. ASSUME NEW c \in Clients, NEW args \in Arguments, Call(c, args)
      PROVE  Refused'
  <2>1. outcome' = Append(outcome, "open") /\ UNCHANGED <<line, log>>
    BY <1>1 DEF Call
  <2>2. \A k \in 1..Len(outcome') :
          outcome'[k] = "open" \/ (k \in 1..Len(outcome) /\ outcome'[k] = outcome[k])
    BY <1>a, <2>1
  <2> QED
    BY <1>c, <2>1, <2>2 DEF Refused
<1>2. CASE Refuse \/ SendFails
  <2>1. /\ Len(outcome') = Len(outcome) /\ UNCHANGED <<line, log>>
        /\ \A k \in 1..Len(outcome) : k # Head(inbox) => outcome'[k] = outcome[k]
    BY <1>2, <1>a DEF Refuse, SendFails
  <2>2. NotSent(Head(inbox))
    BY <1>2, <1>b DEF Refuse, SendFails, Idle
  <2> QED
    BY <1>c, <2>1, <2>2 DEF Refused
<1>3. CASE Send
  <2>1. /\ outcome[Head(inbox)] = "open" /\ line' = line \cup {RequestOf(Head(inbox))}
        /\ UNCHANGED <<outcome, log>> /\ RequestOf(Head(inbox)).call = Head(inbox)
    BY <1>3, <1>b DEF Send, Idle, RequestOf
  <2> QED
    BY <1>c, <2>1 DEF Refused
<1>4. CASE Answer \/ TimesOut
  <2>1. /\ Len(outcome') = Len(outcome) /\ UNCHANGED <<line, log>>
        /\ \A k \in 1..Len(outcome) : k # current => outcome'[k] = outcome[k]
        /\ outcome'[current] \in {"uncertain", "answered"}
    BY <1>4, <1>a DEF Answer, TimesOut
  <2> QED
    BY <1>c, <2>1 DEF Refused
<1>5. ASSUME NEW q \in line, Receive(q)
      PROVE  Refused'
  <2>1. /\ outcome' = outcome /\ line' \subseteq line
        /\ \/ log' = log
           \/ log' = Append(log, [call |-> q.call, method |-> q.method, over |-> version])
    BY <1>5 DEF Receive
  <2>2. \A j \in 1..Len(log') : log'[j].call = q.call \/ (j \in 1..Len(log) /\ log'[j] = log[j])
    BY <1>a, <2>1
  <2>3. \A k \in 1..Len(outcome) : outcome[k] = "refused" => q.call # k
    BY <1>c
  <2> QED
    BY <1>c, <2>1, <2>2, <2>3 DEF Refused
<1>6. ASSUME NEW q \in line, Lose(q) \/ Respond(q)
      PROVE  Refused'
  BY <1>c, <1>6 DEF Lose, Respond, Refused
<1>7. CASE UNCHANGED vars
  BY <1>c, <1>7 DEF vars, Refused
<1> QED
  BY <1>1, <1>2, <1>3, <1>4, <1>5, <1>6, <1>7 DEF Next

(* The inductive invariant holds of every behaviour of _call_tool, the        *)
(* clients and Prism Central.                                                *)
THEOREM Invariance == Spec => []IInv
<1>1. Init => IInv
  BY InvInit
<1>2. IInv /\ [Next]_vars => IInv'
  BY TypeNext, WaitingNext, CurrentNext, AskedNext, LoggedNext, RefusedNext DEF IInv
<1> QED
  BY <1>1, <1>2, PTL DEF Spec

-----------------------------------------------------------------------------
(* What follows from the invariant. *)

(* In every reachable state the variables have their types. *)
THEOREM TypeCorrect == Spec => []TypeOK
<1>1. IInv => TypeOK
  BY DEF IInv
<1> QED
  BY <1>1, Invariance, PTL

(* For any catalog and any calls: a refused call has no effect, then or       *)
(* later, and no other has two, whether it was answered before its request    *)
(* was executed, after it, or not at all.                                     *)
THEOREM WritesAtMostOnce == Spec => []CallsWriteAtMostOnce
<1>1. IInv => CallsWriteAtMostOnce
  BY DEF IInv, Refused, NotSent, ExecutedOnce, CallsWriteAtMostOnce
<1> QED
  BY <1>1, Invariance, PTL

(* In read-only mode nothing but a GET is under way and nothing is written,   *)
(* whatever the catalog holds under the name that is called.                  *)
THEOREM ReadOnly == Spec => []ReadOnlyNeverWrites
<1>1. IInv => ReadOnlyNeverWrites
  <2> SUFFICES ASSUME IInv, readOnly PROVE log = <<>> /\ \A r \in line : r.method = "GET"
    BY DEF ReadOnlyNeverWrites
  <2>1. ASSUME NEW k, Permitted(made[k].args)
        PROVE  RequestOf(k).method = "GET"
    BY <2>1 DEF Permitted, BlockedByReadOnly, RequestOf
  <2>2. \A r \in line : r.method = "GET"
    BY <2>1 DEF IInv, Asked
  <2>3. 1..Len(log) = {}
    BY <2>1 DEF IInv, Logged, Justified
  <2>4. log = <<>>
    <3>1. log \in Seq(Logging) /\ Len(log) \in Nat
      BY DEF IInv, TypeOK
    <3>2. Len(log) = 0
      BY <2>3, <3>1
    <3> QED
      BY <3>1, <3>2
  <2> QED
    BY <2>2, <2>4
<1> QED
  BY <1>1, Invariance, PTL

(* A write that passed the _etag it read replaces that version, for any       *)
(* number of clients and however late requests arrive.                        *)
THEOREM GuardedWrites == Spec => []GuardedWritesReplaceWhatWasRead
<1>1. IInv => GuardedWritesReplaceWhatWasRead
  <2> SUFFICES ASSUME IInv, NEW j \in 1..Len(log),
                      made[log[j].call].ifMatch # NoTag, Declares(log[j].call, "If-Match")
               PROVE  log[j].over = made[log[j].call].ifMatch
    BY DEF GuardedWritesReplaceWhatWasRead
  <2>1. RequestOf(log[j].call).ifMatch = made[log[j].call].ifMatch
    BY DEF RequestOf, Forwards, Declares
  <2> QED
    BY <2>1 DEF IInv, Logged, Justified
<1> QED
  BY <1>1, Invariance, PTL

(* Two writes under one id that a client chose are not both executed.         *)
THEOREM ChosenIdsOnce == Spec => []ChosenIdsExecuteOnce
<1>1. IInv => ChosenIdsExecuteOnce
  <2> SUFFICES ASSUME IInv, NEW j \in 1..Len(log), NEW m \in 1..Len(log), j # m,
                      Declares(log[j].call, "NTNX-Request-Id"),
                      Declares(log[m].call, "NTNX-Request-Id"),
                      made[log[j].call].args.id = made[log[m].call].args.id,
                      made[log[j].call].args.id # NoId
               PROVE  FALSE
    BY DEF ChosenIdsExecuteOnce
  <2>1. /\ RequestOf(log[j].call).id = made[log[j].call].args.id
        /\ RequestOf(log[m].call).id = made[log[m].call].args.id
    BY DEF RequestOf, RequestId, Forwards, Declares
  <2> QED
    BY <2>1 DEF IInv, ExecutedOnce
<1> QED
  BY <1>1, Invariance, PTL
=============================================================================
