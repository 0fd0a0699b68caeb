---------------------------- MODULE ToolSession ----------------------------
(***************************************************************************)
(* <namespace>_execute: the calls of several MCP clients, the dispatcher   *)
(* that serves them one after the other on the event loop, the request it  *)
(* sends for a call and the timeout it waits under, and Prism Central,     *)
(* which may execute a request long after the call was answered.           *)
(*                                                                         *)
(* Clients and Prism Central are external.  A client follows the If-Match  *)
(* workflow of _build_instructions when it wants to: it keeps the _etag of *)
(* its last result and passes it back.  Prism Central may answer before it *)
(* has decided anything (a queued job or task, a 5xx); when it executes a  *)
(* request it compares If-Match with the resource, and it executes a       *)
(* request id once.                                                        *)
(***************************************************************************)
EXTENDS Naturals, Sequences, FiniteSets

CONSTANTS
  Clients,
  Operations,   \* what a specification may declare
  Catalogs,     \* load_result.operations: sequences of operations
  Arguments,    \* what a client may pass to a tool
  RequestIds,   \* the NTNX-Request-Id values clients choose
  MaxCalls      \* bound: the calls made

NoId == <<"none", 0>>    \* the argument is not passed
Generated(k) == <<"auto", k>>  \* str(uuid.uuid4()) in call k: no other call's
NoTag == 0               \* no _etag; the resource's own tags are 1, 2, ...

(* Of an operation: where it is found, its method, the headers among If-Match *)
(* and NTNX-Request-Id that it declares, and whether its path has a parameter. *)
OperationType == [namespace : STRING, name : STRING, method : {"GET", "PUT", "POST"},
                  headers : SUBSET {"If-Match", "NTNX-Request-Id"}, inPath : BOOLEAN]

(* Of the arguments: the tool's namespace, the operation, whether the last    *)
(* _etag is passed as If-Match, the request id, whether the path parameter is *)
(* there, and whether request_body is an object (or absent).                  *)
ArgumentsType == [namespace : STRING, operation : STRING, guarded : BOOLEAN,
                  id : RequestIds \cup {NoId}, inPath : BOOLEAN, bodyOk : BOOLEAN]

ASSUME SessionAssumption ==
  /\ Operations \subseteq OperationType /\ Catalogs \subseteq Seq(Operations)
  /\ Arguments \subseteq ArgumentsType
  /\ NoId \notin RequestIds /\ \A k \in 1..MaxCalls : Generated(k) \notin RequestIds
  /\ MaxCalls \in Nat

VARIABLES
  operations,  \* the loaded catalog; never changes
  readOnly,    \* read_only_mode; never changes
  made,        \* every call so far: its client, arguments, and If-Match value
  outcome,     \* how each was answered
  inbox,       \* the calls waiting for the event loop
  current,     \* the call whose request is awaited, 0 when the loop is free
  line,        \* the requests under way, or accepted and not yet executed
  response,    \* the response to the current request, once it is there
  etag,        \* the _etag each client saw last
  version,     \* the tag of the resource on Prism Central
  executed,    \* the request ids Prism Central has executed
  log          \* history: the writes executed, with the tag they replaced

loaded == <<operations, readOnly>>
session == <<made, outcome, inbox, etag>>
central == <<version, executed, log>>
vars == <<loaded, session, current, line, response, central>>

Request == [call : 1..MaxCalls, method : {"GET", "PUT", "POST"}, ifMatch : 0..(MaxCalls + 1),
            id : RequestIds \cup {Generated(k) : k \in 1..MaxCalls}]
NoResponse == <<>>

CallType == [client : Clients, args : Arguments, ifMatch : 0..(MaxCalls + 1)]
Logging == [call : 1..MaxCalls, method : {"PUT", "POST"}, over : 1..MaxCalls]

TypeOK ==
  /\ operations \in Catalogs /\ readOnly \in BOOLEAN
  /\ made \in Seq(CallType) /\ Len(made) <= MaxCalls
  /\ outcome \in Seq({"open", "refused", "uncertain", "answered"})
  /\ Len(outcome) = Len(made)
  /\ inbox \in Seq(1..Len(made)) /\ current \in 0..Len(made)
  /\ line \subseteq Request
  /\ response = NoResponse \/ response \in [tag : 0..(MaxCalls + 1)]
  /\ etag \in [Clients -> 0..(MaxCalls + 1)]
  /\ version \in 1..(MaxCalls + 1)
  /\ log \in Seq(Logging)

Init ==
  /\ operations \in Catalogs /\ readOnly \in BOOLEAN
  /\ made = <<>> /\ outcome = <<>> /\ inbox = <<>>
  /\ current = 0 /\ line = {} /\ response = NoResponse
  /\ etag = [c \in Clients |-> NoTag]
  /\ version = 1 /\ executed = {} /\ log = <<>>

-----------------------------------------------------------------------------
(* Mutations. *)

BlocksOnlyPut(op) == readOnly /\ op.method = "PUT"
DropsHeaders(op, header) == FALSE
ReplacesId(op, k) == Generated(k)
GeneratesNone(op, k) == made[k].args.id
TimeoutIsRefusal ==
  /\ current # 0 /\ response = NoResponse
  /\ outcome' = [outcome EXCEPT ![current] = "refused"]
  /\ current' = 0
  /\ UNCHANGED <<loaded, made, inbox, etag, line, response, central>>
WaitsForever == FALSE

-----------------------------------------------------------------------------
(* The clients. *)

(* A client with no call outstanding makes one. *)
Call(c, args) ==
  /\ Len(made) < MaxCalls
  /\ \A k \in 1..Len(made) : made[k].client = c => outcome[k] # "open"
  /\ made' = Append(made, [client |-> c, args |-> args,
                           ifMatch |-> IF args.guarded THEN etag[c] ELSE NoTag])
  /\ outcome' = Append(outcome, "open")
  /\ inbox' = Append(inbox, Len(made) + 1)
  /\ UNCHANGED <<loaded, current, line, response, etag, central>>

-----------------------------------------------------------------------------
(* The dispatcher.  call_tool is synchronous, so the event loop takes up no *)
(* other call before this one is answered.                                  *)

(* The first operation of this name in this namespace, for both the contract *)
(* check and _find_operation.                                                *)
Matches(args) ==
  {j \in 1..Len(operations) : operations[j].namespace = args.namespace
                              /\ operations[j].name = args.operation}
Found(args) == operations[CHOOSE j \in Matches(args) : \A m \in Matches(args) : j <= m]

BlockedByReadOnly(op) == readOnly /\ op.method # "GET"

(* The refusals of _handle_namespace_execute, and then the ValueError of      *)
(* _resolve_path, which is reported as an execution_error.                    *)
Permitted(args) ==
  Matches(args) # {} /\ args.bodyOk /\ ~BlockedByReadOnly(Found(args))
PathResolves(args) == Found(args).inPath => args.inPath

(* A header argument is forwarded if the operation declares the header. *)
Forwards(op, header) == header \in op.headers

(* The id a client passed is kept, and a fresh one is set otherwise. *)
RequestId(op, k) ==
  IF Forwards(op, "NTNX-Request-Id") /\ made[k].args.id # NoId
    THEN made[k].args.id ELSE Generated(k)

RequestOf(k) ==
  LET op == Found(made[k].args)
  IN  [call |-> k, method |-> op.method,
       ifMatch |-> IF Forwards(op, "If-Match") THEN made[k].ifMatch ELSE NoTag,
       id |-> RequestId(op, k)]

Idle == current = 0 /\ inbox # <<>>

Refuse ==
  /\ Idle /\ ~Permitted(made[Head(inbox)].args)
  /\ outcome' = [outcome EXCEPT ![Head(inbox)] = "refused"]
  /\ inbox' = Tail(inbox)
  /\ UNCHANGED <<loaded, made, etag, current, line, response, central>>

(* No request leaves: a path parameter is missing, or no connection is made. *)
SendFails ==
  /\ Idle /\ Permitted(made[Head(inbox)].args)
  /\ outcome' = [outcome EXCEPT ![Head(inbox)] = "uncertain"]
  /\ inbox' = Tail(inbox)
  /\ UNCHANGED <<loaded, made, etag, current, line, response, central>>

Send ==
  /\ Idle /\ Permitted(made[Head(inbox)].args) /\ PathResolves(made[Head(inbox)].args)
  /\ current' = Head(inbox) /\ inbox' = Tail(inbox)
  /\ line' = line \cup {RequestOf(Head(inbox))}
  /\ UNCHANGED <<loaded, made, outcome, etag, response, central>>

(* _as_result: whatever the status (202 and 503 as well as 200), the result *)
(* is ok, with the _etag if the response has one.                           *)
Answer ==
  /\ current # 0 /\ response # NoResponse
  /\ outcome' = [outcome EXCEPT ![current] = "answered"]
  /\ etag' = [etag EXCEPT ![made[current].client] =
               IF response.tag # NoTag THEN response.tag ELSE @]
  /\ current' = 0 /\ response' = NoResponse
  /\ UNCHANGED <<loaded, made, inbox, line, central>>

(* httpx raises: the timeout passed, or the connection broke, before or      *)
(* after Prism Central got the request.  There is no retry.                  *)
TimesOut ==
  /\ current # 0
  /\ outcome' = [outcome EXCEPT ![current] = "uncertain"]
  /\ current' = 0 /\ response' = NoResponse
  /\ UNCHANGED <<loaded, made, inbox, etag, line, central>>

-----------------------------------------------------------------------------
(* Prism Central. *)

Applies(r) ==
  /\ r.method # "GET" /\ r.id \notin executed
  /\ r.ifMatch \in {NoTag, version}

(* A GET answers with the resource's tag, a PUT with the new one. *)
Tagged(r) ==
  [tag |-> CASE r.method = "GET" -> version
             [] r.method = "PUT" /\ Applies(r) -> version + 1
             [] OTHER -> NoTag]

Unanswered(r) == r.call = current /\ response = NoResponse

(* An answer that leaves the request where it is: a job or task that is     *)
(* QUEUED, or a 5xx of a gateway that has passed it on.                     *)
Respond(r) ==
  /\ r \in line /\ Unanswered(r)
  /\ response' = [tag |-> NoTag]
  /\ UNCHANGED <<loaded, session, current, line, central>>

(* The request is executed or rejected, and answered if it has not been. *)
Receive(r) ==
  /\ r \in line /\ line' = line \ {r}
  /\ response' = IF Unanswered(r) THEN Tagged(r) ELSE response
  /\ IF Applies(r)
       THEN /\ log' = Append(log, [call |-> r.call, method |-> r.method, over |-> version])
            /\ executed' = executed \cup {r.id}
            /\ version' = IF r.method = "PUT" THEN version + 1 ELSE version
       ELSE UNCHANGED central
  /\ UNCHANGED <<loaded, session, current>>

(* A message is lost, or a job fails. *)
Lose(r) ==
  /\ r \in line /\ line' = line \ {r}
  /\ UNCHANGED <<loaded, session, current, response, central>>

-----------------------------------------------------------------------------
Next ==
  \/ \E c \in Clients, args \in Arguments : Call(c, args)
  \/ Refuse \/ SendFails \/ Send \/ Answer \/ TimesOut
  \/ \E r \in line : Respond(r) \/ Receive(r) \/ Lose(r)

(* The event loop runs, and a request ends in a response or an exception by *)
(* its timeout.  Prism Central need not answer, nor a client call.          *)
Fairness == WF_vars(Refuse \/ SendFails \/ Send) /\ WF_vars(Answer \/ TimesOut)

Spec == Init /\ [][Next]_vars /\ Fairness

-----------------------------------------------------------------------------
(* Properties. *)

(* In read-only mode Prism Central never gets anything but a GET, and so     *)
(* never executes a write, whatever is called by whatever name.              *)
ReadOnlyNeverWrites == readOnly => log = <<>> /\ \A r \in line : r.method = "GET"

(* A refused call never has an effect, not even later, and any other has one *)
(* at most: nothing is sent again, although an answer of whatever status may *)
(* come long before the write, and an execution_error may leave it under way *)
(* (_handle_namespace_execute, APIHandler.execute_request).                  *)
CallsWriteAtMostOnce ==
  /\ \A k \in 1..Len(outcome) : outcome[k] = "refused" =>
       /\ \A j \in 1..Len(log) : log[j].call # k
       /\ \A r \in line : r.call # k
  /\ \A i, j \in 1..Len(log) : log[i].call = log[j].call => i = j

Declares(k, header) == header \in Found(made[k].args).headers

(* No lost update: a write that passed the _etag its client had read         *)
(* replaces that very version, however late it is executed and whatever      *)
(* other clients wrote since.                                                *)
GuardedWritesReplaceWhatWasRead ==
  \A j \in 1..Len(log) :
    LET k == log[j].call
    IN  made[k].ifMatch # NoTag /\ Declares(k, "If-Match") => log[j].over = made[k].ifMatch

(* A write repeated after an execution_error under the id its client chose   *)
(* is executed once, although the first try may still be on its way.         *)
ChosenIdsExecuteOnce ==
  \A j, m \in 1..Len(log) :
    LET a == log[j].call  b == log[m].call
    IN  j # m /\ Declares(a, "NTNX-Request-Id") /\ Declares(b, "NTNX-Request-Id")
          /\ made[a].args.id = made[b].args.id => made[a].args.id = NoId

(* Every call is answered, with others waiting before it, and Prism Central  *)
(* silent.                                                                   *)
CallsAreAnswered ==
  \A k \in 1..MaxCalls :
    (k <= Len(made)) ~> (k <= Len(outcome) /\ outcome[k] # "open")
=============================================================================
