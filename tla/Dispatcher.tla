----------------------------- MODULE Dispatcher -----------------------------
(***************************************************************************)
(* Dispatcher::call on the worker thread, step by step, with the           *)
(* thread-local Context it runs in: the stack of key/value layers that     *)
(* Scoped_context pushes and, through its destructor, takes off again.     *)
(* The handlers do not receive the request id or the output stream: send   *)
(* looks both up in the current context.                                   *)
(***************************************************************************)
EXTENDS Protocol, Sequences

CONSTANT Messages  \* the contents that can be dispatched

ASSUME MessagesAssumption == Messages \subseteq Content /\ Messages # {}

VARIABLES
    pc,       \* where the worker is in call
    msg,      \* the parsed content of the call in progress
    context,  \* the worker's current Context, innermost layer last
    scopes,   \* Scoped_context::_previous of the live objects, innermost last
    answer,   \* what the handler passes to send: "result" or "error"
    output    \* the replies written to the output stream

dispatchVars == <<pc, msg, context, scopes, answer, output>>

\* The value of a variable of the program that holds no message.
NoMessage == CHOOSE m \in Messages : TRUE

Steps == {"idle", "validate", "stream", "invoke", "send", "leave_id",
          "leave_stream", "aborted"}

-----------------------------------------------------------------------------
(***************************************************************************)
(* Context.  get_value returns a pointer: a set with at most one element.  *)
(***************************************************************************)
Layer(key, value) == [key |-> key, value |-> value]

\* Mutant: the new layer has no parent.
deriveFromEmpty(c, key, value) == <<Layer(key, value)>>

derive(c, key, value) == Append(c, Layer(key, value))

\* The innermost layer with the key hides the ones below it.
get_value(c, key) ==
    { c[i].value : i \in { j \in DOMAIN c :
                             /\ c[j].key = key
                             /\ \A k \in DOMAIN c : c[k].key = key => k <= j } }

\* Scoped_context::Scoped_context: derive, swap_current, keep the old one.
Enter(key, value) ==
    /\ context' = derive(context, key, value)
    /\ scopes' = Append(scopes, context)

\* Scoped_context::~Scoped_context: swap the old one back.
Leave ==
    /\ context' = scopes[Len(scopes)]
    /\ scopes' = SubSeq(scopes, 1, Len(scopes) - 1)

-----------------------------------------------------------------------------
DispatchInit ==
    /\ pc = "idle"
    /\ msg = NoMessage
    /\ context = <<>>
    /\ scopes = <<>>
    /\ answer = "result"
    /\ output = <<>>

\* The posted function runs: call(content, output_stream).
Call(m) ==
    /\ pc = "idle"
    /\ pc' = "validate"
    /\ msg' = m
    /\ UNCHANGED <<context, scopes, answer, output>>

\* One of the early returns: logged, never answered.
Drop ==
    /\ pc = "validate" /\ Dropped(msg)
    /\ pc' = "idle"
    /\ msg' = NoMessage
    /\ UNCHANGED <<context, scopes, answer, output>>

\* An assertion of rapidjson fails or an exception leaves the worker's thread
\* function: the process ends, with whatever the queue still holds.
Abort ==
    /\ \/ pc = "validate" /\ HeadAborts(msg)
       \/ pc = "invoke" /\ (ParamsAssertionFails(msg) \/ HandlerMayAbort(msg))
    /\ pc' = "aborted"
    /\ UNCHANGED <<msg, context, scopes, answer, output>>

EnterStream ==
    /\ pc = "validate" /\ Accepted(msg)
    /\ Enter("request_output_stream", "output_stream")
    /\ pc' = "stream"
    /\ UNCHANGED <<msg, answer, output>>

\* context_with_id is engaged only when the message has an id.
EnterId ==
    /\ pc = "stream"
    /\ IF HasId(msg) THEN Enter("request_id", RequestId(msg))
                     ELSE UNCHANGED <<context, scopes>>
    /\ pc' = "invoke"
    /\ UNCHANGED <<msg, answer, output>>

\* Mutant: a handler that replies is run although its parameters were not set.
InvokeUnchecked ==
    /\ pc = "invoke" /\ ~ParamsAssertionFails(msg)
    /\ pc' = IF msg.method \in NoReply THEN "leave_id" ELSE "send"
    /\ answer' = IF msg.method \in Handlers THEN "result" ELSE "error"
    /\ UNCHANGED <<msg, context, scopes, output>>

(***************************************************************************)
(* Find the handler and run it up to its call of reply.  Parameters that   *)
(* cannot be set are only logged; an unknown method runs the error handler.*)
(***************************************************************************)
Invoke ==
    /\ pc = "invoke" /\ ~ParamsAssertionFails(msg)
    /\ \/ /\ msg.method \notin Handlers
          /\ pc' = "send" /\ answer' = "error"
       \/ /\ msg.method \in Handlers
          /\ IF SetParams(msg) /\ Replies(msg.method)
             THEN pc' = "send" /\ answer' = "result"
             ELSE pc' = "leave_id" /\ UNCHANGED answer
    /\ UNCHANGED <<msg, context, scopes, output>>

\* The stream pointer that get_existing asserts to be there.
StreamFound == get_value(context, "request_output_stream") # {}

\* send: no id in the context, no reply; an id but no stream, an assertion fails.
Send ==
    /\ pc = "send"
    /\ LET id == get_value(context, "request_id")
       IN  /\ pc' = IF id = {} \/ StreamFound THEN "leave_id" ELSE "aborted"
           /\ \/ id = {} /\ UNCHANGED output
              \/ \E i \in id : output' = IF StreamFound
                                       THEN Append(output, [id |-> i, kind |-> answer])
                                       ELSE output
    /\ UNCHANGED <<msg, context, scopes, answer>>

\* The optional Scoped_context is destroyed first, it was constructed last.
LeaveId ==
    /\ pc = "leave_id"
    /\ IF HasId(msg) THEN Leave ELSE UNCHANGED <<context, scopes>>
    /\ pc' = "leave_stream"
    /\ UNCHANGED <<msg, answer, output>>

\* Mutant: the destructor does not put the old context back.
LeaveStreamEntered ==
    /\ pc = "leave_stream"
    /\ pc' = "idle"
    /\ msg' = NoMessage
    /\ UNCHANGED <<context, scopes, answer, output>>

LeaveStream ==
    /\ pc = "leave_stream"
    /\ Leave
    /\ pc' = "idle"
    /\ msg' = NoMessage
    /\ UNCHANGED <<answer, output>>

\* The rest of a call in progress.
CallStep == Drop \/ Abort \/ EnterStream \/ EnterId \/ Invoke \/ Send \/ LeaveId \/ LeaveStream

DispatchNext == (\E m \in Messages : Call(m)) \/ CallStep

DispatchSpec == DispatchInit /\ [][DispatchNext]_dispatchVars

-----------------------------------------------------------------------------
(***************************************************************************)
(* The layers a context can hold.                                          *)
(***************************************************************************)
StreamLayer == Layer("request_output_stream", "output_stream")

IdLayer(m) == Layer("request_id", RequestId(m))

DispatchTypeOK ==
    /\ pc \in Steps
    /\ msg \in Messages
    /\ answer \in {"result", "error"}
    /\ output \in Seq(Reply)

(***************************************************************************)
(* No layer outlives the call that entered it: between calls the worker's  *)
(* context is empty, whatever way the last call ended.  A layer left       *)
(* behind would lend its request id to a later notification.               *)
(***************************************************************************)
ContextBalanced == pc \in {"idle", "validate"} => context = <<>> /\ scopes = <<>>

(***************************************************************************)
(* Where send runs, the context answers for this very message: it finds    *)
(* this message's id, none if the message has none (a stale or shadowing   *)
(* layer would give another), and the assertion in get_existing holds.     *)
(***************************************************************************)
ContextOfCaller ==
    pc = "send" =>
        /\ get_value(context, "request_id") = IF HasId(msg) THEN {RequestId(msg)} ELSE {}
        /\ StreamFound

(***************************************************************************)
(* A request that the reply to "initialize" advertises is not answered     *)
(* with MethodNotFound.  (It is: see the run advertised_requests.)         *)
(***************************************************************************)
AdvertisedServed ==
    pc = "send" /\ answer = "error" /\ HasId(msg) => msg.method \notin AdvertisedRequests

-----------------------------------------------------------------------------
(***************************************************************************)
(* The dispatcher implements RpcPromise: the content being served is the   *)
(* one in the call, and its answer is owed until send has run.             *)
(***************************************************************************)
Promise == INSTANCE RpcPromise WITH
    current <- IF pc = "idle" THEN {} ELSE {msg},
    owed    <- IF pc \in {"validate", "stream", "invoke", "send"} THEN AnswerTo(msg) ELSE {},
    alive   <- pc # "aborted"

(***************************************************************************)
(* Every content gets exactly the answer it is owed, with its own id, once *)
(* and before the next content is looked at: the layered context is an     *)
(* implementation detail that no client can observe.                       *)
(***************************************************************************)
ImplementsPromise == Promise!PromiseSpec

=============================================================================
