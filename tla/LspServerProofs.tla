-------------------------- MODULE LspServerProofs ---------------------------
(***************************************************************************)
(* Proofs about Dispatcher, for every set of contents and of ids, and      *)
(* about LspServer, whose worker it is, whatever the client sends and      *)
(* however many frames it sends.                                           *)
(***************************************************************************)
EXTENDS LspServer, SequenceLemmas, TLAPS

(***************************************************************************)
(* The shape of the context at every point of call.                        *)
(***************************************************************************)
OneLayer == context = <<StreamLayer>> /\ scopes = << <<>> >>

TwoLayers ==
    /\ context = <<StreamLayer, IdLayer(msg)>>
    /\ scopes = << <<>>, <<StreamLayer>> >>

ContextShape ==
    /\ pc \in {"idle", "validate"} => context = <<>> /\ scopes = <<>>
    /\ pc \in {"stream", "leave_stream"} => OneLayer
    /\ pc \in {"invoke", "send", "leave_id"} => IF HasId(msg) THEN TwoLayers ELSE OneLayer

(***************************************************************************)
(* What call has found out about the message when it gets there.           *)
(***************************************************************************)
MessageFacts ==
    /\ pc \in {"stream", "invoke"} => Accepted(msg)
    /\ pc \in {"send", "leave_id", "leave_stream"} => Accepted(msg) /\ ~Aborts(msg)
    /\ pc = "send" => /\ msg.method \notin Handlers => answer = "error"
                      /\ msg.method \in Handlers => /\ answer = "result"
                                                    /\ SetParams(msg) /\ Replies(msg.method)
    /\ pc = "aborted" => Aborts(msg) \/ MayAbort(msg)

DispatchInv == DispatchTypeOK /\ ContextShape /\ MessageFacts

-----------------------------------------------------------------------------
LEMMA NoMessageType == NoMessage \in Messages
BY MessagesAssumption DEF NoMessage

\* A message with an id that call accepts has an integer of Ids for it.
LEMMA RequestIdType ==
    ASSUME NEW m \in Messages, Accepted(m), HasId(m)
    PROVE  RequestId(m) \in Ids
<1>1. m \in Content
  BY MessagesAssumption
<1>2. m.id[1] # "unusable" /\ m.id[1] # "absent"
  BY <1>1 DEF Content, Accepted, Dropped, HeadAborts, HasId
<1>3. m.id \in IdMember
  BY <1>1, <1>2 DEF Content
<1> QED
  BY <1>3 DEF IdMember, RequestId

\* What get_value finds in the contexts that occur.
LEMMA GetValueOne ==
    /\ get_value(<<StreamLayer>>, "request_id") = {}
    /\ get_value(<<StreamLayer>>, "request_output_stream") # {}
BY DEF get_value, StreamLayer, Layer

LEMMA GetValueTwo ==
    ASSUME NEW m
    PROVE  /\ get_value(<<StreamLayer, IdLayer(m)>>, "request_id") = {RequestId(m)}
           /\ get_value(<<StreamLayer, IdLayer(m)>>, "request_output_stream") # {}
BY DEF get_value, StreamLayer, IdLayer, Layer

-----------------------------------------------------------------------------
LEMMA InitDispatchInv == DispatchInit => DispatchInv
BY NoMessageType
   DEF DispatchInit, DispatchInv, DispatchTypeOK, ContextShape, MessageFacts, Steps

LEMMA NextDispatchInv ==
    ASSUME DispatchInv, [DispatchNext]_dispatchVars
    PROVE  DispatchInv'
<1> USE DEF DispatchInv
<1>1. ASSUME NEW m \in Messages, Call(m)
      PROVE  DispatchInv'
  BY <1>1 DEF Call, DispatchTypeOK, ContextShape, MessageFacts, Steps
<1>2. CASE Drop
  BY <1>2, NoMessageType DEF Drop, DispatchTypeOK, ContextShape, MessageFacts, Steps
<1>3. CASE Abort
  BY <1>3 DEF Abort, DispatchTypeOK, ContextShape, MessageFacts, Steps, Aborts, MayAbort
<1>4. CASE EnterStream
  <2>1. context = <<>> /\ scopes = <<>>
    BY <1>4 DEF EnterStream, ContextShape
  <2>2. OneLayer'
    BY <1>4, <2>1 DEF EnterStream, Enter, derive, OneLayer, StreamLayer
  <2> QED
    BY <1>4, <2>2 DEF EnterStream, DispatchTypeOK, ContextShape, MessageFacts, Steps
<1>5. CASE EnterId
  <2>1. OneLayer
    BY <1>5 DEF EnterId, ContextShape
  <2>2. CASE HasId(msg)
    <3>1. TwoLayers'
      BY <1>5, <2>1, <2>2, AppendToOne
         DEF EnterId, Enter, derive, OneLayer, TwoLayers, IdLayer, StreamLayer
    <3> QED
      BY <1>5, <2>2, <3>1 DEF EnterId, DispatchTypeOK, ContextShape, MessageFacts, Steps
  <2>3. CASE ~HasId(msg)
    BY <1>5, <2>1, <2>3
       DEF EnterId, DispatchTypeOK, ContextShape, MessageFacts, Steps, OneLayer
  <2> QED BY <2>2, <2>3
<1>6. CASE Invoke
  <2>1. DispatchTypeOK' /\ ContextShape'
    BY <1>6 DEF Invoke, DispatchTypeOK, ContextShape, Steps, OneLayer, TwoLayers
  <2>2. Accepted(msg) /\ ~Aborts(msg)
    BY <1>6 DEF Invoke, MessageFacts, Aborts, Accepted
  <2>3. MessageFacts'
    BY <1>6, <2>2 DEF Invoke, MessageFacts
  <2> QED BY <2>1, <2>3
<1>7. CASE Send
  <2>1. get_value(context, "request_id") = IF HasId(msg) THEN {RequestId(msg)} ELSE {}
    BY <1>7, GetValueOne, GetValueTwo DEF Send, ContextShape, OneLayer, TwoLayers
  <2>2. StreamFound
    BY <1>7, GetValueOne, GetValueTwo DEF Send, ContextShape, OneLayer, TwoLayers, StreamFound
  <2>3. Accepted(msg) /\ msg \in Messages
    BY <1>7 DEF Send, MessageFacts, DispatchTypeOK
  <2>4. output' \in Seq(Reply)
    <3>1. CASE ~HasId(msg)
      BY <1>7, <2>1, <3>1 DEF Send, DispatchTypeOK
    <3>2. CASE HasId(msg)
      <4>1. output' = Append(output, [id |-> RequestId(msg), kind |-> answer])
        BY <1>7, <2>1, <2>2, <3>2 DEF Send
      <4>2. [id |-> RequestId(msg), kind |-> answer] \in Reply
        BY <2>3, <3>2, RequestIdType DEF DispatchTypeOK, Reply
      <4> QED BY <4>1, <4>2 DEF DispatchTypeOK
    <3> QED BY <3>1, <3>2
  <2>5. pc' = "leave_id"
    BY <1>7, <2>2 DEF Send
  <2> QED
    BY <1>7, <2>4, <2>5
       DEF Send, DispatchTypeOK, ContextShape, MessageFacts, Steps, OneLayer, TwoLayers
<1>8. CASE LeaveId
  <2>1. OneLayer'
    <3>1. CASE HasId(msg)
      <4>1. scopes = << <<>>, <<StreamLayer>> >>
        BY <1>8, <3>1 DEF LeaveId, ContextShape, TwoLayers
      <4>2. context' = <<StreamLayer>> /\ scopes' = << <<>> >>
        BY <1>8, <3>1, <4>1, LeaveShapes DEF LeaveId, Leave
      <4> QED BY <4>2 DEF OneLayer
    <3>2. CASE ~HasId(msg)
      BY <1>8, <3>2 DEF LeaveId, ContextShape, OneLayer
    <3> QED BY <3>1, <3>2
  <2> QED
    BY <1>8, <2>1 DEF LeaveId, DispatchTypeOK, ContextShape, MessageFacts, Steps
<1>9. CASE LeaveStream
  <2>1. context' = <<>> /\ scopes' = <<>>
    BY <1>9, LeaveShapes DEF LeaveStream, Leave, ContextShape, OneLayer
  <2> QED
    BY <1>9, <2>1, NoMessageType
       DEF LeaveStream, DispatchTypeOK, ContextShape, MessageFacts, Steps
<1>10. CASE UNCHANGED dispatchVars
  BY <1>10 DEF dispatchVars, DispatchTypeOK, ContextShape, MessageFacts, OneLayer, TwoLayers
<1> QED
  BY <1>1, <1>2, <1>3, <1>4, <1>5, <1>6, <1>7, <1>8, <1>9, <1>10 DEF DispatchNext, CallStep

\* The invariant that the theorems below are read off.
THEOREM DispatchInvariant == DispatchSpec => []DispatchInv
BY InitDispatchInv, NextDispatchInv, PTL DEF DispatchSpec

(***************************************************************************)
(* Dispatcher keeps its types: in particular whatever is written to the    *)
(* output stream is a reply with an integer id.                            *)
(***************************************************************************)
THEOREM DispatchTypeCorrect == DispatchSpec => []DispatchTypeOK
<1>1. DispatchInv => DispatchTypeOK
  BY DEF DispatchInv
<1> QED BY <1>1, DispatchInvariant, PTL

(***************************************************************************)
(* Between calls the worker's context is empty, for every content and      *)
(* every way in which a call can end.                                      *)
(***************************************************************************)
THEOREM DispatchContextBalanced == DispatchSpec => []ContextBalanced
<1>1. DispatchInv => ContextBalanced
  BY DEF DispatchInv, ContextShape, ContextBalanced
<1> QED BY <1>1, DispatchInvariant, PTL

(***************************************************************************)
(* send finds the id of the message being handled, or none if it has none, *)
(* and the assertion of get_existing never fails.                          *)
(***************************************************************************)
THEOREM DispatchContextOfCaller == DispatchSpec => []ContextOfCaller
<1>1. DispatchInv => ContextOfCaller
  BY GetValueOne, GetValueTwo
     DEF DispatchInv, ContextShape, OneLayer, TwoLayers, ContextOfCaller, StreamFound
<1> QED BY <1>1, DispatchInvariant, PTL

-----------------------------------------------------------------------------
(***************************************************************************)
(* The refinement.  A call begins the service of a content; send delivers  *)
(* what is owed; dropping the content, or leaving the last scope, finishes *)
(* it; every other step is invisible.                                      *)
(***************************************************************************)
\* Both modules extend Protocol: their copies of its operators agree.
LEMMA SameProtocol ==
    /\ Promise!Reply = Reply
    /\ \A m : Promise!Aborts(m) <=> Aborts(m)
    /\ \A m : Promise!MayAbort(m) <=> MayAbort(m)
    /\ \A m : Promise!AnswerTo(m) = AnswerTo(m)
<1> USE DEF Promise!NoMethod, NoMethod, Promise!HasId, HasId, Promise!Dropped, Dropped,
            Promise!HeadAborts, HeadAborts, Promise!Accepted, Accepted
<1>1. Promise!Reply = Reply
  BY DEF Promise!Reply, Reply
<1>2. Promise!Handlers = Handlers /\ Promise!NoReply = NoReply
  BY DEF Promise!Handlers, Handlers, Promise!NullReply, NullReply,
         Promise!DocumentReply, DocumentReply, Promise!NoReply, NoReply
<1>3. Promise!NeedsParams = NeedsParams
  BY DEF Promise!NeedsParams, NeedsParams, Promise!PositionParams, PositionParams,
         Promise!DocumentParams, DocumentParams
<1>4. \A m : Promise!ParamsAssertionFails(m) <=> ParamsAssertionFails(m)
  BY <1>2, <1>3 DEF Promise!ParamsAssertionFails, ParamsAssertionFails
<1>5. \A m : Promise!Aborts(m) <=> Aborts(m)
  BY <1>4 DEF Promise!Aborts, Aborts
<1>6. \A m : Promise!SetParams(m) <=> SetParams(m)
  BY <1>3 DEF Promise!SetParams, SetParams
<1>7. \A m : Promise!MayAbort(m) <=> MayAbort(m)
  BY <1>4, <1>6 DEF Promise!MayAbort, MayAbort, Promise!HandlerMayAbort, HandlerMayAbort
<1>8. \A m : Promise!AnswerTo(m) = AnswerTo(m)
  BY <1>2, <1>5, <1>6 DEF Promise!AnswerTo, AnswerTo,
     Promise!Replies, Replies, Promise!RequestId, RequestId
<1> QED BY <1>1, <1>5, <1>7, <1>8

LEMMA InitRefines == DispatchInit => Promise!PromiseInit
BY DEF DispatchInit, Promise!PromiseInit

\* Where no reply will come any more, none is owed.
LEMMA NothingOwed ==
    ASSUME NEW m
    PROVE  /\ Dropped(m) => AnswerTo(m) = {}
           /\ Aborts(m) \/ MayAbort(m) => AnswerTo(m) = {}
           /\ ~HasId(m) => AnswerTo(m) = {}
           /\ m.method \in Handlers /\ ~(SetParams(m) /\ Replies(m.method)) => AnswerTo(m) = {}
<1>1. HandlerMayAbort(m) => m.method \in Handlers /\ ~Replies(m.method)
  BY DEF HandlerMayAbort, Handlers, NoReply, Replies
<1> QED BY <1>1 DEF AnswerTo, MayAbort

\* What send writes is what AnswerTo promises.
LEMMA SendAnswers ==
    ASSUME DispatchInv, Send, HasId(msg)
    PROVE  \E r \in Reply : AnswerTo(msg) = {r} /\ output' = Append(output, r)
<1> DEFINE r == [id |-> RequestId(msg), kind |-> answer]
<1>1. pc = "send" /\ Accepted(msg) /\ ~Aborts(msg) /\ msg \in Messages
  BY DEF Send, DispatchInv, MessageFacts, DispatchTypeOK
<1>2. context = <<StreamLayer, IdLayer(msg)>>
  BY <1>1 DEF DispatchInv, ContextShape, TwoLayers
<1>3. get_value(context, "request_id") = {RequestId(msg)} /\ StreamFound
  BY <1>2, GetValueTwo DEF StreamFound
<1>4. output' = Append(output, r)
  BY <1>3 DEF Send
<1>5. r \in Reply
  BY <1>1, RequestIdType DEF Reply, DispatchInv, DispatchTypeOK
<1>6. AnswerTo(msg) = {r}
  <2>1. CASE msg.method \notin Handlers
    BY <1>1, <2>1 DEF AnswerTo, Accepted, DispatchInv, MessageFacts
  <2>2. CASE msg.method \in Handlers
    BY <1>1, <2>2 DEF AnswerTo, Accepted, DispatchInv, MessageFacts
  <2> QED BY <2>1, <2>2
<1> QED BY <1>4, <1>5, <1>6

LEMMA StepRefines ==
    ASSUME DispatchInv, [DispatchNext]_dispatchVars
    PROVE  [Promise!PromiseNext]_(Promise!promiseVars)
<1> USE DEF Promise!promiseVars
<1>1. ASSUME NEW m \in Messages, Call(m)
      PROVE  Promise!Begin(m)
  BY <1>1, SameProtocol DEF Call, Promise!Begin
<1>2. CASE Drop
  <2>1. Promise!Finish(msg)
    BY <1>2, NothingOwed, SameProtocol DEF Drop, Promise!Finish, Aborts, Accepted, Dropped, HeadAborts
  <2> QED BY <2>1 DEF Promise!PromiseNext, DispatchInv, DispatchTypeOK
<1>3. CASE Abort
  <2>1. Aborts(msg) \/ MayAbort(msg)
    BY <1>3 DEF Abort, Aborts, MayAbort, DispatchInv, MessageFacts
  <2>2. Promise!Die(msg)
    BY <1>3, <2>1, NothingOwed, SameProtocol DEF Abort, Promise!Die
  <2> QED BY <2>2 DEF Promise!PromiseNext, DispatchInv, DispatchTypeOK
<1>4. CASE EnterStream
  BY <1>4 DEF EnterStream
<1>5. CASE EnterId
  BY <1>5 DEF EnterId
<1>6. CASE Invoke
  BY <1>6, NothingOwed DEF Invoke
<1>7. CASE Send
  <2>1. pc = "send" /\ pc' = "leave_id" /\ UNCHANGED msg
    BY <1>7, GetValueOne, GetValueTwo
       DEF Send, DispatchInv, ContextShape, OneLayer, TwoLayers, StreamFound
  <2>2. CASE HasId(msg)
    <3>1. PICK r \in Reply : AnswerTo(msg) = {r} /\ output' = Append(output, r)
      BY <1>7, <2>2, SendAnswers
    <3>2. Promise!Deliver(r)
      BY <2>1, <3>1 DEF Promise!Deliver
    <3> QED BY <3>2, SameProtocol DEF Promise!PromiseNext
  <2>3. CASE ~HasId(msg)
    <3>1. UNCHANGED output
      BY <1>7, <2>3, GetValueOne DEF Send, DispatchInv, ContextShape, OneLayer
    <3> QED BY <2>1, <2>3, <3>1, NothingOwed
  <2> QED BY <2>2, <2>3
<1>8. CASE LeaveId
  BY <1>8 DEF LeaveId
<1>9. CASE LeaveStream
  <2>1. Promise!Finish(msg)
    BY <1>9, SameProtocol DEF LeaveStream, Promise!Finish, DispatchInv, MessageFacts
  <2> QED BY <2>1 DEF Promise!PromiseNext, DispatchInv, DispatchTypeOK
<1>10. CASE UNCHANGED dispatchVars
  BY <1>10 DEF dispatchVars
<1> QED
  BY <1>1, <1>2, <1>3, <1>4, <1>5, <1>6, <1>7, <1>8, <1>9, <1>10
     DEF DispatchNext, CallStep, Promise!PromiseNext

(***************************************************************************)
(* Every content is given exactly the answer it is owed, with its own id,  *)
(* once, and before the next content is taken up.                          *)
(***************************************************************************)
THEOREM DispatchImplementsPromise == DispatchSpec => ImplementsPromise
<1>1. DispatchSpec => Promise!PromiseInit /\ [][Promise!PromiseNext]_(Promise!promiseVars)
  BY InitRefines, StepRefines, DispatchInvariant, PTL DEF DispatchSpec
<1> QED BY <1>1 DEF ImplementsPromise, Promise!PromiseSpec

-----------------------------------------------------------------------------
(***************************************************************************)
(* Why run() cannot return early: the work object is only given up on the  *)
(* way to the join, and the worker only leaves with nothing left to do.    *)
(***************************************************************************)
Shutdown ==
    /\ work <=> mainPc \notin {"join", "returned"}
    /\ ~workerUp => ~work /\ queue = <<>> /\ pc = "idle"
    /\ mainPc = "returned" => ~workerUp

(***************************************************************************)
(* Why only one message is late: the test of the loop that follows its     *)
(* post sees the store.                                                    *)
(***************************************************************************)
Lateness ==
    /\ late \in {0, 1}
    /\ late = 1 => isDone /\ ~unseen /\ mainPc \notin {"read", "post"}

ServerInv == DispatchInv /\ ServerTypeOK /\ QueueIsFifo /\ Shutdown /\ Lateness

-----------------------------------------------------------------------------
LEMMA InitServerInv == ServerInit => ServerInv
<1> SUFFICES ASSUME ServerInit PROVE ServerInv
  OBVIOUS
<1>1. DispatchInv
  BY InitDispatchInv DEF ServerInit
<1>2. ServerTypeOK
  <2>1. <<>> \in Seq(Frames) /\ <<>> \in Seq(Messages) /\ Len(<<>>) = 0
    OBVIOUS
  <2>2. consumed \in 0 .. Len(sent) /\ late \in Nat
    BY <2>1 DEF ServerInit
  <2> QED
    BY <1>1, <2>1, <2>2, NoMessageType DEF ServerInit, ServerTypeOK, DispatchInv, MainSteps
<1>3. QueueIsFifo
  BY DEF ServerInit, QueueIsFifo
<1>4. Shutdown /\ Lateness
  BY DEF ServerInit, Shutdown, Lateness
<1> QED BY <1>1, <1>2, <1>3, <1>4 DEF ServerInv

\* A step of the server is a step of the dispatcher or leaves it alone.
LEMMA ServerStepDispatches ==
    ASSUME ServerTypeOK, [ServerNext]_vars
    PROVE  [DispatchNext]_dispatchVars
<1>1. CASE WorkerTake
  <2>1. Head(queue) \in Messages
    BY <1>1, HeadTailProperties DEF WorkerTake, ServerTypeOK
  <2> QED BY <1>1, <2>1 DEF WorkerTake, DispatchNext
<1>2. CASE WorkerStep
  BY <1>2 DEF WorkerStep, DispatchNext
<1>3. CASE ~WorkerTake /\ ~WorkerStep
  BY <1>3 DEF ServerNext, Worker, WorkerReturn, MainStep, TestLoop, ReadFrame, ReadEof,
     Post, SetDone, ResetWork, Join, ClientSend, ClientClose, StoreVisible, Stopped, vars
<1> QED BY <1>1, <1>2, <1>3

\* Starting a call, or going on with one, keeps the server's half of the invariant.
LEMMA WorkerKeepsInv ==
    ASSUME ServerInv, Worker, DispatchInv'
    PROVE  ServerInv'
<1> USE DEF ServerInv
<1>1. CASE WorkerTake
  <2>1. Head(queue) \in Messages /\ Tail(queue) \in Seq(Messages)
    BY <1>1, HeadTailProperties DEF WorkerTake, ServerTypeOK
  <2>2. ServerTypeOK'
    BY <1>1, <2>1
       DEF WorkerTake, ServerTypeOK, DispatchInv, clientVars, mainVars
  <2>3. QueueIsFifo'
    BY <1>1, TakeKeepsHistory DEF WorkerTake, ServerTypeOK, QueueIsFifo, mainVars
  <2>4. Shutdown' /\ Lateness'
    BY <1>1 DEF WorkerTake, Shutdown, Lateness, mainVars
  <2> QED BY <2>2, <2>3, <2>4
<1>2. CASE WorkerStep
  <2>1. ServerTypeOK'
    BY <1>2 DEF WorkerStep, ServerTypeOK, DispatchInv, clientVars, mainVars, workerVars
  <2>2. QueueIsFifo'
    BY <1>2 DEF WorkerStep, QueueIsFifo, mainVars, workerVars
  <2>3. Shutdown'
    BY <1>2 DEF WorkerStep, Shutdown, mainVars, workerVars
  <2>4. Lateness'
    BY <1>2 DEF WorkerStep, Lateness, mainVars
  <2> QED BY <2>1, <2>2, <2>3, <2>4
<1>3. CASE WorkerReturn
  BY <1>3 DEF WorkerReturn, ServerTypeOK, QueueIsFifo, Shutdown, Lateness,
     dispatchVars, DispatchTypeOK, clientVars, mainVars, sharedVars
<1> QED BY <1>1, <1>2, <1>3 DEF Worker

LEMMA ClientKeepsInv ==
    ASSUME ServerInv, DispatchInv', ClientClose \/ \E f \in Frames : ClientSend(f)
    PROVE  ServerInv'
<1> USE DEF ServerInv
<1>1. ASSUME NEW f \in Frames, ClientSend(f)
      PROVE  ServerInv'
  <2>1. sent' \in Seq(Frames) /\ Len(sent') = Len(sent) + 1
    BY <1>1 DEF ClientSend, ServerTypeOK
  <2>2. consumed' \in 0 .. Len(sent')
    BY <1>1, <2>1, LenProperties DEF ClientSend, ServerTypeOK, mainVars
  <2>3. ServerTypeOK'
    BY <1>1, <2>1, <2>2
       DEF ClientSend, ServerTypeOK, DispatchInv, mainVars, workerVars, sharedVars
  <2>4. QueueIsFifo' /\ Shutdown' /\ Lateness'
    BY <1>1 DEF ClientSend, QueueIsFifo, Shutdown, Lateness, dispatchVars, mainVars,
       workerVars, sharedVars
  <2> QED BY <2>3, <2>4
<1>2. CASE ClientClose
  BY <1>2 DEF ClientClose, ServerTypeOK, QueueIsFifo, Shutdown, Lateness, DispatchInv,
     dispatchVars, mainVars, workerVars, sharedVars
<1> QED BY <1>1, <1>2

LEMMA ReaderKeepsInv ==
    ASSUME ServerInv, MainStep, DispatchInv'
    PROVE  ServerInv'
<1> USE DEF ServerInv
<1>1. CASE TestLoop
  <2>1. ServerTypeOK'
    BY <1>1 DEF TestLoop, ServerTypeOK, DispatchInv, MainSteps, clientVars, workerVars, sharedVars
  <2>2. QueueIsFifo' /\ Shutdown'
    BY <1>1 DEF TestLoop, QueueIsFifo, Shutdown, dispatchVars, workerVars, sharedVars
  <2>3. Lateness'
    BY <1>1 DEF TestLoop, Lateness, sharedVars
  <2> QED BY <2>1, <2>2, <2>3
<1>2. CASE ReadFrame
  <2>1. sent[consumed + 1] \in Frames /\ consumed' \in 0 .. Len(sent)
    BY <1>2, ElementOfSeq DEF ReadFrame, ServerTypeOK
  <2>2. content' \in Messages /\ mainPc' \in MainSteps
    BY <1>2, <2>1 DEF ReadFrame, ServerTypeOK, Frames, MainSteps
  <2>3. ServerTypeOK'
    BY <1>2, <2>1, <2>2 DEF ReadFrame, ServerTypeOK, DispatchInv, clientVars, workerVars, sharedVars
  <2>4. QueueIsFifo' /\ Shutdown'
    BY <1>2 DEF ReadFrame, QueueIsFifo, Shutdown, dispatchVars, workerVars, sharedVars
  <2>5. Lateness'
    BY <1>2 DEF ReadFrame, Lateness, sharedVars
  <2> QED BY <2>3, <2>4, <2>5
<1>3. CASE ReadEof
  BY <1>3 DEF ReadEof, ServerTypeOK, DispatchInv, QueueIsFifo, Shutdown, Lateness, MainSteps,
     dispatchVars, clientVars, workerVars, sharedVars
<1>4. CASE Post
  <2>1. queue' \in Seq(Messages) /\ posted' \in Seq(Messages) /\ late' \in Nat
    BY <1>4 DEF Post, ServerTypeOK
  <2>2. ServerTypeOK'
    BY <1>4, <2>1, NoMessageType
       DEF Post, ServerTypeOK, DispatchInv, MainSteps, clientVars, workerVars
  <2>3. QueueIsFifo'
    <3>1. handled \in Seq(Messages) /\ queue \in Seq(Messages) /\ content \in Messages
      BY DEF ServerTypeOK
    <3>2. posted = handled \o queue
      BY DEF QueueIsFifo
    <3>3. Append(posted, content) = posted \o <<content>>
      BY <3>1, AppendIsConcat DEF ServerTypeOK
    <3>4. Append(queue, content) = queue \o <<content>>
      BY <3>1, AppendIsConcat
    <3>5. (handled \o queue) \o <<content>> = handled \o (queue \o <<content>>)
      BY <3>1, ConcatAssociative
    <3> QED BY <1>4, <3>2, <3>3, <3>4, <3>5 DEF Post, QueueIsFifo, workerVars
  <2>4. Shutdown'
    BY <1>4 DEF Post, Shutdown, dispatchVars, workerVars
  <2>5. Lateness'
    BY <1>4 DEF Post, Lateness
  <2> QED BY <2>2, <2>3, <2>4, <2>5
<1>5. CASE SetDone
  BY <1>5 DEF SetDone, ServerTypeOK, DispatchInv, QueueIsFifo, Shutdown, Lateness, MainSteps,
     dispatchVars, clientVars, workerVars
<1>6. CASE ResetWork
  BY <1>6 DEF ResetWork, ServerTypeOK, DispatchInv, QueueIsFifo, Shutdown, Lateness, MainSteps,
     dispatchVars, clientVars, workerVars, sharedVars
<1>7. CASE Join
  BY <1>7 DEF Join, ServerTypeOK, DispatchInv, QueueIsFifo, Shutdown, Lateness, MainSteps,
     dispatchVars, clientVars, workerVars, sharedVars
<1> QED BY <1>1, <1>2, <1>3, <1>4, <1>5, <1>6, <1>7 DEF MainStep

LEMMA NextServerInv ==
    ASSUME ServerInv, [ServerNext]_vars
    PROVE  ServerInv'
<1>1. DispatchInv'
  BY ServerStepDispatches, NextDispatchInv DEF ServerInv
<1>2. CASE StoreVisible
  BY <1>1, <1>2 DEF StoreVisible, ServerInv, ServerTypeOK, DispatchInv, QueueIsFifo, Shutdown,
     Lateness, dispatchVars, clientVars, mainVars, workerVars
<1>3. CASE UNCHANGED vars
  BY <1>1, <1>3 DEF vars, serverVars, ServerInv, ServerTypeOK, DispatchInv, QueueIsFifo, Shutdown,
     Lateness, dispatchVars, clientVars, mainVars, workerVars, sharedVars
<1> QED
  BY <1>1, <1>2, <1>3, ClientKeepsInv, ReaderKeepsInv, WorkerKeepsInv DEF ServerNext, Stopped

\* The invariant that the theorems below are read off.
THEOREM ServerInvariant == ServerSpec => []ServerInv
BY InitServerInv, NextServerInv, PTL DEF ServerSpec

-----------------------------------------------------------------------------
(***************************************************************************)
(* Every variable keeps its type.                                          *)
(***************************************************************************)
THEOREM ServerTypeCorrect == ServerSpec => []ServerTypeOK
<1>1. ServerInv => ServerTypeOK
  BY DEF ServerInv
<1> QED BY <1>1, ServerInvariant, PTL

(***************************************************************************)
(* No message is lost, duplicated or overtaken between the two threads.    *)
(***************************************************************************)
THEOREM ServerQueueIsFifo == ServerSpec => []QueueIsFifo
<1>1. ServerInv => QueueIsFifo
  BY DEF ServerInv
<1> QED BY <1>1, ServerInvariant, PTL

(***************************************************************************)
(* run() returns only after the worker has handled all that was posted.    *)
(***************************************************************************)
THEOREM ServerDrains == ServerSpec => []DrainedOnReturn
<1>1. ASSUME ServerInv, mainPc = "returned"
      PROVE  ~workerUp /\ pc = "idle" /\ handled = posted
  <2>1. ~workerUp /\ pc = "idle" /\ queue = <<>>
    BY <1>1 DEF ServerInv, Shutdown
  <2> QED
    BY <1>1, <2>1, ConcatEmptySeq DEF ServerInv, QueueIsFifo, ServerTypeOK
<1>2. ServerInv => DrainedOnReturn
  BY <1>1 DEF DrainedOnReturn
<1> QED BY <1>2, ServerInvariant, PTL

(***************************************************************************)
(* The race on _is_done is harmless once the store is visible: at most one *)
(* message is accepted after that.                                         *)
(***************************************************************************)
THEOREM ServerOneLateMessage == ServerSpec => []OneLateMessage
<1>1. ServerInv => OneLateMessage
  BY DEF ServerInv, Lateness, OneLateMessage
<1> QED BY <1>1, ServerInvariant, PTL

(***************************************************************************)
(* Behind the queue and the second thread, the dispatcher still keeps its  *)
(* promise: the context of a call is that of its own message.              *)
(***************************************************************************)
THEOREM ServerContextOfCaller == ServerSpec => []ContextOfCaller
<1>1. ServerInv => ContextOfCaller
  BY GetValueOne, GetValueTwo
     DEF ServerInv, DispatchInv, ContextShape, OneLayer, TwoLayers, ContextOfCaller, StreamFound
<1> QED BY <1>1, ServerInvariant, PTL

-----------------------------------------------------------------------------
(***************************************************************************)
(* The replies.  A call that has not come to its reply, or to the end that *)
(* it has without one, is that of the last message that was handled.       *)
(***************************************************************************)
Answering == {"validate", "stream", "invoke", "send"}

\* The answers to the first n of some messages.
AnswersTo(messages, n) == FlattenSeq([ i \in 1 .. n |-> SetToSeq(AnswerTo(messages[i])) ])

Answered == Len(handled) - IF pc \in Answering THEN 1 ELSE 0

RepliesInv ==
    /\ pc \in Answering => handled # <<>> /\ msg = handled[Len(handled)]
    /\ output = AnswersTo(handled, Answered)

LEMMA AnswerType ==
    ASSUME NEW m \in Messages
    PROVE  \/ AnswerTo(m) = {} /\ SetToSeq(AnswerTo(m)) = <<>>
           \/ \E r \in Reply : AnswerTo(m) = {r} /\ SetToSeq(AnswerTo(m)) = <<r>>
<1>1. CASE AnswerTo(m) = {}
  BY <1>1, SetToSeqEmpty
<1>2. CASE AnswerTo(m) # {}
  <2>1. Accepted(m) /\ HasId(m)
    BY <1>2 DEF AnswerTo, Accepted, Aborts
  <2>2. RequestId(m) \in Ids
    BY <2>1, RequestIdType
  <2>3. \E kind \in {"result", "error"} : AnswerTo(m) = {[id |-> RequestId(m), kind |-> kind]}
    BY <1>2 DEF AnswerTo
  <2>4. PICK kind \in {"result", "error"} : AnswerTo(m) = {[id |-> RequestId(m), kind |-> kind]}
    BY <2>3
  <2>5. [id |-> RequestId(m), kind |-> kind] \in Reply
    BY <2>2 DEF Reply
  <2> QED BY <2>4, <2>5, SetToSeqOne
<1> QED BY <1>1, <1>2

LEMMA AnswerSeqType ==
    ASSUME NEW m \in Messages
    PROVE  SetToSeq(AnswerTo(m)) \in Seq(Reply)
<1>1. <<>> \in Seq(Reply) /\ \A r \in Reply : <<r>> \in Seq(Reply)
  OBVIOUS
<1> QED BY <1>1, AnswerType

LEMMA AnswersToMore ==
    ASSUME NEW messages \in Seq(Messages), NEW n \in Nat, n < Len(messages)
    PROVE  /\ AnswersTo(messages, n + 1)
                = AnswersTo(messages, n) \o SetToSeq(AnswerTo(messages[n + 1]))
           /\ AnswersTo(messages, n) \in Seq(Reply)
<1> DEFINE reply(i) == SetToSeq(AnswerTo(messages[i]))
           S == Seq(Reply)
           some == [ i \in 1 .. n |-> reply(i) ]
           more == [ i \in 1 .. n + 1 |-> reply(i) ]
<1>1. \A i \in 1 .. n + 1 : reply(i) \in S
  BY ElementOfSeq, LenProperties, AnswerSeqType
<1>2. reply(n + 1) \in S /\ n + 1 \in 1 .. n + 1
  BY <1>1
<1>3. AnswersTo(messages, n) = FlattenSeq(some) /\ AnswersTo(messages, n + 1) = FlattenSeq(more)
  BY DEF AnswersTo
<1> HIDE DEF reply, S
<1>4. /\ some \in Seq(S) /\ Len(some) = n /\ \A i \in 1 .. n : some[i] = reply(i)
      /\ more \in Seq(S) /\ Len(more) = n + 1 /\ \A i \in 1 .. n + 1 : more[i] = reply(i)
  BY <1>1
<1> HIDE DEF some, more
<1>5. more = Append(some, reply(n + 1))
  <2> DEFINE one == reply(n + 1)
  <2>1. one \in S
    BY <1>2
  <2> HIDE DEF one
  <2>2. /\ Append(some, one) \in Seq(S) /\ Len(Append(some, one)) = n + 1
        /\ \A i \in 1 .. n : Append(some, one)[i] = some[i]
        /\ Append(some, one)[n + 1] = one
    BY <2>1, <1>4, AppendProperties
  <2>3. \A i \in 1 .. n + 1 : Append(some, one)[i] = more[i]
    BY <2>2, <1>4 DEF one
  <2>4. Append(some, one) = more
    BY <2>2, <2>3, <1>4, SeqEqual
  <2> QED BY <2>4 DEF one
<1>6. FlattenSeq(Append(some, reply(n + 1))) = FlattenSeq(some) \o reply(n + 1)
  BY <1>2, <1>4, FlattenAppend DEF S
<1>7. FlattenSeq(some) \in Seq(Reply)
  BY <1>4, FlattenType DEF S
<1> QED BY <1>3, <1>5, <1>6, <1>7 DEF reply

LEMMA AnswersToAlike ==
    ASSUME NEW messages, NEW others, NEW n \in Nat, \A i \in 1 .. n : messages[i] = others[i]
    PROVE  AnswersTo(messages, n) = AnswersTo(others, n)
<1>1. [ i \in 1 .. n |-> SetToSeq(AnswerTo(messages[i])) ]
        = [ i \in 1 .. n |-> SetToSeq(AnswerTo(others[i])) ]
  OBVIOUS
<1> QED BY <1>1 DEF AnswersTo

\* A call writes its answer, all of it, on its way past Answering.
LEMMA CallAnswersOnce ==
    ASSUME DispatchInv, CallStep
    PROVE  /\ pc' \in Answering => pc \in Answering /\ msg' = msg
           /\ pc \in Answering /\ pc' \notin Answering =>
                output' = output \o SetToSeq(AnswerTo(msg))
           /\ ~(pc \in Answering /\ pc' \notin Answering) => output' = output
<1> USE DEF Answering
<1>0. /\ msg \in Messages /\ output \in Seq(Reply)
      /\ AnswerTo(msg) = {} => output = output \o SetToSeq(AnswerTo(msg))
  BY SetToSeqEmpty, ConcatEmptySeq DEF DispatchInv, DispatchTypeOK
<1>1. CASE Drop
  BY <1>0, <1>1, NothingOwed DEF Drop
<1>2. CASE Abort
  <2>1. Aborts(msg) \/ MayAbort(msg)
    BY <1>2 DEF Abort, Aborts, MayAbort, DispatchInv, MessageFacts
  <2> QED BY <1>0, <1>2, <2>1, NothingOwed DEF Abort
<1>3. CASE EnterStream
  BY <1>3 DEF EnterStream
<1>4. CASE EnterId
  BY <1>4 DEF EnterId
<1>5. CASE Invoke
  BY <1>0, <1>5, NothingOwed DEF Invoke
<1>6. CASE Send
  <2>1. pc = "send" /\ pc' = "leave_id"
    BY <1>6, GetValueOne, GetValueTwo
       DEF Send, DispatchInv, ContextShape, OneLayer, TwoLayers, StreamFound
  <2>2. CASE HasId(msg)
    <3>1. PICK r \in Reply : AnswerTo(msg) = {r} /\ output' = Append(output, r)
      BY <1>6, <2>2, SendAnswers
    <3>2. Append(output, r) = output \o <<r>>
      BY <1>0, AppendIsConcat
    <3> QED BY <2>1, <3>1, <3>2, SetToSeqOne
  <2>3. CASE ~HasId(msg)
    <3>1. UNCHANGED output
      BY <1>6, <2>3, GetValueOne DEF Send, DispatchInv, ContextShape, OneLayer
    <3> QED BY <1>0, <2>1, <2>3, <3>1, NothingOwed
  <2> QED BY <2>2, <2>3
<1>7. CASE LeaveId
  BY <1>7 DEF LeaveId
<1>8. CASE LeaveStream
  BY <1>8 DEF LeaveStream
<1> QED BY <1>1, <1>2, <1>3, <1>4, <1>5, <1>6, <1>7, <1>8 DEF CallStep

LEMMA InitRepliesInv == ServerInit => RepliesInv
<1> SUFFICES ASSUME ServerInit PROVE RepliesInv
  OBVIOUS
<1>1. pc = "idle" /\ handled = <<>> /\ output = <<>> /\ Len(<<>>) = 0
  BY DEF ServerInit, DispatchInit
<1>2. Answered = 0
  BY <1>1 DEF Answered, Answering
<1>3. [ i \in 1 .. 0 |-> SetToSeq(AnswerTo(handled[i])) ] = <<>>
  OBVIOUS
<1>4. AnswersTo(handled, 0) = <<>>
  BY <1>3, FlattenEmpty DEF AnswersTo
<1> QED BY <1>1, <1>2, <1>4 DEF RepliesInv, Answering

LEMMA NextRepliesInv ==
    ASSUME ServerInv, RepliesInv, [ServerNext]_vars
    PROVE  RepliesInv'
<1>0. handled \in Seq(Messages) /\ Len(handled) \in Nat /\ DispatchInv
  BY LenProperties DEF ServerInv, ServerTypeOK
<1>1. CASE WorkerTake
  <2>1. /\ pc = "idle" /\ pc' = "validate" /\ msg' = Head(queue) /\ output' = output
        /\ handled' = Append(handled, Head(queue)) /\ Head(queue) \in Messages
    BY <1>1, HeadTailProperties DEF WorkerTake, Call, ServerInv, ServerTypeOK
  <2> DEFINE m == Head(queue)
             more == handled'
             n == Len(handled)
  <2>2. /\ more \in Seq(Messages) /\ Len(more) = n + 1
        /\ \A i \in 1 .. n : more[i] = handled[i]
        /\ more[n + 1] = m
    BY <1>0, <2>1, AppendProperties
  <2>3. Answered = n /\ Answered' = n
    BY <1>0, <2>1, <2>2 DEF Answered, Answering
  <2> HIDE DEF more, m
  <2>4. AnswersTo(more, n) = AnswersTo(handled, n)
    BY <1>0, <2>2, AnswersToAlike
  <2>5. more # <<>> /\ m = more[Len(more)]
    BY <1>0, <2>2
  <2> QED BY <2>1, <2>3, <2>4, <2>5 DEF RepliesInv, more, m
<1>2. CASE WorkerStep
  <2>1. handled' = handled /\ CallStep
    BY <1>2 DEF WorkerStep, workerVars
  <2>2. CASE pc \in Answering /\ pc' \notin Answering
    <3> DEFINE n == Len(handled) - 1
    <3>1. handled # <<>> /\ msg = handled[Len(handled)] /\ output = AnswersTo(handled, Answered)
      BY <2>2 DEF RepliesInv
    <3>2. n \in Nat /\ n + 1 = Len(handled) /\ n < Len(handled)
      BY <1>0, <3>1
    <3>3. Answered = n /\ Answered' = n + 1
      BY <1>0, <2>1, <2>2, <3>2 DEF Answered
    <3>4. output' = output \o SetToSeq(AnswerTo(msg))
      BY <1>0, <2>1, <2>2, CallAnswersOnce
    <3> HIDE DEF n
    <3>5. AnswersTo(handled, n + 1) = AnswersTo(handled, n) \o SetToSeq(AnswerTo(handled[n + 1]))
      BY <1>0, <3>2, AnswersToMore
    <3>6. output' = AnswersTo(handled, n + 1)
      BY <3>1, <3>2, <3>3, <3>4, <3>5
    <3> QED BY <2>1, <2>2, <3>3, <3>6 DEF RepliesInv
  <2>3. CASE ~(pc \in Answering /\ pc' \notin Answering)
    <3>1. output' = output /\ (pc' \in Answering => pc \in Answering /\ msg' = msg)
      BY <1>0, <2>1, <2>3, CallAnswersOnce
    <3>2. Answered' = Answered
      BY <2>1, <2>3, <3>1 DEF Answered
    <3> QED BY <2>1, <3>1, <3>2 DEF RepliesInv
  <2> QED BY <2>2, <2>3
<1>3. CASE ~WorkerTake /\ ~WorkerStep
  <2>1. UNCHANGED <<pc, msg, output, handled>>
    BY <1>3 DEF ServerNext, Worker, WorkerReturn, MainStep, TestLoop, ReadFrame, ReadEof,
       Post, SetDone, ResetWork, Join, ClientSend, ClientClose, StoreVisible, Stopped, vars,
       serverVars, dispatchVars, workerVars
  <2> QED BY <2>1 DEF RepliesInv, Answered
<1> QED BY <1>1, <1>2, <1>3

(***************************************************************************)
(* The client receives the answers to the messages that were posted, in    *)
(* their order, each once, as far as they were handled.                    *)
(***************************************************************************)
THEOREM ServerRepliesInOrder == ServerSpec => []RepliesInOrder
<1>1. ServerSpec => []RepliesInv
  BY InitRepliesInv, NextRepliesInv, ServerInvariant, PTL DEF ServerSpec
<1>2. ASSUME ServerInv, RepliesInv
      PROVE  RepliesInOrder
  <2>1. /\ handled \in Seq(Messages) /\ queue \in Seq(Messages) /\ posted = handled \o queue
        /\ Len(handled) \in Nat
    BY <1>2, LenProperties DEF ServerInv, ServerTypeOK, QueueIsFifo
  <2>2. Answered \in Nat /\ Answered <= Len(handled)
    <3>1. CASE pc \in Answering
      <4>1. handled # <<>>
        BY <1>2, <3>1 DEF RepliesInv
      <4> QED BY <2>1, <3>1, <4>1 DEF Answered
    <3>2. CASE pc \notin Answering
      BY <2>1, <3>2 DEF Answered
    <3> QED BY <3>1, <3>2
  <2>3. \A i \in 1 .. Len(handled) : posted[i] = handled[i]
    BY <2>1, ConcatProperties
  <2>4. \A i \in 1 .. Answered : posted[i] = handled[i]
    BY <2>1, <2>2, <2>3
  <2>5. AnswersTo(posted, Answered) = AnswersTo(handled, Answered)
    BY <2>2, <2>4, AnswersToAlike
  <2> QED BY <1>2, <2>5 DEF RepliesInv, RepliesInOrder, AnswersTo, Answered, Answering
<1> QED BY <1>1, <1>2, ServerInvariant, PTL

-----------------------------------------------------------------------------
(***************************************************************************)
(* The refinement: the frames that are left and the contents taken.        *)
(***************************************************************************)
LEMMA AsFrameType == \A f \in Frames : AsFrame(f) \in FrameStream!Frame
<1>1. ASSUME NEW f \in Messages
      PROVE  <<f>> \in Seq(Messages) /\ Len(<<f>>) = 1
  OBVIOUS
<1>2. <<>> \in Seq(Messages) /\ Len(<<>>) = 0
  OBVIOUS
<1> QED BY <1>1, <1>2, JunkAssumption DEF Frames, AsFrame, FrameStream!Frame

FramesLeftShape ==
    /\ FramesLeft \in Seq(FrameStream!Frame)
    /\ Len(FramesLeft) = Len(sent) - consumed
    /\ \A n \in 1 .. Len(sent) - consumed : FramesLeft[n] = AsFrame(sent[consumed + n])

LEMMA FramesLeftType == ServerTypeOK => FramesLeftShape
<1> SUFFICES ASSUME ServerTypeOK PROVE FramesLeftShape
  OBVIOUS
<1>1. Len(sent) - consumed \in Nat
  BY LenProperties DEF ServerTypeOK
<1>2. ASSUME NEW n \in 1 .. Len(sent) - consumed
      PROVE  AsFrame(sent[consumed + n]) \in FrameStream!Frame
  BY <1>1, ElementOfSeq, AsFrameType DEF ServerTypeOK
<1> DEFINE F == FrameStream!Frame
           k == Len(sent) - consumed
           fr(n) == AsFrame(sent[consumed + n])
<1>3. k \in Nat /\ \A n \in 1 .. k : fr(n) \in F
  BY <1>1, <1>2
<1>4. FramesLeft = [n \in 1 .. k |-> fr(n)]
  BY DEF FramesLeft
<1> HIDE DEF F, k, fr
<1>5. [n \in 1 .. k |-> fr(n)] \in Seq(F) /\ Len([n \in 1 .. k |-> fr(n)]) = k
  BY <1>3
<1>6. FramesLeft \in Seq(F) /\ Len(FramesLeft) = k /\ \A n \in 1 .. k : FramesLeft[n] = fr(n)
  BY <1>4, <1>5
<1> QED BY <1>6 DEF F, k, fr, FramesLeftShape

LEMMA TakenContentsType ==
    ASSUME ServerTypeOK
    PROVE  TakenContents \in Seq(Messages)
<1>1. <<content>> \in Seq(Messages) /\ <<>> \in Seq(Messages) /\ posted \in Seq(Messages)
  BY DEF ServerTypeOK
<1> QED BY <1>1, ConcatProperties DEF TakenContents

\* What the client writes joins the frames that are left, at their end.
LEMMA SendArrives ==
    ASSUME ServerTypeOK, ServerTypeOK', NEW f \in Frames, ClientSend(f)
    PROVE  FrameStream!Arrive
<1>1. /\ sent' \in Seq(Frames) /\ Len(sent') = Len(sent) + 1
      /\ \A n \in 1 .. Len(sent) : sent'[n] = sent[n]
  BY AppendProperties DEF ClientSend, ServerTypeOK
<1>2. consumed' = consumed /\ consumed \in 0 .. Len(sent) /\ Len(sent) \in Nat
  BY LenProperties DEF ClientSend, ServerTypeOK, mainVars
<1> DEFINE F == FrameStream!Frame
           k == Len(sent) - consumed
           old == FramesLeft
           new == FramesLeft'
<1>3. /\ old \in Seq(F) /\ Len(old) = k
      /\ \A n \in 1 .. k : old[n] = AsFrame(sent[consumed + n])
  BY FramesLeftType DEF FramesLeftShape
<1>4. /\ new \in Seq(F) /\ Len(new) = k + 1
      /\ \A n \in 1 .. k + 1 : new[n] = AsFrame(sent'[consumed + n])
  <2>1. FramesLeftShape'
    BY FramesLeftType, PTL
  <2> QED BY <2>1, <1>1, <1>2 DEF FramesLeftShape
<1>5. k \in Nat /\ \A n \in 1 .. k : new[n] = old[n]
  <2>1. k \in Nat
    BY <1>2
  <2>2. ASSUME NEW n \in 1 .. k
        PROVE  new[n] = old[n]
    <3>1. n \in 1 .. k + 1 /\ consumed + n \in 1 .. Len(sent)
      BY <1>2
    <3>2. sent'[consumed + n] = sent[consumed + n]
      BY <1>1, <3>1
    <3>3. new[n] = AsFrame(sent'[consumed + n]) /\ old[n] = AsFrame(sent[consumed + n])
      BY <1>3, <1>4, <3>1
    <3> QED BY <3>2, <3>3
  <2> QED BY <2>1, <2>2
<1>6. UNCHANGED <<TakenContents, ~good>>
  BY DEF ClientSend, mainVars, TakenContents
<1> HIDE DEF F, k, old, new
<1>7. old = SubSeq(new, 1, Len(old))
  <2>1. /\ SubSeq(new, 1, k) \in Seq(F) /\ Len(SubSeq(new, 1, k)) = k
        /\ \A n \in 1 .. k : SubSeq(new, 1, k)[n] = new[n]
    BY <1>4, <1>5
  <2> QED BY <2>1, <1>3, <1>5, SeqEqual
<1> QED BY <1>3, <1>4, <1>5, <1>6, <1>7 DEF FrameStream!Arrive, F, k, old, new

LEMMA ReadTakes ==
    ASSUME ServerTypeOK, ServerTypeOK', ReadFrame
    PROVE  FrameStream!Take
<1>1. /\ consumed' = consumed + 1 /\ sent' = sent /\ posted' = posted /\ good' = good
      /\ consumed \in 0 .. Len(sent) /\ consumed < Len(sent) /\ Len(sent) \in Nat
      /\ mainPc = "read"
  BY LenProperties DEF ReadFrame, ServerTypeOK, clientVars
<1> DEFINE F == FrameStream!Frame
           k == Len(sent) - consumed
           old == FramesLeft
           new == FramesLeft'
           f == sent[consumed + 1]
<1>2. /\ old \in Seq(F) /\ Len(old) = k
      /\ \A n \in 1 .. k : old[n] = AsFrame(sent[consumed + n])
  BY FramesLeftType DEF FramesLeftShape
<1>3. /\ new \in Seq(F) /\ Len(new) = k - 1
      /\ \A n \in 1 .. k - 1 : new[n] = AsFrame(sent[consumed + 1 + n])
  <2>1. FramesLeftShape'
    BY FramesLeftType, PTL
  <2> QED BY <2>1, <1>1 DEF FramesLeftShape
<1>4. k \in Nat /\ k >= 1 /\ old[1] = AsFrame(f) /\ f \in Frames
  BY <1>1, <1>2, ElementOfSeq DEF ServerTypeOK
<1>5. ASSUME NEW n \in 1 .. k - 1
      PROVE  new[n] = old[n + 1]
  <2>1. n + 1 \in 1 .. k /\ consumed + 1 + n = consumed + (n + 1)
    BY <1>1
  <2>2. new[n] = AsFrame(sent[consumed + 1 + n]) /\ old[n + 1] = AsFrame(sent[consumed + (n + 1)])
    BY <1>2, <1>3, <2>1
  <2> QED BY <2>1, <2>2
<1>6. old # <<>> /\ Head(old) = AsFrame(f) /\ new = Tail(old)
  <2> HIDE DEF F, k, old, new
  <2>1. old # <<>> /\ Head(old) = old[1]
    BY <1>2, <1>4
  <2>2. /\ Tail(old) \in Seq(F) /\ Len(Tail(old)) = k - 1
        /\ \A n \in 1 .. k - 1 : Tail(old)[n] = old[n + 1]
    BY <1>2, <1>4, <2>1
  <2>3. new = Tail(old)
    BY <2>2, <1>3, <1>4, <1>5, SeqEqual
  <2> QED BY <1>4, <2>1, <2>3
<1>7. TakenContents' = TakenContents \o AsFrame(f).content
  <2>1. posted \in Seq(Messages) /\ <<>> \in Seq(Messages)
    BY DEF ServerTypeOK
  <2>2. TakenContents = posted
    BY <1>1, <2>1, ConcatEmptySeq DEF TakenContents
  <2>3. CASE f = Junk
    <3>1. mainPc' = "test"
      BY <2>3 DEF ReadFrame
    <3> QED BY <1>1, <2>1, <2>2, <2>3, <3>1, ConcatEmptySeq DEF TakenContents, AsFrame
  <2>4. CASE f # Junk
    <3>1. mainPc' = "post" /\ content' = f
      BY <2>4 DEF ReadFrame
    <3> QED BY <1>1, <2>2, <2>4, <3>1 DEF TakenContents, AsFrame
  <2> QED BY <2>3, <2>4
<1>8. AsFrame(f).kind # "misframed"
  BY DEF AsFrame
<1> HIDE DEF f
<1> QED BY <1>1, <1>6, <1>7, <1>8 DEF FrameStream!Take

LEMMA EofEnds ==
    ASSUME ServerTypeOK, ServerTypeOK', ReadEof
    PROVE  FrameStream!End
<1>1. Len(FramesLeft) = 0 /\ FramesLeft \in Seq(FrameStream!Frame)
  BY FramesLeftType DEF FramesLeftShape, ReadEof, ServerTypeOK
<1>2. FramesLeft = <<>>
  BY <1>1
<1>3. FramesLeft' = FramesLeft
  BY DEF ReadEof, FramesLeft, clientVars
<1>4. TakenContents' = TakenContents
  BY DEF ReadEof, TakenContents
<1> QED BY <1>2, <1>3, <1>4 DEF FrameStream!End, ReadEof

\* The post moves the content out of run()'s hands: nothing is taken.
LEMMA OthersTakeNothing ==
    ASSUME ServerTypeOK, ServerTypeOK', [ServerNext]_vars,
           ~ReadFrame, ~ReadEof, \A f \in Frames : ~ClientSend(f)
    PROVE  UNCHANGED FrameStream!frameVars
<1>1. sent' = sent /\ consumed' = consumed /\ good' = good
  BY DEF ServerNext, Worker, WorkerTake, WorkerStep, WorkerReturn, MainStep, TestLoop, Post,
     SetDone, ResetWork, Join, ClientClose, StoreVisible, Stopped, vars, serverVars,
     clientVars, mainVars
<1>2. FramesLeft' = FramesLeft
  BY <1>1 DEF FramesLeft
<1>3. TakenContents' = TakenContents
  <2>1. CASE Post
    <3>1. posted' = Append(posted, content) /\ mainPc = "post" /\ mainPc' = "test"
      BY <2>1 DEF Post
    <3>2. posted \in Seq(Messages) /\ content \in Messages /\ posted' \in Seq(Messages)
      BY DEF ServerTypeOK
    <3>3. posted' = posted \o <<content>> /\ posted' \o <<>> = posted'
      BY <3>1, <3>2, AppendIsConcat, ConcatEmptySeq
    <3> QED BY <3>1, <3>3 DEF TakenContents
  <2>2. CASE ~Post
    <3>1. /\ posted' = posted /\ content' = content
          /\ (mainPc' = "post") = (mainPc = "post")
      BY <2>2 DEF ServerNext, Worker, WorkerTake, WorkerStep, WorkerReturn, MainStep, TestLoop,
         SetDone, ResetWork, Join, ClientClose, StoreVisible, Stopped, vars, serverVars,
         clientVars, mainVars
    <3> QED BY <3>1 DEF TakenContents
  <2> QED BY <2>1, <2>2
<1> QED BY <1>1, <1>2, <1>3 DEF FrameStream!frameVars

(***************************************************************************)
(* Whatever the worker does meanwhile, run() posts the content of every    *)
(* usable frame once and in the client's order, and sees the end of the    *)
(* input only behind the last frame.                                       *)
(***************************************************************************)
THEOREM ServerPostsFrames == ServerSpec => PostsFrames
<1>1. ServerInit => FrameStream!FrameInit
  <2> SUFFICES ASSUME ServerInit PROVE FrameStream!FrameInit
    OBVIOUS
  <2>1. ServerTypeOK
    BY InitServerInv DEF ServerInv
  <2>2. TakenContents = <<>>
    <3>1. posted = <<>> /\ mainPc = "test" /\ <<>> \in Seq(Messages)
      BY DEF ServerInit
    <3> QED BY <3>1, ConcatEmptySeq DEF TakenContents
  <2> QED BY <2>1, <2>2, FramesLeftType DEF FramesLeftShape, FrameStream!FrameInit, ServerInit
<1>2. ASSUME ServerInv, ServerInv', [ServerNext]_vars
      PROVE  [FrameStream!FrameNext]_(FrameStream!frameVars)
  BY <1>2, SendArrives, ReadTakes, EofEnds, OthersTakeNothing
     DEF ServerInv, FrameStream!FrameNext
<1>3. ServerSpec => FrameStream!FrameInit /\ [][FrameStream!FrameNext]_(FrameStream!frameVars)
  BY <1>1, <1>2, ServerInvariant, PTL DEF ServerSpec
<1> QED BY <1>3 DEF PostsFrames, FrameStream!FrameSpec

=============================================================================
