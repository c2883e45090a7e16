----------------------------- MODULE LspServer ------------------------------
(***************************************************************************)
(* LSP_server: the thread that runs run() reads messages from the input    *)
(* stream and posts them to a boost::asio io_context; one worker thread,   *)
(* started by the constructor, takes them from there and runs              *)
(* Dispatcher::call on each.  The two threads share the io_context, which  *)
(* locks, and the plain bool _is_done, which does not.                     *)
(***************************************************************************)
EXTENDS Dispatcher, SequencesExt

CONSTANTS
    Junk,    \* a frame that read_message gives up on and skips
    MaxSent  \* how many frames the client sends before it can only close

ASSUME JunkAssumption == Junk \notin Messages
ASSUME MaxSentAssumption == MaxSent \in Nat

Frames == Messages \cup {Junk}

VARIABLES
    sent,      \* every frame the client wrote to the input stream
    consumed,  \* how many of them read_message has taken off the stream
    closed,    \* the client closed its end
    good,      \* _input_stream.good()
    mainPc,    \* where run() is
    content,   \* the message that read_message returned
    queue,     \* the functions posted to _io_context and not yet started
    posted,    \* every message posted, in order
    handled,   \* every message whose call was started, in order
    work,      \* _work: keeps _io_context.run() from returning
    workerUp,  \* _io_context.run() has not returned
    isDone,    \* _is_done
    unseen,    \* the worker's store to _is_done is not visible to run() yet
    late       \* messages posted after the store of on_exit became visible

clientVars == <<sent, closed>>
mainVars   == <<consumed, good, mainPc, content, posted, work, late>>
workerVars == <<handled, workerUp>>
sharedVars == <<queue, isDone, unseen>>
serverVars == <<clientVars, mainVars, workerVars, sharedVars>>
vars       == <<dispatchVars, serverVars>>

MainSteps == {"test", "read", "post", "done", "reset", "join", "returned"}

Running == pc # "aborted" /\ mainPc # "returned"

ServerInit ==
    /\ DispatchInit
    /\ sent = <<>> /\ consumed = 0 /\ closed = FALSE
    /\ good = TRUE
    /\ mainPc = "test"
    /\ content = NoMessage
    /\ queue = <<>> /\ posted = <<>> /\ handled = <<>>
    /\ work = TRUE /\ workerUp = TRUE
    /\ isDone = FALSE /\ unseen = FALSE
    /\ late = 0

-----------------------------------------------------------------------------
(***************************************************************************)
(* The client, at the other end of the pipe.                               *)
(***************************************************************************)
ClientSend(f) ==
    /\ ~closed /\ Len(sent) < MaxSent
    /\ sent' = Append(sent, f)
    /\ UNCHANGED <<dispatchVars, closed, mainVars, workerVars, sharedVars>>

ClientClose ==
    /\ ~closed
    /\ closed' = TRUE
    /\ UNCHANGED <<dispatchVars, sent, mainVars, workerVars, sharedVars>>

-----------------------------------------------------------------------------
\* Mutant: the loop runs until the end of the input, whatever _is_done says.
TestLoopUntilEof ==
    /\ pc # "aborted" /\ mainPc = "test"
    /\ mainPc' = IF good THEN "read" ELSE "done"
    /\ UNCHANGED <<dispatchVars, clientVars, workerVars, sharedVars,
                   consumed, good, content, posted, work, late>>

(***************************************************************************)
(* run().  The read of _is_done races with the store in on_exit: until     *)
(* the store is visible it may give the old value.                         *)
(***************************************************************************)
TestLoop ==
    /\ pc # "aborted" /\ mainPc = "test"
    /\ \E done \in {isDone} \cup (IF unseen THEN {FALSE} ELSE {}) :
         mainPc' = IF ~done /\ good THEN "read" ELSE "done"
    /\ UNCHANGED <<dispatchVars, clientVars, workerVars, sharedVars,
                   consumed, good, content, posted, work, late>>

\* Mutant: the result of read_message is posted without a test for nullopt.
ReadFrameUntested ==
    /\ pc # "aborted" /\ mainPc = "read" /\ consumed < Len(sent)
    /\ mainPc' = "post" /\ content' = sent[consumed + 1]
    /\ consumed' = consumed + 1
    /\ UNCHANGED <<dispatchVars, clientVars, workerVars, sharedVars,
                   good, posted, work, late>>

\* read_message blocks until the stream holds the whole next frame.
ReadFrame ==
    /\ pc # "aborted" /\ mainPc = "read" /\ consumed < Len(sent)
    /\ LET f == sent[consumed + 1]
       IN  \/ /\ f = Junk  \* std::nullopt: a warning, and on to the next one
              /\ mainPc' = "test" /\ UNCHANGED content
           \/ /\ f # Junk
              /\ mainPc' = "post" /\ content' = f
    /\ consumed' = consumed + 1
    /\ UNCHANGED <<dispatchVars, clientVars, workerVars, sharedVars,
                   good, posted, work, late>>

\* End of input, in a header or in the middle of a content: std::nullopt.
ReadEof ==
    /\ pc # "aborted" /\ mainPc = "read" /\ consumed = Len(sent) /\ closed
    /\ good' = FALSE
    /\ mainPc' = "test"
    /\ UNCHANGED <<dispatchVars, clientVars, workerVars, sharedVars,
                   consumed, content, posted, work, late>>

\* Mutant: a message that was read while exit was handled is thrown away.
PostUnlessDone ==
    /\ pc # "aborted" /\ mainPc = "post"
    /\ queue' = IF isDone THEN queue ELSE Append(queue, content)
    /\ posted' = IF isDone THEN posted ELSE Append(posted, content)
    /\ content' = NoMessage
    /\ mainPc' = "test"
    /\ UNCHANGED <<dispatchVars, clientVars, workerVars, isDone, unseen,
                   consumed, good, work, late>>

Post ==
    /\ pc # "aborted" /\ mainPc = "post"
    /\ queue' = Append(queue, content)
    /\ posted' = Append(posted, content)
    /\ content' = NoMessage
    /\ late' = IF isDone /\ ~unseen THEN late + 1 ELSE late
    /\ mainPc' = "test"
    /\ UNCHANGED <<dispatchVars, clientVars, workerVars, isDone, unseen,
                   consumed, good, work>>

SetDone ==
    /\ pc # "aborted" /\ mainPc = "done"
    /\ isDone' = TRUE
    /\ mainPc' = "reset"
    /\ UNCHANGED <<dispatchVars, clientVars, workerVars, queue, unseen,
                   consumed, good, content, posted, work, late>>

\* Mutant: the work object outlives the loop.
ResetWorkForgotten ==
    /\ pc # "aborted" /\ mainPc = "reset"
    /\ mainPc' = "join"
    /\ UNCHANGED <<dispatchVars, clientVars, workerVars, sharedVars,
                   consumed, good, content, posted, work, late>>

ResetWork ==
    /\ pc # "aborted" /\ mainPc = "reset"
    /\ work' = FALSE
    /\ mainPc' = "join"
    /\ UNCHANGED <<dispatchVars, clientVars, workerVars, sharedVars,
                   consumed, good, content, posted, late>>

Join ==
    /\ pc # "aborted" /\ mainPc = "join" /\ ~workerUp
    /\ mainPc' = "returned"
    /\ UNCHANGED <<dispatchVars, clientVars, workerVars, sharedVars,
                   consumed, good, content, posted, work, late>>

MainStep == TestLoop \/ ReadFrame \/ ReadEof \/ Post \/ SetDone \/ ResetWork \/ Join

-----------------------------------------------------------------------------
\* Mutant: the last function posted is run first.
WorkerTakeLast ==
    /\ workerUp /\ queue # <<>>
    /\ Call(Last(queue))
    /\ queue' = Front(queue)
    /\ handled' = Append(handled, Last(queue))
    /\ UNCHANGED <<clientVars, mainVars, workerUp, isDone, unseen>>

\* Mutant: nothing is run any more once exit was handled.
WorkerTakeUntilExit ==
    /\ workerUp /\ queue # <<>> /\ ~isDone
    /\ Call(Head(queue))
    /\ queue' = Tail(queue)
    /\ handled' = Append(handled, Head(queue))
    /\ UNCHANGED <<clientVars, mainVars, workerUp, isDone, unseen>>

(***************************************************************************)
(* The worker: _io_context.run() executes one function at a time, in the   *)
(* order of the posts, and returns when nothing is queued and no work      *)
(* object is left.                                                         *)
(***************************************************************************)
WorkerTake ==
    /\ workerUp /\ queue # <<>>
    /\ Call(Head(queue))
    /\ queue' = Tail(queue)
    /\ handled' = Append(handled, Head(queue))
    /\ UNCHANGED <<clientVars, mainVars, workerUp, isDone, unseen>>

\* on_exit runs: the one handler that touches what the other thread reads.
OnExit == pc = "invoke" /\ msg.method = "exit" /\ ~ParamsAssertionFails(msg)

WorkerStep ==
    /\ workerUp
    /\ CallStep
    /\ isDone' = (isDone \/ OnExit)
    /\ unseen' = (unseen \/ (OnExit /\ ~isDone))
    /\ UNCHANGED <<clientVars, mainVars, workerVars, queue>>

\* Mutant: the io_context is stopped with functions still in its queue.
WorkerReturnStopped ==
    /\ workerUp /\ pc = "idle" /\ ~work
    /\ workerUp' = FALSE
    /\ UNCHANGED <<dispatchVars, clientVars, mainVars, handled, sharedVars>>

WorkerReturn ==
    /\ workerUp /\ pc = "idle" /\ queue = <<>> /\ ~work
    /\ workerUp' = FALSE
    /\ UNCHANGED <<dispatchVars, clientVars, mainVars, handled, sharedVars>>

Worker == WorkerTake \/ WorkerStep \/ WorkerReturn

\* The store of the worker becomes visible to the other thread.
StoreVisible ==
    /\ unseen
    /\ unseen' = FALSE
    /\ UNCHANGED <<dispatchVars, clientVars, mainVars, workerVars, queue, isDone>>

\* run() has returned, or the process is gone.
Stopped ==
    /\ ~Running
    /\ UNCHANGED vars

ServerNext ==
    \/ \E f \in Frames : ClientSend(f)
    \/ ClientClose
    \/ MainStep
    \/ Worker
    \/ StoreVisible
    \/ Stopped

(***************************************************************************)
(* Both threads are scheduled, and a store does not stay in a buffer       *)
(* forever.  Nothing is assumed of the client.                             *)
(***************************************************************************)
ServerFairness ==
    /\ WF_vars(MainStep)
    /\ WF_vars(Worker)
    /\ WF_vars(StoreVisible)

ServerSpec == ServerInit /\ [][ServerNext]_vars /\ ServerFairness

-----------------------------------------------------------------------------
ServerTypeOK ==
    /\ DispatchTypeOK
    /\ sent \in Seq(Frames) /\ consumed \in 0 .. Len(sent)
    /\ mainPc \in MainSteps
    /\ content \in Messages
    /\ queue \in Seq(Messages) /\ posted \in Seq(Messages) /\ handled \in Seq(Messages)
    /\ late \in Nat
    /\ closed \in BOOLEAN /\ good \in BOOLEAN /\ work \in BOOLEAN
    /\ workerUp \in BOOLEAN /\ isDone \in BOOLEAN /\ unseen \in BOOLEAN

(***************************************************************************)
(* Between the reader and the worker no message is lost, duplicated or     *)
(* overtaken: what was posted is what was handled followed by what is      *)
(* still queued.                                                           *)
(***************************************************************************)
QueueIsFifo == posted = handled \o queue

(***************************************************************************)
(* The reader is one that keeps its place in the input (MessageReader says *)
(* when read_message does), and what it delivers is what run() posts; the  *)
(* last content may still be in run()'s hands.                             *)
(***************************************************************************)
AsFrame(f) ==
    IF f = Junk THEN [kind |-> "skipped", content |-> <<>>]
    ELSE [kind |-> "content", content |-> <<f>>]

FramesLeft == [ n \in 1 .. Len(sent) - consumed |-> AsFrame(sent[consumed + n]) ]

TakenContents == posted \o (IF mainPc = "post" THEN <<content>> ELSE <<>>)

FrameStream == INSTANCE FrameReader WITH
    Contents    <- Messages,
    left        <- FramesLeft,
    delivered   <- TakenContents,
    framed      <- TRUE,
    interrupted <- FALSE,
    ended       <- ~good

(***************************************************************************)
(* run() posts the content of every frame it takes off the input, once and *)
(* in the client's order, whatever the worker does meanwhile; it skips     *)
(* the frames it cannot use and nothing else, and notices the end of the   *)
(* input only behind the last frame.                                       *)
(***************************************************************************)
PostsFrames == FrameStream!FrameSpec

(***************************************************************************)
(* When run() returns the worker has finished: every message that was      *)
(* posted, however late, was handled to its end, so that the caller can    *)
(* destroy the server, its streams and the dispatcher on run()'s stack.    *)
(***************************************************************************)
DrainedOnReturn ==
    mainPc = "returned" => ~workerUp /\ pc = "idle" /\ handled = posted

(***************************************************************************)
(* Once the store of on_exit is visible to the reader it accepts at most   *)
(* one more message: the one it was already reading.                       *)
(***************************************************************************)
OneLateMessage == late <= 1

(***************************************************************************)
(* End to end: whatever was read and posted meanwhile, the client has      *)
(* received exactly the answers to the first messages that were posted, in *)
(* their order: as many as were handled, of which the one in the call may  *)
(* still be missing.                                                       *)
(***************************************************************************)
RepliesInOrder ==
    LET done == Len(handled) - IF pc \in {"validate", "stream", "invoke", "send"} THEN 1 ELSE 0
    IN  output = FlattenSeq([ i \in 1 .. done |-> SetToSeq(AnswerTo(posted[i])) ])

\* The process ended by an assertion or an uncaught exception.
Aborted == pc = "aborted"

(***************************************************************************)
(* When the client closes the stream, run() returns.                       *)
(***************************************************************************)
EofEndsRun == closed ~> (mainPc = "returned" \/ Aborted)

(***************************************************************************)
(* After on_exit, one more read that completes is enough for run() to      *)
(* return.  (Without one it stays in read_message: _is_done is only tested *)
(* between two reads.)                                                     *)
(***************************************************************************)
ExitEndsRunAtNextRead ==
    (isDone /\ ~unseen /\ (consumed < Len(sent) \/ closed))
        ~> (mainPc = "returned" \/ Aborted)

(***************************************************************************)
(* Every message that was posted is eventually handled, those posted after *)
(* the exit notification included, whether or not the client closes.       *)
(***************************************************************************)
PostedIsHandled ==
    \A n \in 1 .. MaxSent :
        (Len(posted) >= n) ~> ((Len(handled) >= n /\ pc = "idle") \/ Aborted)

=============================================================================
