---------------------------- MODULE FrameReader -----------------------------
(***************************************************************************)
(* What the loop around read_message promises, with no stream, no header   *)
(* lines and no threads: frames are taken off the input one at a time and  *)
(* in order, the content of each is handed on once, and frames that cannot *)
(* be used are passed over.  Nothing is promised about what follows a      *)
(* frame whose length is not that of its content, or an interrupted read.  *)
(***************************************************************************)
EXTENDS Integers, Sequences

CONSTANT Contents  \* what the content of a frame can be

\* The content of a frame is a sequence of one content, or of none.
Frame ==
    { f \in [kind : {"content", "skipped", "misframed"}, content : Seq(Contents)] :
        Len(f.content) = IF f.kind = "content" THEN 1 ELSE 0 }

VARIABLES
    left,         \* the frames that are still in the input
    delivered,    \* the contents handed on
    framed,       \* the reader knows where the next frame begins
    interrupted,  \* a read was interrupted and something was lost
    ended         \* the reader has given up

frameVars == <<left, delivered, framed, interrupted, ended>>

FrameInit ==
    /\ left \in Seq(Frame)
    /\ delivered = <<>>
    /\ framed = TRUE /\ interrupted = FALSE /\ ended = FALSE

\* The client writes one more frame.
Arrive ==
    /\ left' \in Seq(Frame) /\ Len(left') = Len(left) + 1
    /\ left = SubSeq(left', 1, Len(left))
    /\ UNCHANGED <<delivered, framed, interrupted, ended>>

Take ==
    /\ framed /\ left # <<>> /\ Head(left).kind # "misframed"
    /\ delivered' = delivered \o Head(left).content
    /\ left' = Tail(left)
    /\ UNCHANGED <<framed, interrupted, ended>>

\* A length that is wrong.
Lose ==
    /\ framed /\ left # <<>> /\ Head(left).kind = "misframed"
    /\ framed' = FALSE /\ left' = <<>>
    /\ UNCHANGED <<delivered, interrupted, ended>>

Interrupt ==
    /\ interrupted' = TRUE /\ framed' = FALSE /\ left' = <<>>
    /\ UNCHANGED <<delivered, ended>>

\* Without framing anything may be taken for a content.
Guess ==
    /\ ~framed
    /\ delivered = SubSeq(delivered', 1, Len(delivered))
    /\ ended => ended'
    /\ interrupted => interrupted'
    /\ UNCHANGED <<left, framed>>

End ==
    /\ framed /\ left = <<>>
    /\ ended' = TRUE
    /\ UNCHANGED <<left, delivered, framed, interrupted>>

FrameNext ==
    \/ Arrive
    \/ Take \/ Lose \/ Interrupt \/ Guess \/ End

FrameSpec == FrameInit /\ [][FrameNext]_frameVars

=============================================================================
