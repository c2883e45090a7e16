-------------------------- MODULE MCMessageReader ---------------------------
(***************************************************************************)
(* Frames with the header lines and contents that the reader tells apart:  *)
(* lengths that fit, are 0, are missing, are repeated, are too big for the *)
(* server, for a streamsize and for an unsigned long long, or are wrong.   *)
(***************************************************************************)
EXTENDS MessageReader

CrLf == <<CR, NL>>
Lf == <<NL>>

FrameOf(header, eol, body) == [header |-> header, eol |-> eol, body |-> body]

L(n) == ContentLength(n)
T == OtherText

MCFrames ==
    { FrameOf(<<L(1)>>, eol, <<Byte>>) : eol \in {CrLf, Lf} }
    \cup { FrameOf(header, CrLf, <<Byte, NL>>) :
             header \in { <<L(2)>>, <<T, L(2)>>, <<L(2), T>>, <<L(1), L(2)>>, <<L(1)>>, <<T>> } }
    \cup { FrameOf(header, CrLf, <<>>) : header \in { <<>>, <<L(0)>>, <<L(4)>>, <<L(5)>> } }
    \cup { FrameOf(<<L(3)>>, CrLf, body) : body \in { <<Byte>>, <<Byte, NL, Byte>> } }
    \cup { FrameOf(<<>>, Lf, <<Byte>>), FrameOf(<<>>, CrLf, <<L(1), NL>>), FrameOf(<<>>, Lf, <<NL>>) }
=============================================================================
