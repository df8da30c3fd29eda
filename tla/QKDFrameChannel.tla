-------------------------- MODULE QKDFrameChannel --------------------------
(***************************************************************************)
(* What the TCP overlay between two QKD net devices promises to the layer  *)
(* above: the protected packets (frames) handed to one end come out of the *)
(* other end whole, once, and in the order they were sent.                 *)
(***************************************************************************)
EXTENDS Naturals, Sequences

CONSTANT Frames   \* what a frame may be

VARIABLES sent, received

vars == <<sent, received>>

Init == sent = << >> /\ received = << >>

(* Any frame may be sent next. *)
Send ==
    /\ Len(sent') = Len(sent) + 1
    /\ sent'[Len(sent')] \in Frames
    /\ sent' = Append(sent, sent'[Len(sent')])
    /\ UNCHANGED received

(* The next frame comes out as it went in. *)
Deliver ==
    /\ Len(received) < Len(sent)
    /\ received' = Append(received, sent[Len(received) + 1])
    /\ UNCHANGED sent

Next == Send \/ Deliver

Spec == Init /\ [][Next]_vars
=============================================================================
