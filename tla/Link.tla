-------------------------------- MODULE Link --------------------------------
(***************************************************************************)
(* What a network interface promises to the protocols above it: frames can *)
(* get lost, and those that arrive are whole, arrive once and in the order *)
(* in which the peer sent them.  NetPath implements it.                    *)
(***************************************************************************)
EXTENDS Naturals, Sequences

VARIABLES
  sent,       \* number of frames the peer has sent, each with its number
  queue,      \* the ones that are under way
  received    \* the ones that were handed up

Init == sent = 0 /\ queue = <<>> /\ received = <<>>

(* A new frame joins the queue or is lost at once. *)
Send ==
  /\ sent' = sent + 1
  /\ queue' \in {queue, Append(queue, sent')}
  /\ UNCHANGED received

Deliver ==
  /\ queue # <<>>
  /\ received' = Append(received, Head(queue))
  /\ queue' = Tail(queue)
  /\ UNCHANGED sent

Lose ==
  /\ queue # <<>>
  /\ queue' = Tail(queue)
  /\ UNCHANGED <<sent, received>>

Next == Send \/ Deliver \/ Lose

Spec == Init /\ [][Next]_<<sent, queue, received>>

=============================================================================
