------------------------------- MODULE FifoLink -------------------------------
(***************************************************************************)
(* What a channel's outgoing path promises to the callers of               *)
(* Controller::send, in terms of the messages alone.  Messages are         *)
(* numbered in the order in which they are accepted, so that the state is  *)
(* two numbers.  A message may be handed over only after every earlier one *)
(* has been, or has been given up; a lossless link gives up none.          *)
(***************************************************************************)
EXTENDS Integers

CONSTANT Lossless    \* a Boolean: whether no message is ever given up

VARIABLES
    accepted,        \* the number of messages accepted
    handed           \* the last message handed to the socket, 0 before the first

vars == <<accepted, handed>>

Init == accepted = 0 /\ handed = 0

Accept ==
    /\ accepted' = accepted + 1
    /\ UNCHANGED handed

Hand ==
    /\ \E m \in handed + 1 .. accepted :
          /\ Lossless => m = handed + 1
          /\ handed' = m
    /\ UNCHANGED accepted

Next == Accept \/ Hand

Spec == Init /\ [][Next]_vars

=============================================================================
