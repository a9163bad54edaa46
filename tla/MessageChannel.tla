--------------------------- MODULE MessageChannel ---------------------------
(***************************************************************************)
(* What a wire of a session promises: a first-in first-out channel of      *)
(* messages for one sender and one receiver.  The receiver may be told to  *)
(* stop; it does so only when it has received all the messages that were   *)
(* sent before it was told.                                                *)
(***************************************************************************)
EXTENDS Integers, Sequences

CONSTANT Message

VARIABLES
    accepted,   \* the messages sent
    received,   \* the messages received
    cuts,       \* how many had been sent when the receiver was told to stop
    ended       \* the receiver has stopped

vars == <<accepted, received, cuts, ended>>

Init ==
    /\ accepted = <<>>
    /\ received = <<>>
    /\ cuts = {}
    /\ ended = FALSE

(* one more message, of whatever contents *)
Send ==
    /\ accepted' \in Seq(Message)
    /\ Len(accepted') = Len(accepted) + 1
    /\ \A i \in DOMAIN accepted : accepted'[i] = accepted[i]
    /\ UNCHANGED <<received, cuts, ended>>

(* the receiver takes the first message it does not have *)
Receive ==
    /\ ~ended
    /\ Len(received) < Len(accepted)
    /\ received' = Append(received, accepted[Len(received) + 1])
    /\ UNCHANGED <<accepted, cuts, ended>>

(* the receiver is told to stop *)
Cut ==
    /\ cuts' = cuts \cup {Len(accepted)}
    /\ UNCHANGED <<accepted, received, ended>>

(* it stops, having what was sent before *)
End ==
    /\ ~ended
    /\ \E c \in cuts : c <= Len(received)
    /\ ended' = TRUE
    /\ UNCHANGED <<accepted, received, cuts>>

Next == Send \/ Receive \/ Cut \/ End

Spec == Init /\ [][Next]_vars
=============================================================================
