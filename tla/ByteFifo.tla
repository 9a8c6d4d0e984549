------------------------------ MODULE ByteFifo ------------------------------
(***************************************************************************)
(* What a serial receive buffer promises: the bytes come out once each and *)
(* in the order they came in, until somebody throws away all that is left. *)
(* Bytes are numbered in the order of their arrival.                       *)
(***************************************************************************)
EXTENDS Naturals, Sequences

VARIABLES
  unread,   \* the bytes stored and not yet read
  arrived,  \* how many bytes came in
  out       \* the byte read last, 0 before the first

Init == unread = <<>> /\ arrived = 0 /\ out = 0

Put ==
  /\ arrived' = arrived + 1
  /\ unread' = Append(unread, arrived + 1)
  /\ UNCHANGED out

Get ==
  /\ unread # <<>>
  /\ out' = Head(unread) /\ unread' = Tail(unread)
  /\ UNCHANGED arrived

Clear == unread' = <<>> /\ UNCHANGED <<arrived, out>>

Next == Put \/ Get \/ Clear

Spec == Init /\ [][Next]_<<unread, arrived, out>>
=============================================================================
