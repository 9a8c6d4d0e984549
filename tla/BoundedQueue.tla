---------------------------- MODULE BoundedQueue ----------------------------
(***************************************************************************)
(* What the kernel promises of its queues, whoever uses them and whenever: *)
(* a bounded first-in first-out list of items.  An item is put once, never *)
(* beyond the length of the queue, and a reader gets the oldest one.       *)
(***************************************************************************)
EXTENDS Sequences, Naturals

CONSTANTS Queues, Items, Length

VARIABLE contents

Init == contents = [q \in Queues |-> <<>>]

Put(q, item) ==
  /\ Len(contents[q]) < Length[q]
  /\ contents' = [contents EXCEPT ![q] = Append(@, item)]

Get(q) ==
  /\ contents[q] # <<>>
  /\ contents' = [contents EXCEPT ![q] = Tail(@)]

Next == \E q \in Queues : Get(q) \/ \E item \in Items : Put(q, item)

Spec == Init /\ [][Next]_contents
==============================================================================
