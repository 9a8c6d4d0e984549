--------------------------- MODULE CommandPipeline ---------------------------
(***************************************************************************)
(* What the gateway promises the server about its commands: each is        *)
(* answered at most once, answers come in the order of the commands, and a *)
(* command that is given up is never answered afterwards.  Commands are    *)
(* numbered in the order of their arrival.                                 *)
(***************************************************************************)
EXTENDS Naturals, Sequences, SequencesExt

VARIABLES
  pending,   \* commands received and neither answered nor given up
  arrived,   \* how many commands came in
  answered   \* the command answered last, 0 before the first

Init == pending = <<>> /\ arrived = 0 /\ answered = 0

Receive ==
  /\ arrived' = arrived + 1
  /\ pending' = Append(pending, arrived + 1)
  /\ UNCHANGED answered

Answer ==
  /\ pending # <<>>
  /\ answered' = Head(pending) /\ pending' = Tail(pending)
  /\ UNCHANGED arrived

GiveUp ==
  /\ \E i \in DOMAIN pending : pending' = RemoveAt(pending, i)
  /\ UNCHANGED <<arrived, answered>>

(* The gateway restarts and forgets them all.                              *)
Forget == pending' = <<>> /\ UNCHANGED <<arrived, answered>>

Next == Receive \/ Answer \/ GiveUp \/ Forget

Spec == Init /\ [][Next]_<<pending, arrived, answered>>
=============================================================================
