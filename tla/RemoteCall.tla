----------------------------- MODULE RemoteCall -----------------------------
(***************************************************************************)
(* What the modem layer promises to the task that uses it: a call is       *)
(* accepted only when the verdict of the one before has been read, it gets *)
(* one verdict, and the verdict stays until it is read.  Only a modem that *)
(* breaks may spoil a verdict, and only its repair may answer a call, or   *)
(* overwrite a verdict, with a success nobody earned.                      *)
(***************************************************************************)
CONSTANT Requests

VARIABLES phase, request, verdict, up

cvars == <<phase, request, verdict, up>>

Verdicts == {"success", "failure"}

Init == phase = "idle" /\ request = "none" /\ verdict = "success" /\ up = TRUE

Call(c) ==
  /\ phase = "idle" /\ phase' = "called"
  /\ request' = c /\ UNCHANGED <<verdict, up>>

Answer(v) ==
  /\ phase = "called" /\ phase' = "answered"
  /\ verdict' = v /\ up' \in {up, TRUE} /\ UNCHANGED request

Open == phase \in {"called", "answered"}

(* The modem fails, under a call, after it or between two of them.         *)
Break ==
  /\ up' = FALSE
  /\ \/ Open /\ phase' = "answered" /\ verdict' = "failure"
     \/ ~Open /\ UNCHANGED <<phase, verdict>>
  /\ UNCHANGED request

(* It works again.  A break may also be forgotten, by an answer as well.   *)
Repair ==
  /\ ~up /\ up' = TRUE
  /\ \/ Open /\ phase' = "answered" /\ verdict' = "success"
     \/ UNCHANGED <<phase, verdict>>
  /\ UNCHANGED request

Return ==
  /\ phase = "answered" /\ phase' = "idle"
  /\ request' = "none" /\ verdict' = "success" /\ UNCHANGED up

Next ==
  \/ \E c \in Requests : Call(c)
  \/ \E v \in Verdicts : Answer(v)
  \/ Break \/ Repair \/ Return

Spec == Init /\ [][Next]_cvars
==============================================================================
