----------------------------- MODULE MCFreeRtos -----------------------------
(* Two tasks and an interrupt around a queue: one task waits for ever, the  *)
(* other for two ticks or not at all, and the first suspends the second.    *)
(* The queue of GSM calls (Main.c:107) holds three items: two are enough    *)
(* for an order and for positions that wrap.  The event queue holds one.    *)
EXTENDS FreeRtosQueue

CONSTANTS gsm, fly, event, x, y

Equal == [t \in Task |-> 1]
One == [q \in Queue |-> 1]
Two == [q \in Queue |-> 2]
Ask(op, wait) == [op |-> op, q |-> event, item |-> x, wait |-> wait]
Asks == (gsm :> {Ask("receive", portMAX_DELAY), Ask("send", portMAX_DELAY)})
          @@ (fly :> {Ask("receive", 2), Ask("receive", 0), Ask("send", 0)})
Pauses == (gsm :> {0, 1}) @@ (fly :> {})
Suspending == {<<gsm, fly>>}
==============================================================================
