------------------------------ MODULE MCGateway ------------------------------
(* Instances of Gateway for TLC. *)
EXTENDS Gateway

File(n, p, v) == [nSlaves |-> n, polls |-> p, valid |-> v]
P1 == [fid |-> 1, reg |-> 10]
P2 == [fid |-> 2, reg |-> 20]

(* One feed for one slave; other feeds for the same slaves, with a bad     *)
(* line and one poll more than the table holds.                            *)
MCInis   == {File(1, <<P1>>, TRUE), File(0, <<P2, P1, P1>>, FALSE)}
MCOneIni == {File(1, <<P1>>, TRUE)}
=============================================================================
