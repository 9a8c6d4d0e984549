-------------------------------- MODULE MCMqtt --------------------------------
(* Bytes of 4 bits.  Short is a usual message, the packet of Edge has Base  *)
(* bytes and one for its length, Two needs two length bytes.                *)
EXTENDS MqttClient

Msg(t, p) == [topic |-> t, payload |-> p]
Short == Msg(<<7>>, <<1>>)
Edge  == Msg(<<7>>, <<1, 1, 1>>)
Two   == Msg(<<7>>, <<1, 1, 1, 1, 1>>)

MCMessages == {Short, Edge, Two}
MCShort    == {Short, Msg(<<7>>, <<2>>)}
==============================================================================
