-------------------------------- MODULE MCGsm --------------------------------
(* The modem layer as the gateway uses it, and the whole of its services.   *)
EXTENDS GsmCommand

Gateway == {"cAPNConfig", "cTCPClientOpen", "cTCPClientClose", "cTCPRead",
            "cTCPWrite", "cTCPRxFlush"}
All == Callbacks \cup Modes
Few == {KTCP_NOTIF, CME_ERROR, Malformed}
==============================================================================
