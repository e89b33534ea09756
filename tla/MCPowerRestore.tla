--------------------------- MODULE MCPowerRestore ---------------------------
(* PowerRestore for TLC.  Two cycles let a second transaction meet what the    *)
(* first left behind; MaxTrouble bounds crashes, restarts, switches and        *)
(* refused requests together.                                                  *)
EXTENDS PowerRestore
=============================================================================
