---------------------------- MODULE MCEventOutbox ----------------------------
(* EventOutbox with two relays.                                                  *)
EXTENDS EventOutbox

CONSTANTS r1, r2

MCRelays == {r1, r2}
==============================================================================
