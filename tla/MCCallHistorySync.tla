------------------------- MODULE MCCallHistorySync -------------------------
(* CallHistorySync for TLC, with one erasure. *)
EXTENDS CallHistorySync
=============================================================================
