-------------------------- MODULE MCCallController --------------------------
(* CallController for TLC, with one call. *)
EXTENDS CallController
=============================================================================
