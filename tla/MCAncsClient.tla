---------------------------- MODULE MCAncsClient ----------------------------
(* AncsClient for TLC, with one notification whose UID the phone uses again. *)
EXTENDS AncsClient
=============================================================================
