--------------------------- MODULE MCContactStore ---------------------------
(* ContactStore for TLC: a change of policy, and a crash. *)
EXTENDS ContactStore

=============================================================================
