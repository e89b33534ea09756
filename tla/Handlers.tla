------------------------------ MODULE Handlers ------------------------------
(***************************************************************************)
(* A handler on the main loop calls methods one after another.  A method   *)
(* is an operator from one state of its object to the next, and Then       *)
(* sequences them.                                                         *)
(***************************************************************************)

\* Step applied to the state s, which is computed once.
Then(s, Step(_)) == CHOOSE next \in {Step(state) : state \in {s}} : TRUE

=============================================================================
