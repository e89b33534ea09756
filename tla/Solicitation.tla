---------------------------- MODULE Solicitation ----------------------------
(***************************************************************************)
(* The ANCS solicitation: class SolicitationSupervisor of                  *)
(* src/src/blueferry/solicitation_supervisor.py, and the registration of   *)
(* the advertisement it drives (_AncsAdvert, register_advert and           *)
(* unregister_advert of src/src/blueferry/bluez_setup.py).                 *)
(*                                                                         *)
(* Its handlers run inside the bearer supervisor's, so they are operators  *)
(* from one state of the solicitation to the next; BearerSupervisor makes  *)
(* them actions.  A state a has                                            *)
(*   running, needed, dialing   the fields of the class                    *)
(*   hold     _hold_until lies ahead: the advertisement must stay on air;  *)
(*            a registration that completes begins it (_reconcile notices  *)
(*            it, through _was_registered, well within the hold)           *)
(*   advert   the advertisement: "off", "pending" (registration sent) or   *)
(*            "on" (BlueZ accepted it)                                     *)
(***************************************************************************)

InitSolicitation ==
    [running |-> FALSE, needed |-> TRUE, dialing |-> FALSE, hold |-> FALSE,
     advert |-> "off"]

BeginHold(a) == [a EXCEPT !.hold = TRUE]

\* retire() and forgetting the instance: nothing is registered any more.
Withdraw(a) == [a EXCEPT !.advert = "off"]

\* _reconcile.  register_advert only sends the request, so a fresh registration is
\* pending when it returns.
Reconcile(a) ==
    LET registered == a.advert = "on"
    IN  IF a.dialing /\ ~a.hold THEN Withdraw(a)
        ELSE IF a.needed /\ ~registered THEN [a EXCEPT !.advert = "pending"]
        ELSE IF ~a.needed /\ registered /\ ~a.hold THEN Withdraw(a)
        ELSE a

StartSolicitation(a) ==
    IF a.running THEN a
    ELSE LET started == [a EXCEPT !.running = TRUE]
         IN  Reconcile(IF a.needed THEN BeginHold(started) ELSE started)

SetNeeded(a, needed) ==
    LET changed == needed # a.needed
        set == [(IF needed /\ changed THEN BeginHold(a) ELSE a) EXCEPT !.needed = needed]
    IN  IF a.running /\ (changed \/ needed # (a.advert = "on")) THEN Reconcile(set) ELSE set

\* Mutant: the end of a dial does not put the advertisement back on air.
SetDialingForgetful(a, dialing) ==
    IF dialing # a.dialing /\ a.running /\ dialing
    THEN Reconcile([a EXCEPT !.dialing = dialing])
    ELSE a

SetDialing(a, dialing) ==
    LET set == [a EXCEPT !.dialing = dialing]
    IN  IF a.running /\ dialing # a.dialing THEN Reconcile(set) ELSE set

\* reset_after_bluez_restart: the old owner's registration is only forgotten.
ResetSolicitation(a) ==
    LET forgotten == [BeginHold(a) EXCEPT !.needed = TRUE, !.advert = "off"]
    IN  IF a.running THEN Reconcile(forgotten) ELSE forgotten

StopSolicitation(a) == [a EXCEPT !.running = FALSE, !.advert = "off"]

\* _AncsAdvert._registered, _failed and Release.
AdvertRegistered(a) == [BeginHold(a) EXCEPT !.advert = "on"]
AdvertGone(a) == [a EXCEPT !.advert = "off"]

=============================================================================
