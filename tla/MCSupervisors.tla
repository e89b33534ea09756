---------------------------- MODULE MCSupervisors ----------------------------
(***************************************************************************)
(* The bearer supervisor, and the liveness of the profile supervisor, for  *)
(* TLC, one at a time: the first state chooses which of them runs.  Each   *)
(* meets the other only through inputs that its module lets vary freely.   *)
(* BearerSupervisor is extended, and rests while the other one runs.       *)
(***************************************************************************)
EXTENDS BearerSupervisor

CONSTANT Cleanup

VARIABLES
    service,
    queue, running, done, futures, reserved, phase, toCancel,
    session, smClosing, removed, exited, owner, op, live, nextPath, incarnation, signals,
    retry, opening, closing, ready, stopping, paused, generation, consumers, attempted,
    status, failing, leHeld, listener, recovery, openFailed, disturbed

Trouble == [signals |-> 1, legacy |-> 1, polled |-> 0]

Profiles == INSTANCE ProfileSupervisor
    WITH trouble <- disturbed, MaxTrouble <- 1, MaxPending <- 2

profileVars ==
    <<queue, running, done, futures, reserved, phase, toCancel,
      session, smClosing, removed, exited, owner, op, live, nextPath, incarnation, signals,
      retry, opening, closing, ready, stopping, paused, generation, consumers, attempted,
      status, failing, leHeld, listener, recovery, openFailed, disturbed>>
all == <<service, vars, profileVars>>

Is(name) == service = name

SupervisorsInit ==
    /\ Profiles!Init
    /\ \/ Is("bearers") /\ Init
       \/ Is("profiles") /\ Init /\ build = "signals"

SupervisorsNext ==
    \/ Is("bearers") /\ Next /\ UNCHANGED <<service, profileVars>>
    \/ Is("profiles") /\ Profiles!Next /\ UNCHANGED <<service, vars>>

\* The fairness of the one that runs, as its module states it.
Turn(n) ==
    \/ Is("bearers") /\ FairStep(n) /\ UNCHANGED <<service, profileVars>>
    \/ Is("profiles") /\ Profiles!FairStep(n) /\ UNCHANGED <<service, vars>>

InProfiles(A) == Is("profiles") /\ A /\ UNCHANGED <<service, vars>>

SupervisorsSpec ==
    /\ SupervisorsInit /\ [][SupervisorsNext]_all
    /\ \A n \in 1 .. 20 : WF_all(Turn(n))
    /\ SF_all(InProfiles(Profiles!RadioReturns)) /\ SF_all(InProfiles(Profiles!PhoneAccepts))

-----------------------------------------------------------------------------
(* The properties are those of the modules, which say in words what they mean; each is
   about the behaviours of its own supervisor. *)

\* ProfileSupervisor: the pair comes up, and outbound LE is released.
Recovers == []<>(Is("profiles") => (ready /\ ~leHeld) \/ stopping)
\* BearerSupervisor: Classic comes back to a phone in reach, LE always has a way back, and
\* every reset ends.
BearersReturn ==
    /\ <>[](Is("bearers") /\ near) => <>[](Is("bearers") /\ sv.st["bredr"] = "up")
    /\ []<>(Is("bearers") => link["le"] \/ Connecting(sv, "le") \/ sv.adv.advert = "on")
    /\ []<>(Is("bearers") => ~sv.pending /\ sv.phase = None /\ sv.wanted = None)
=============================================================================
