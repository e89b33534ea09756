------------------------------- MODULE MCLinks -------------------------------
(***************************************************************************)
(* The power cycle, the recovery policy that asks for it, the ANCS client  *)
(* and the phone's audio for TLC, one at a time: the first state chooses a *)
(* service, the behaviour is one of that service, and the others stay at   *)
(* rest or are absent.  PowerRestore is extended, BluetoothRecovery has    *)
(* variables of its own, and the last two share theirs.                    *)
(***************************************************************************)
EXTENDS PowerRestore

VARIABLES
    service,
    recoveryUp, suspended, active, probing, opPending, resumePending, snapshotPending,
    sameIdentity, outage, le, soft, healthy, record, hour, replies, op, reserved, pending,
    cleanup, paused, world, rearmed, lastHour, broken, recoveryTrouble, recoveryCycles,
    cl, air, faults, events

Recovery == INSTANCE BluetoothRecovery
    WITH up <- recoveryUp, trouble <- recoveryTrouble, cycles <- recoveryCycles,
         MaxTrouble <- 2, MaxCycles <- 2

Ancs == INSTANCE AncsClient
    WITH Uids <- {"u"}, MaxRequests <- 3, MaxPending <- 1, MaxBusy <- 1, MaxEvents <- 2,
         MaxFaults <- 1, Modes <- {"le", "legacy"}

Audio == INSTANCE PhoneAudio
    WITH au <- cl, bz <- air, wishes <- events, MaxWishes <- 1, MaxMessages <- 2, MaxFaults <- 1

recoveryVars ==
    <<recoveryUp, suspended, active, probing, opPending, resumePending, snapshotPending,
      sameIdentity, outage, le, soft, healthy, record, hour, replies, op, reserved, pending,
      cleanup, paused, world, rearmed, lastHour, broken, recoveryTrouble, recoveryCycles>>
clientVars == <<cl, air, faults, events>>
all == <<service, vars, recoveryVars, clientVars>>

Is(name) == service = name

-----------------------------------------------------------------------------
PowerAtRest == Init /\ disk = None
RecoveryAtRest == Recovery!Init /\ ~pending /\ ~record.verified /\ ~record.spent
ClientAbsent == cl = None /\ air = None /\ faults = None /\ events = None

LinksInit ==
    \/ Is("power") /\ Init /\ RecoveryAtRest /\ ClientAbsent
    \/ Is("recovery") /\ Recovery!Init /\ PowerAtRest /\ ClientAbsent
    \/ Is("ancs") /\ Ancs!Init /\ PowerAtRest /\ RecoveryAtRest
    \/ Is("audio") /\ Audio!Init /\ PowerAtRest /\ RecoveryAtRest

LinksNext ==
    \/ Is("power") /\ Next /\ UNCHANGED <<service, recoveryVars, clientVars>>
    \/ Is("recovery") /\ Recovery!Next /\ UNCHANGED <<service, vars, clientVars>>
    \/ Is("ancs") /\ Ancs!Next /\ UNCHANGED <<service, vars, recoveryVars>>
    \/ Is("audio") /\ Audio!Next /\ UNCHANGED <<service, vars, recoveryVars>>

\* The fairness of the service that runs, as its module states it.
Turn(k) ==
    \/ Is("power") /\ FairStep(k) /\ UNCHANGED <<service, recoveryVars, clientVars>>
    \/ Is("recovery") /\ Recovery!FairStep(k) /\ UNCHANGED <<service, vars, clientVars>>
    \/ Is("ancs") /\ Ancs!FairStep(k) /\ UNCHANGED <<service, vars, recoveryVars>>
    \/ Is("audio") /\ Audio!FairStep(k) /\ UNCHANGED <<service, vars, recoveryVars>>

LinksSpec == LinksInit /\ [][LinksNext]_all /\ \A k \in 1 .. 19 : WF_all(Turn(k))

-----------------------------------------------------------------------------
(* The properties are those of the modules, which say in words what they mean; each is
   about the behaviours of its own service. *)

\* BluetoothRecovery: profiles and worker are held exactly while recovery is active, a power
\* cycle is begun only on unbroken evidence and within budget, and recovery, its probe and
\* its snapshot end.
RecoveryEarned ==
    /\ []Recovery!PausedExactly
    /\ [][Recovery!CycleStep]_all
    /\ Recovery!NothingHangs
\* AncsClient: nothing the phone removed is shown, every accepted action is answered once,
\* and notifications return for good.
AncsFollows ==
    /\ [](Is("ancs") => Ancs!PopupOfLive /\ Ancs!ActionsAnswered)
    /\ <>[](Is("ancs") /\ Ancs!Allowed) =>
           <>[](Is("ancs") /\ Ancs!Receiving) \/ <>[](Is("ancs") /\ Ancs!NeverAuthorized)
\* PhoneAudio: the route shown is BlueZ's, requests are answered, and a saved choice applied.
RouteSettles ==
    /\ [](Is("audio") => Audio!RouteHonest)
    /\ []<>(Is("audio") => cl.p.request = None)
    /\ <>[](Is("audio") /\ Audio!Applicable) => <>[](Is("audio") /\ cl.p.attempted)
=============================================================================
