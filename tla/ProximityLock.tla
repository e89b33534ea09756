--------------------------- MODULE ProximityLock ---------------------------
(***************************************************************************)
(* The proximity lock: ProximityLock and DesktopLocker of                  *)
(* src/src/blueferry/proximity_lock.py, and the daemon's calls of them.    *)
(*                                                                         *)
(* A method is an operator on the record s.  The bearer supervisor polls   *)
(* the phone and reports transitions; its last reading is "seen".  Times   *)
(* are timers: the grace timer and the settle timer, which is longer than  *)
(* a poll of the bearers.                                                  *)
(***************************************************************************)
EXTENDS Naturals, FiniteSets

CONSTANTS
    MaxEvents,      \* bound of the inhibitors, switches, restarts and readings lost
    None

VARIABLES
    px,             \* the lock and the locker
    near,           \* the phone is in reach, as bluetoothd has it
    seen,           \* the bearers' reading: TRUE, FALSE or None
    proof,          \* what was seen since presence last had to be proved anew
    pxEvents

proximityVars == <<px, near, seen, proof, pxEvents>>

\* adapter-off stands for discovering too, which the same reading of the adapter starts and ends.
Reasons == {"sleep", "adapter-off", "recovery", "local-disconnect"}

\* st     _state                     inh      _inhibitors
\* timer  the grace timer is armed   settle   the settle timer is armed
\* absent _absent_since is not None  busy     _dispatching
\* locking  the step the locker is at, None if it has no request       live  not stopped
\* cur    the generation of the request is still the current one
InitLock ==
    [on |-> TRUE, st |-> "idle", inh |-> {}, timer |-> FALSE, settle |-> FALSE,
     absent |-> FALSE, busy |-> FALSE, locking |-> None, cur |-> TRUE, result |-> "", live |-> TRUE]

\* met: the phone was read as present since presence had to be proved; away: it has been
\* read as absent, and never as present, since; polled: the bearers were read since.
NoProof == [met |-> FALSE, away |-> FALSE, polled |-> FALSE]

Init ==
    /\ px = InitLock
    /\ near \in BOOLEAN /\ seen = None /\ proof = NoProof /\ pxEvents = 0

-----------------------------------------------------------------------------
ForgetPresence(s) == [s EXCEPT !.timer = FALSE, !.settle = FALSE, !.absent = FALSE]

ScheduleSettle(s) == [s EXCEPT !.settle = TRUE]

ArmTimer(s) == [s EXCEPT !.timer = s.absent]

Observe(s, present) ==
    CASE present = TRUE ->
             [s EXCEPT !.timer = FALSE, !.settle = FALSE, !.absent = FALSE, !.st = "armed"]
      [] present = FALSE /\ s.st = "armed" ->
             ArmTimer([s EXCEPT !.absent = TRUE, !.st = "grace"])
      [] OTHER -> s

BearerChanged(s, present) ==
    LET met == IF present = TRUE THEN [s EXCEPT !.inh = @ \ {"local-disconnect"}] ELSE s
    IN IF met.on /\ met.inh = {} THEN Observe(met, present) ELSE met

Idle(s) == IF s.on THEN [s EXCEPT !.st = "idle"] ELSE s

\* Mutant: the end of an inhibitor waits for the next transition.
UninhibitSilently(s, reason, present) == [s EXCEPT !.inh = @ \ {reason}]

Uninhibit(s, reason, present) ==
    LET ended == [s EXCEPT !.inh = @ \ {reason}]
    IN IF reason \in s.inh /\ s.on /\ ended.inh = {} THEN ScheduleSettle(ended) ELSE ended

Inhibit(s, reason) ==
    IF reason \in s.inh THEN s
    ELSE Idle(ForgetPresence([s EXCEPT !.inh = @ \union {reason}]))

Reset(s) == Idle(ForgetPresence(s))

Configure(s, on) ==
    CASE ~on -> [ForgetPresence(s) EXCEPT !.on = FALSE, !.st = "disabled"]
      [] on /\ ~s.on -> ScheduleSettle([s EXCEPT !.on = TRUE, !.st = "idle"])
      [] OTHER -> IF s.st = "grace" THEN ArmTimer(s) ELSE s

Settled(s, present) ==
    LET over == [s EXCEPT !.settle = FALSE]
    IN IF s.on /\ s.inh = {} /\ s.st = "idle" /\ present = TRUE THEN Observe(over, TRUE)
       ELSE over

\* A request under way is not followed by a second one.
Dispatch(s) ==
    LET locked == [s EXCEPT !.absent = FALSE, !.st = "locked"]
    IN IF s.busy THEN locked
       ELSE [locked EXCEPT !.busy = TRUE, !.locking = "screensaver", !.cur = TRUE]

GraceElapsed(s, present) ==
    LET over == [s EXCEPT !.timer = FALSE]
    IN CASE ~s.on \/ s.inh # {} \/ s.st # "grace" \/ ~s.absent -> over
         [] present = TRUE -> Observe(over, TRUE)
         [] present = None -> [over EXCEPT !.absent = FALSE, !.st = "idle"]
         [] OTHER -> Dispatch(over)

Stopped(s) ==
    [ForgetPresence(s) EXCEPT !.live = FALSE, !.inh = @ \union {"stopped"}, !.cur = FALSE]

\* The locker: the screen saver, then logind by PID, by the environment, and "auto".
Fallback(step) ==
    CASE step = "screensaver" -> "pid"
      [] step = "pid" -> "env"
      [] step = "env" -> "auto"
      [] step = "auto" -> None

Done(s, result) ==
    [s EXCEPT !.locking = None, !.busy = FALSE, !.result = IF s.cur THEN result ELSE @]

-----------------------------------------------------------------------------
(* The events. *)

Event == pxEvents < MaxEvents /\ pxEvents' = pxEvents + 1

Moves == Event /\ near' = ~near /\ UNCHANGED <<px, seen, proof>>

\* A poll of the bearers, which do not run during a recovery; a transition is reported.
Poll ==
    /\ px.live /\ "recovery" \notin px.inh /\ "sleep" \notin px.inh
    /\ seen' = near
    /\ px' = IF seen # near THEN BearerChanged(px, near) ELSE px
    /\ proof' = IF px'.on /\ px'.inh = {}
                THEN [met |-> proof.met \/ near, away |-> ~near, polled |-> TRUE]
                ELSE NoProof
    /\ UNCHANGED <<near, pxEvents>>

\* The reading fails: the bearers report a transition to unknown.
PollFails ==
    /\ Event /\ px.live /\ seen # None
    /\ seen' = None /\ px' = BearerChanged(px, None)
    /\ UNCHANGED <<near, proof>>

InhibitorBegins ==
    /\ Event /\ px.live
    /\ \E reason \in Reasons : px' = Inhibit(px, reason)
    /\ proof' = NoProof
    /\ UNCHANGED <<near, seen>>

\* A local disconnect ends with the next connection only.
InhibitorEnds ==
    /\ px.live
    /\ \E reason \in px.inh \ {"local-disconnect"} : px' = Uninhibit(px, reason, seen)
    /\ proof' = NoProof
    /\ UNCHANGED <<near, seen, pxEvents>>

\* bluetoothd was replaced: the bearers' readings are forgotten too.
BluezRestarts ==
    /\ Event /\ px.live
    /\ px' = Reset([px EXCEPT !.inh = @ \ {"adapter-off"}])
    /\ seen' = None /\ proof' = NoProof
    /\ UNCHANGED near

SetProximityLock ==
    /\ Event /\ px.live
    /\ \E on \in BOOLEAN :
           /\ px' = Configure(px, on)
           /\ proof' = IF on = px.on THEN proof ELSE NoProof
    /\ UNCHANGED <<near, seen>>

\* Longer than a poll: the bearers were read since the timer was armed.
SettleTimer ==
    /\ px.settle /\ (proof.polled \/ px.inh # {})
    /\ px' = Settled(px, seen)
    /\ UNCHANGED <<near, seen, proof, pxEvents>>

GraceTimer ==
    /\ px.timer
    /\ px' = GraceElapsed(px, seen)
    /\ proof' = IF px'.st = "idle" THEN NoProof ELSE proof
    /\ UNCHANGED <<near, seen, pxEvents>>

\* A step of the locker fails, succeeds, or (the screen saver) does not reply in time.
LockerAnswers ==
    /\ px.locking # None
    /\ \/ px' = Done(px, px.locking)
       \/ px.locking = "screensaver" /\ px' = Done(px, "requested")
       \/ Fallback(px.locking) # None /\ px' = [px EXCEPT !.locking = Fallback(@)]
       \/ Fallback(px.locking) = None /\ px' = Done(px, "failed")
    /\ UNCHANGED <<near, seen, proof, pxEvents>>

Stop ==
    /\ px.live
    /\ px' = Stopped(px) /\ proof' = NoProof
    /\ UNCHANGED <<near, seen, pxEvents>>

Next ==
    \/ Moves \/ Poll \/ PollFails \/ InhibitorBegins \/ InhibitorEnds \/ BluezRestarts
    \/ SetProximityLock \/ SettleTimer \/ GraceTimer \/ LockerAnswers \/ Stop

FairStep(k) ==
    CASE k = 1 -> Poll [] k = 2 -> InhibitorEnds [] k = 3 -> SettleTimer
      [] k = 4 -> GraceTimer [] k = 5 -> LockerAnswers [] OTHER -> FALSE

Fairness == \A k \in 1 .. 5 : WF_proximityVars(FairStep(k))

SafetySpec == Init /\ [][Next]_proximityVars

Spec == SafetySpec /\ Fairness

-----------------------------------------------------------------------------
\* The desktop is locked only for a phone that left: it was seen after the lock was enabled,
\* after the last inhibitor ended and after bluetoothd was last replaced, and the last
\* reading since says it is away (the rules of class ProximityLock).  The locker is then at
\* work: for this absence, or still for an earlier one (_dispatch(), _dispatching).  An
\* action property.
LockStep ==
    px'.st = "locked" /\ px.st # "locked" =>
        proof.met /\ proof.away /\ seen = FALSE /\ px'.locking # None

Present == px.live /\ px.on /\ px.inh = {} /\ seen = TRUE
Gone == px.live /\ px.st \in {"armed", "grace"} /\ seen = FALSE

(* The lock follows the phone: one that stays connected arms it, also when it was connected
   all along while the lock was off, inhibited or reset (_schedule_settle, _settled); and
   once armed, a phone that stays away has the desktop locked, unless presence has to be
   proved anew (_observe, _arm_timer, _grace_elapsed).  A request of the locker ends, also
   one that was overtaken, and the next absence can make its own (done()). *)
LockFollows == []<>(~Present \/ px.st = "armed") /\ []<>~Gone /\ []<>~px.busy

=============================================================================
