------------------------------- MODULE Tether -------------------------------
(***************************************************************************)
(* Internet tethering: TetherController and NetworkLinkWatch of            *)
(* src/src/blueferry/tether.py, the two backends of tether_backends.py,    *)
(* and the daemon's calls of them.                                         *)
(*                                                                         *)
(* A method is an operator on the record s of the controller, its backend  *)
(* and its messages.  A D-Bus call of an earlier generation (of the        *)
(* controller, of the backend or of the link watch) has "cur" FALSE.  The  *)
(* bus delivers replies and signals to the daemon in the order it got      *)
(* them: they wait in one queue.  The lookup of a NetworkManager profile   *)
(* is one call, as is the lookup of an active connection.                  *)
(***************************************************************************)
EXTENDS Naturals, Sequences, FiniteSets, SequencesExt, TLC, Handlers

CONSTANTS
    Modes,          \* the backends to run: "bluez", "nm"
    MaxWishes,      \* bound of the user's requests
    MaxFaults,      \* bound of losses, silences, restarts and refusals
    None

VARIABLES
    te,             \* the controller, the link watch and the backend
    pan,            \* BlueZ's Network1 and NetworkManager's activation
    wishes, faults

tetherVars == <<te, pan, wishes, faults>>

Fault == faults < MaxFaults /\ faults' = faults + 1 /\ UNCHANGED wishes
NoFault == UNCHANGED <<faults, wishes>>

\* on, auto    _enabled, _autoconnect       st      _state
\* err         _error is not empty          ext     _external
\* supp        _auto_suppressed (saved)     first   _initial_probe_pending
\* await       _awaiting_link_down          grace   _link_down_grace_spent
\* ever        _connected_at is not None    t       the timers that are armed
\* have        _backend is not None         path    its _active_path is known
\* match       its state match exists       est     the "established" of connect
\* calls, inb  the calls under way, and the replies and signals not yet delivered
Fresh(on, auto, supp) ==
    [on |-> on, auto |-> auto, st |-> "off", err |-> FALSE, ext |-> FALSE, supp |-> supp,
     first |-> TRUE, watch |-> FALSE, await |-> FALSE, grace |-> FALSE, ever |-> FALSE,
     t |-> {}, have |-> FALSE, path |-> FALSE, match |-> FALSE, est |-> FALSE]

Call(k, for) == [k |-> k, for |-> for, cur |-> TRUE, dead |-> FALSE]
Send(s, k, for) == [s EXCEPT !.calls = Append(@, Call(k, for))]
Cancel(s, timers) == [s EXCEPT !.t = @ \ timers]
Arm(s, timer) == [s EXCEPT !.t = @ \union {timer}]

\* A new generation of the controller and of its backend, or of the link watch: the reads
\* under way are forgotten, the calls that change something go on.
Reads == {"probe", "choose", "lookup", "state", "interface", "find"}

Outdated(c, probes) == (c.k = "probe") = probes

Bump(s, probes) ==
    LET gone(c) == Outdated(c, probes) /\ c.k \in Reads
        old(c) == [c EXCEPT !.cur = @ /\ ~Outdated(c, probes)]
        calls == SelectSeq(s.calls, LAMBDA c : ~gone(c))
        inb == SelectSeq(s.inb, LAMBDA m : m.k # "reply" \/ ~gone(m.of))
    IN [s EXCEPT !.calls = [i \in DOMAIN calls |-> old(calls[i])],
                 !.inb = [i \in DOMAIN inb |-> IF inb[i].k # "reply" THEN inb[i]
                                              ELSE [inb[i] EXCEPT !.of = old(@)]]]

NextGeneration(s) == Bump(s, FALSE)

-----------------------------------------------------------------------------
(* NetworkLinkWatch. *)

Probe(s) == Send(Bump(Cancel(s, {"reprobe"}), TRUE), "probe", None)

StartWatch(s) ==
    IF s.watch THEN s ELSE Probe([s EXCEPT !.watch = TRUE, !.first = TRUE])

StopWatch(s) ==
    IF ~s.watch THEN [s EXCEPT !.first = TRUE]
    ELSE Bump(Cancel([s EXCEPT !.watch = FALSE, !.first = TRUE], {"reprobe"}), TRUE)

ProbeIfWatching(s) == IF s.watch THEN Probe(s) ELSE s

-----------------------------------------------------------------------------
(* TetherController: the helpers. *)

Set(s, st, err) ==
    [s EXCEPT !.st = st, !.err = err, !.ever = @ /\ st \in {"connected", "disconnecting"}]

ScheduleAutoRetry(s) ==
    IF s.on /\ s.auto /\ ~s.supp THEN Arm(s, "retry") ELSE s

DropStateMatch(s) ==
    [s EXCEPT !.match = FALSE, !.inb = SelectSeq(@, LAMBDA m : m.k # "nm")]

\* backend.cancel()
CancelBackend(s) == DropStateMatch(NextGeneration(s))

\* backend.disconnect(); only a stop the controller waits for is answered.
BackendStop(s, mode, for) ==
    LET quiet == CancelBackend(s)
    IN IF mode = "bluez" THEN Send(quiet, "disconnect", for)
       ELSE Send([quiet EXCEPT !.path = FALSE], IF s.path THEN "deactivate" ELSE "find", for)

BackendConnect(s, mode) ==
    LET quiet == CancelBackend([s EXCEPT !.est = FALSE])
    IN Send(quiet, IF mode = "bluez" THEN "connect" ELSE "lookup", "attempt")

Failed(s) ==
    ScheduleAutoRetry(Set(CancelBackend(Cancel(s, {"deadline"})), "failed", TRUE))

FinishDisconnect(s) ==
    Set(Cancel([s EXCEPT !.await = FALSE, !.ext = FALSE], {"confirm"}), "off", FALSE)

-----------------------------------------------------------------------------
(* The commands. *)

\* connect() past its guards: the attempt, and the choice of a backend.
Attempt(s) ==
    Send(Arm(Set([NextGeneration(s) EXCEPT !.ext = FALSE], "connecting", FALSE), "deadline"),
         "choose", "attempt")

Connect(s, ready) ==
    LET asked == Cancel([s EXCEPT !.supp = FALSE], {"retry"})
    IN IF s.st \in {"off", "failed"} /\ ready THEN Attempt(asked) ELSE asked

MaybeAutoconnect(s, ready) ==
    IF /\ s.on /\ s.auto /\ ~s.supp /\ ~s.first
       /\ s.st \in {"off", "failed"} /\ "retry" \notin s.t /\ ready
    THEN Attempt(s) ELSE s

Disconnect(s, mode) ==
    LET asked == Cancel([s EXCEPT !.supp = TRUE], {"retry"})
        stop == Set(Cancel(NextGeneration(asked), {"deadline", "confirm"}), "disconnecting",
                    s.err)
    IN CASE s.st = "disconnecting" -> asked
         [] s.st \in {"off", "failed"} -> Set(asked, "off", FALSE)
         [] OTHER -> IF s.have /\ ~s.ext THEN BackendStop(stop, mode, "stop")
                     ELSE Send(stop, "choose", IF s.ext THEN "stopext" ELSE "stop")

Disable(s, mode) ==
    LET calm == Cancel(s, {"retry"})
        ended == IF s.st \in {"connecting", "connected"} /\ ~s.ext THEN Disconnect(calm, mode)
                 ELSE IF s.st # "disconnecting" \/ s.await
                 THEN Set(Cancel([NextGeneration(calm) EXCEPT !.ext = FALSE], {"deadline"}),
                          "off", FALSE)
                 ELSE calm
    IN StopWatch(Cancel([ended EXCEPT !.await = FALSE], {"confirm"}))

Configure(s, on, auto, mode, ready) ==
    LET chosen == [s EXCEPT !.on = on, !.auto = auto]
        applied == IF ~on THEN Disable(chosen, mode)
                   ELSE IF ~s.on THEN StartWatch(chosen) ELSE chosen
    IN IF on /\ auto /\ ~(s.on /\ s.auto)
       THEN MaybeAutoconnect([applied EXCEPT !.supp = FALSE], ready)
       ELSE IF ~auto THEN Cancel(applied, {"retry"}) ELSE applied

ResetAfterBluezRestart(s) ==
    LET active == s.st \in {"connecting", "connected", "disconnecting"}
        calm == CancelBackend(Cancel(s, {"deadline", "confirm"}))
        off == Set([calm EXCEPT !.await = FALSE, !.have = FALSE, !.path = FALSE,
                                !.ext = FALSE], "off", active)
        seen == ProbeIfWatching(off)
    IN IF active /\ ~s.ext THEN ScheduleAutoRetry(seen) ELSE seen

-----------------------------------------------------------------------------
(* The callbacks of the backend and of the link watch. *)

Connected(s) ==
    IF s.st # "connecting" THEN s
    ELSE Set(Cancel([s EXCEPT !.ever = TRUE], {"deadline"}), "connected", FALSE)

Lost(s, user) ==
    LET over == Cancel(NextGeneration(s), {"deadline", "confirm"})
    IN CASE user -> Set(Cancel([over EXCEPT !.supp = TRUE], {"retry"}), "off", FALSE)
         [] ~user /\ s.st \notin {"connecting", "connected"} -> over
         [] OTHER -> ScheduleAutoRetry(Set(over, "off", TRUE))

Disconnected(s, external) ==
    IF external /\ s.watch THEN Probe([s EXCEPT !.await = TRUE, !.grace = FALSE])
    ELSE FinishDisconnect(s)

\* Mutant: a stop that failed ends the tether.
DisconnectFailedOff(s) == Set(s, "off", TRUE)

DisconnectFailed(s) ==
    IF ~s.on THEN Set(s, "off", FALSE)
    ELSE ProbeIfWatching(Set(s, IF s.ever THEN "connected" ELSE "failed", TRUE))

LinkAfterDisconnect(s, up) ==
    IF ~up THEN FinishDisconnect(s)
    ELSE IF ~s.grace THEN Arm([s EXCEPT !.grace = TRUE], "confirm")
    ELSE Set([s EXCEPT !.await = FALSE, !.ext = TRUE], "connected", TRUE)

\* _observe_link
Reconcile(s, up) ==
    IF s.await /\ s.st = "disconnecting" THEN LinkAfterDisconnect(s, up)
    ELSE IF up
    THEN IF s.st \in {"off", "failed"}
         THEN Set([s EXCEPT !.ext = TRUE, !.ever = TRUE], "connected", FALSE) ELSE s
    ELSE IF s.st # "connected" THEN s
    ELSE IF s.err /\ s.supp THEN Set([s EXCEPT !.ext = FALSE], "off", FALSE)
    ELSE LET off == Set([s EXCEPT !.ext = FALSE], "off", TRUE)
         IN IF s.ext THEN off ELSE ScheduleAutoRetry(off)

\* Mutant: the first report of the watch does not start the automatic attempt.
ObserveLinkOnly(s, up, ready) == IF s.on THEN Reconcile([s EXCEPT !.first = FALSE], up) ELSE s

ObserveLink(s, up, ready) ==
    IF ~s.on THEN s
    ELSE LET seen == Reconcile([s EXCEPT !.first = FALSE], up)
         IN IF s.first THEN MaybeAutoconnect(seen, ready) ELSE seen

\* observe_link(None): the link could not be read; the watch asks again later.
LinkUnknown(s) ==
    Arm(IF s.on /\ s.await
        THEN Set(Cancel([s EXCEPT !.await = FALSE, !.ext = TRUE], {"confirm"}), "connected",
                 TRUE)
        ELSE s, "reprobe")

\* A live signal supersedes an older probe.
PropertiesChanged(s, up, ready) ==
    ObserveLink(Bump(Cancel(s, {"reprobe"}), TRUE), up, ready)

\* The state of NetworkManager's activation, signalled or read.
ObserveActivation(s, state) ==
    CASE ~s.match \/ (state = "activated" /\ s.est) \/ state = "activating" -> s
      [] state = "activated" /\ s.match /\ ~s.est ->
             Send([s EXCEPT !.est = TRUE], "interface", "attempt")
      [] OTHER ->
             LET over == [DropStateMatch(s) EXCEPT !.path = FALSE]
             IN IF s.est \/ state = "userdown" THEN Lost(over, state = "userdown")
                ELSE Failed(over)

\* A backend was chosen.
Chosen(s, for, mode) ==
    LET has == [s EXCEPT !.have = TRUE, !.path = FALSE]
    IN IF for = "attempt" THEN BackendConnect(has, mode) ELSE BackendStop(has, mode, for)

Activated(s) == Send([s EXCEPT !.path = TRUE, !.match = TRUE], "state", "attempt")

StopReplied(s, for, ok) ==
    IF for = "withdraw" THEN s
    ELSE IF ok THEN Disconnected(s, for = "stopext") ELSE DisconnectFailed(s)

\* The reply of a call of an earlier generation.  A late activation is deactivated.
Late(s, k, ok) == IF k = "activate" /\ ok THEN Send(s, "deactivate", "withdraw") ELSE s

\* The reply of a call.
Replied(s, c, ans, mode, ready) ==
    LET k == c.k
        ok == ans \notin {"error", "unknown"}
    IN CASE c.dead -> s
         [] ~c.dead /\ ~c.cur -> Late(s, k, ok)
         [] k = "probe" -> IF ok THEN ObserveLink(s, ans = "up", ready) ELSE LinkUnknown(s)
         [] k = "choose" -> IF ok THEN Chosen(s, c.for, mode)
                            ELSE IF c.for = "attempt" THEN Failed(s) ELSE DisconnectFailed(s)
         [] k = "connect" -> IF ok THEN Connected(s) ELSE Failed(s)
         [] k = "lookup" -> IF ok THEN Send(s, "activate", "attempt") ELSE Failed(s)
         [] k = "activate" -> IF ok THEN Activated(s) ELSE Failed(s)
         [] k = "state" -> IF ok THEN ObserveActivation(s, ans) ELSE s
         [] k = "interface" -> Connected(s)
         [] k = "find" -> IF ans = "found" THEN Send(s, "deactivate", c.for)
                          ELSE StopReplied(s, c.for, ok)
         [] k \in {"deactivate", "disconnect"} -> StopReplied(s, c.for, ok)

-----------------------------------------------------------------------------
(* BlueZ and NetworkManager (external), and the delivery of what they say. *)

\* by: who has the link up (None, "us", "other"); act: NetworkManager's activation;
\* hot: Personal Hotspot is offered; ready: MAP, PBAP and the Classic link are up;
\* wish: the user's last word ("on", "off"); crossed: another tool started its link while
\* an attempt or a stop was under way; early: the user asked for the link, or chose
\* automatic tethering, while a stop was under way; broken: a call failed or timed out, or
\* the daemon was restarted.
Init ==
    /\ \E mode \in Modes, auto \in BOOLEAN :
           /\ te = StartWatch(Fresh(TRUE, auto, FALSE) @@ [calls |-> <<>>, inb |-> <<>>])
           /\ pan = [mode |-> mode, by |-> None, act |-> None, hot |-> TRUE, ready |-> TRUE,
                     wish |-> IF auto THEN "on" ELSE "off", crossed |-> FALSE, early |-> FALSE,
                     broken |-> FALSE]
    /\ wishes = 0 /\ faults = 0

Up(p) == p.by # None

\* What the daemon hears of a change of the link and of the activation.
Heard(s, p, q, how) ==
    LET link == IF Up(p) # Up(q) /\ s.watch THEN <<[k |-> "changed", up |-> Up(q)]>> ELSE <<>>
        state == IF q.act = None THEN how ELSE q.act
        nm == IF p.act # q.act /\ s.match THEN <<[k |-> "nm", state |-> state]>> ELSE <<>>
    IN [s EXCEPT !.inb = @ \o link \o nm]

Ended(p) == [p EXCEPT !.by = None, !.act = None]

\* A call is carried out and answered.
Handled(p, k) ==
    CASE k \in {"probe"} -> [ans |-> IF Up(p) THEN "up" ELSE "down", p |-> p]
      [] k \in {"choose", "lookup", "interface"} -> [ans |-> "ok", p |-> p]
      [] k = "connect" ->
             IF Up(p) THEN [ans |-> "ok", p |-> p]
             ELSE IF p.hot /\ p.ready THEN [ans |-> "ok", p |-> [p EXCEPT !.by = "us"]]
             ELSE [ans |-> "error", p |-> p]
      [] k = "activate" ->
             IF p.act = None /\ p.ready THEN [ans |-> "ok", p |-> [p EXCEPT !.act = "activating"]]
             ELSE [ans |-> IF p.ready THEN "ok" ELSE "error", p |-> p]
      [] k = "state" -> [ans |-> IF p.act = None THEN "error" ELSE p.act, p |-> p]
      [] k = "find" -> [ans |-> IF p.act = None THEN "none" ELSE "found", p |-> p]
      [] k = "deactivate" -> [ans |-> "ok", p |-> IF p.act = None THEN p ELSE Ended(p)]
      [] k = "disconnect" -> [ans |-> "ok", p |-> Ended(p)]

\* A service takes its calls in order; only connecting takes time.
Service(k) ==
    CASE k \in {"probe", "connect", "disconnect"} -> "bluez"
      [] k = "choose" -> "bus"
      [] OTHER -> "nm"

Handleable(i) ==
    \A j \in 1..(i - 1) : \/ Service(te.calls[j].k) # Service(te.calls[i].k)
                         \/ te.calls[j].k \in {"connect", "activate"}

Answer(i, ans, p) ==
    LET c == te.calls[i]
        rest == Heard([te EXCEPT !.calls = RemoveAt(@, i)], pan, p, "userdown")
    IN /\ te' = [rest EXCEPT !.inb = Append(@, [k |-> "reply", of |-> c, ans |-> ans])]
       /\ pan' = p

\* A Disconnect ends the Connect that BlueZ has under way first.
Handle ==
    \E i \in DOMAIN te.calls :
        /\ Handleable(i)
        /\ IF te.calls[i].k = "disconnect" /\ \E j \in 1..(i - 1) : te.calls[j].k = "connect"
           THEN \E j \in 1..(i - 1) : te.calls[j].k = "connect" /\ Answer(j, "error", pan)
           ELSE LET h == Handled(pan, te.calls[i].k) IN Answer(i, h.ans, h.p)
        /\ NoFault

\* A call is refused, or times out: it may then still be carried out.
CallFails ==
    \E i \in DOMAIN te.calls :
        /\ ~te.calls[i].dead /\ Fault
        /\ \/ Answer(i, "error", [pan EXCEPT !.broken = TRUE])
           \/ /\ te' = [te EXCEPT !.calls[i].dead = TRUE,
                                  !.inb = Append(@, [k |-> "reply", of |-> te.calls[i],
                                                     ans |-> "error"])]
              /\ pan' = [pan EXCEPT !.broken = TRUE]

Delivered(s, m) ==
    CASE m.k = "changed" -> IF s.watch THEN PropertiesChanged(s, m.up, pan.ready) ELSE s
      [] m.k = "nm" -> ObserveActivation(s, m.state)
      [] m.k = "reply" -> Replied(s, m.of, m.ans, pan.mode, pan.ready)

Deliver ==
    /\ te.inb # <<>>
    /\ te' = Delivered([te EXCEPT !.inb = Tail(@)], Head(te.inb))
    /\ UNCHANGED pan /\ NoFault

Changes(p, how) == pan' = p /\ te' = Heard(te, pan, p, how)

\* NetworkManager brings the activation up, or gives it up.
ActivationEnds ==
    /\ pan.act = "activating"
    /\ \/ pan.hot /\ pan.ready /\ Changes([pan EXCEPT !.act = "activated", !.by = "us"], None)
       \/ ~(pan.hot /\ pan.ready) /\ Changes(Ended(pan), "down")
    /\ NoFault

\* The phone ends the link, or the hotspot is switched.
LinkDrops == Fault /\ Up(pan) /\ Changes(Ended(pan), "down")
HotspotSwitched ==
    /\ Fault
    /\ Changes(IF pan.hot THEN [Ended(pan) EXCEPT !.hot = FALSE] ELSE [pan EXCEPT !.hot = TRUE],
               "down")

\* Another tool starts a link, or ends the one there is.
OtherConnects ==
    /\ Fault /\ ~Up(pan) /\ pan.act = None /\ pan.ready
    /\ Changes([pan EXCEPT !.by = "other", !.crossed = te.st \in {"connecting", "disconnecting"},
                           !.act = IF pan.mode = "nm" THEN "activated" ELSE None], None)
AppletStops ==
    /\ Fault /\ Up(pan) /\ te.match
    /\ Changes([Ended(pan) EXCEPT !.wish = "off"], "userdown")

\* The Classic link or the profiles go, and return: _post_sessions_setup.
ReadinessChanges ==
    \/ /\ pan.ready /\ Fault
       /\ Changes([Ended(pan) EXCEPT !.ready = FALSE], "down")
    \/ /\ ~pan.ready /\ NoFault
       /\ pan' = [pan EXCEPT !.ready = TRUE]
       /\ te' = MaybeAutoconnect(te, TRUE)

BluezRestarts ==
    /\ Fault
    /\ LET bluez == {"probe", "connect", "disconnect"}
           lost == [te EXCEPT !.calls = SelectSeq(@, LAMBDA c : c.k \notin bluez),
                              !.inb = SelectSeq(@, LAMBDA m : m.k = "nm" \/
                                          (m.k = "reply" /\ m.of.k \notin bluez))]
       IN te' = ResetAfterBluezRestart(lost)
    /\ pan' = Ended(pan)

\* The daemon stops and starts: what is under way goes on without it.
DaemonRestarts ==
    /\ Fault
    /\ LET calls == [i \in DOMAIN te.calls |-> [te.calls[i] EXCEPT !.dead = TRUE]]
           again == Fresh(te.on, te.auto, te.supp) @@ [calls |-> calls, inb |-> <<>>]
       IN te' = IF te.on THEN StartWatch(again) ELSE again
    /\ pan' = [pan EXCEPT !.broken = TRUE]

-----------------------------------------------------------------------------
(* The user and the timers. *)

\* The main loop dispatches what has arrived before it takes a request.
Wish == te.inb = <<>> /\ wishes < MaxWishes /\ wishes' = wishes + 1 /\ UNCHANGED faults

\* A stop, or the withdrawal of an attempt, is under way.
Stopping ==
    te.st = "disconnecting" \/ \E c \in Range(te.calls) : c.dead \/ ~c.cur \/ c.for = "withdraw"

AskConnect ==
    /\ Wish /\ te.on
    /\ te' = Connect(te, pan.ready)
    /\ pan' = [pan EXCEPT !.wish = "on", !.early = Stopping]

AskDisconnect ==
    /\ Wish
    /\ te' = Disconnect(te, pan.mode)
    /\ pan' = [pan EXCEPT !.wish = "off"]

SetTethering ==
    /\ Wish
    /\ \E on \in BOOLEAN, auto \in BOOLEAN :
           /\ <<on, auto>> # <<te.on, te.auto>>
           /\ te' = Configure(te, on, auto, pan.mode, pan.ready)
           /\ pan' = [pan EXCEPT !.wish = IF ~on THEN "off" ELSE IF auto THEN "on" ELSE @,
                                !.early = Stopping]

\* A timer of seconds does not overtake what has arrived.
Fires(timer) == timer \in te.t /\ te.inb = <<>>

\* It fires while the attempt is under way only when something took too long.
Deadline ==
    /\ Fires("deadline") /\ \A c \in Range(te.calls) : c.dead \/ c.k # "probe"
    /\ IF te.calls = <<>> /\ pan.act # "activating" THEN NoFault ELSE Fault
    /\ LET failed == Failed(Cancel(te, {"deadline"}))
       IN te' = IF te.have THEN BackendStop(failed, pan.mode, "withdraw") ELSE failed
    /\ UNCHANGED pan

\* Thirty seconds and more: what was under way is answered or has timed out by then.
RetryTimer ==
    /\ Fires("retry") /\ \A c \in Range(te.calls) : c.dead
    /\ te' = MaybeAutoconnect(Cancel(te, {"retry"}), pan.ready)
    /\ UNCHANGED pan /\ NoFault

ConfirmTimer ==
    /\ Fires("confirm")
    /\ LET over == Cancel(te, {"confirm"}) IN te' = IF te.await THEN Probe(over) ELSE over
    /\ UNCHANGED pan /\ NoFault

ReprobeTimer ==
    /\ Fires("reprobe")
    /\ te' = Probe(Cancel(te, {"reprobe"}))
    /\ UNCHANGED pan /\ NoFault

Next ==
    \/ Handle \/ CallFails \/ Deliver \/ ActivationEnds \/ LinkDrops \/ HotspotSwitched
    \/ OtherConnects \/ AppletStops \/ ReadinessChanges \/ BluezRestarts \/ DaemonRestarts
    \/ AskConnect \/ AskDisconnect \/ SetTethering
    \/ Deadline \/ RetryTimer \/ ConfirmTimer \/ ReprobeTimer

FairStep(k) ==
    CASE k = 1 -> Handle [] k = 2 -> Deliver [] k = 3 -> ActivationEnds
      [] k = 4 -> ~pan.ready /\ ReadinessChanges [] k = 5 -> Deadline [] k = 6 -> RetryTimer
      [] k = 7 -> ConfirmTimer [] k = 8 -> ReprobeTimer [] OTHER -> FALSE

Fairness == \A k \in 1 .. 8 : WF_tetherVars(FairStep(k))

SafetySpec == Init /\ [][Next]_tetherVars

Spec == SafetySpec /\ Fairness

-----------------------------------------------------------------------------
Quiet == te.calls = <<>> /\ te.inb = <<>> /\ te.t = {} /\ pan.act # "activating"

(* What the daemon shows is what BlueZ has: once nothing is under way, an enabled tether is
   shown as connected exactly while the link is up (observe_link, _failed,
   _disconnect_failed, _finish_disconnect). *)
TetherHonest == Quiet /\ te.on /\ ~pan.crossed => (te.st = "connected" <=> Up(pan))

(* A tether the user turned off stays off: whatever was under way when the user disconnected,
   switched the feature off or stopped the link in the network applet, no link of ours is up
   once it has been answered, as long as nothing failed (disconnect, _disable, _lost, the late
   activation of NetworkManagerTether, the retry). *)
OffStays == Quiet /\ ~pan.broken /\ pan.wish = "off" => pan.by # "us"

Automatic == te.on /\ te.auto /\ ~te.supp /\ ~pan.early /\ pan.ready /\ pan.hot

(* Automatic tethering brings the link up: chosen for good, with the hotspot offered and the
   profiles up for good, the link is up again and again (maybe_autoconnect, the retry of
   _schedule_auto_retry and the first report of the watch). *)
AutoReturns == <>[]Automatic => <>[]Up(pan)

=============================================================================
