----------------------------- MODULE AncsClient -----------------------------
(***************************************************************************)
(* The client of the iPhone's notification service: class AncsClient of    *)
(* src/src/blueferry/ancs/client.py with the RequestBacklog of             *)
(* ancs/sequencer.py and the reassembly of ancs/parsers.py.                *)
(*                                                                         *)
(* A method is an operator from one state of the client to the next; an    *)
(* action applies one handler to cl.  The calls of dbus-python that block  *)
(* (StartNotify while subscribing, the sweep of the object tree) are part  *)
(* of the handler, with their outcome as an argument.  A generation is     *)
(* compared for equality only: what belongs to an earlier one is removed,  *)
(* or kept in "orphans" where its reply still has an effect.               *)
(*                                                                         *)
(* The notifications of the phone are its UIDs; an app is "messages" or    *)
(* one "other" app, whose name has to be looked up once.  Of a fragmented  *)
(* response only the last fragment is modelled.                            *)
(***************************************************************************)
EXTENDS Naturals, Sequences, FiniteSets, SequencesExt, Handlers

CONSTANTS
    Uids,           \* notification UIDs
    MaxRequests,    \* MAX_ANCS_REQUESTS
    MaxPending,     \* MAX_ANCS_PENDING_PER_APP
    MaxBusy,        \* MAX_CONTROL_POINT_BUSY_RETRIES
    MaxEvents,      \* bound of the notification events the phone sends
    MaxFaults,      \* bound of losses, restarts, errors and silences
    Modes,          \* "le": BlueZ reports the LE bearer; "legacy": it does not
    None

VARIABLES
    cl,             \* the client
    air,            \* BlueZ and the phone
    faults, events

ancsVars == <<cl, air, faults, events>>

Paths == {"ns", "ds"}

\* The fields of the client, after those of the class:
\*   le         _bearer_connected            legacy    _legacy_connected
\*   owner      _bluez_owner_available       chars     the three characteristic paths
\*   ready      _bearer_ready                blocked   _transport_blocked
\*   notify     _notify_started              auth      _authorized
\*   was        _was_authorized              live      _live_events_seen
\*   owned      _owned_notify_paths          used      _notify_refreshes (at its limit)
\*   refresh    _notify_refresh is set       t         the timers that are armed
\*   toggles    the StopNotify and StartNotify of refreshes under way
\*   q, reserved   the RequestBacklog        active    _active_request
\*   out        the request of the WriteValue that holds _cp_write_token
\*   orphans    actions in a WriteValue sent to a bluetoothd that is gone
\*   named      the app's name is cached     asked     _app_lookup_requested
\*   lookups    _pending_app_lookups         offer     _actionable
\*   actions    the notification-actions setting
\* of BlueZ and the phone: taken, the phone has the write of out; due, the requests it
\* will answer, in order; dead, its answers have no subscription to come back on,
\* though BlueZ says Notifying; reset, the bearer supervisor owes a reset of LE;
\* and of the history: waiting, the accepted actions without a result; stale, whether
\* a notification was shown that the client knew to be gone; misfired, whether an
\* action was written after a later event for its UID.
\*
\* A request is [kind, uid, app, busy, gone, fed, fresh]: gone is discarded, fed tells
\* that a shorter response lies in its buffer, and fresh (history) that its
\* notification, as far as the client was told, is still the one it was made for.
Request(kind, uid) ==
    [kind |-> kind, uid |-> uid, app |-> None, busy |-> 0, gone |-> FALSE,
     fed |-> FALSE, fresh |-> TRUE]

IsNote(r) == r.kind \in {"id", "full"}
IsAction(r) == r.kind = "action"

\* The key of a request; a discarded one is renamed and reserves nothing.
Key(r) == IF IsNote(r) THEN <<"note", r.uid>> ELSE <<r.kind, r.uid>>

-----------------------------------------------------------------------------
(* History. *)

Outdated(r, U, Kind(_)) ==
    IF r # None /\ Kind(r) /\ r.uid \in U THEN [r EXCEPT !.fresh = FALSE] ELSE r

OutdatedAll(s, U) == [i \in DOMAIN s |-> Outdated(s[i], U, IsNote)]

\* The notifications U are gone, or their UIDs may name others.
Gone(c, U) ==
    [c EXCEPT !.q = OutdatedAll(@, U), !.due = OutdatedAll(@, U),
              !.lookups = OutdatedAll(@, U),
              !.active = Outdated(@, U, IsNote), !.out = Outdated(@, U, IsNote)]

\* Something happened to notification u since the actions under way were asked for.
Touched(c, u) ==
    [c EXCEPT !.active = Outdated(@, {u}, IsAction), !.out = Outdated(@, {u}, IsAction)]

-----------------------------------------------------------------------------
(* The backlog and the actions. *)

Cancel(c, timers) == [c EXCEPT !.t = @ \ timers]
Arm(c, timer) == [c EXCEPT !.t = @ \union {timer}]

\* RequestBacklog.enqueue
Fits(c, r) == Key(r) \notin c.reserved /\ Cardinality(c.reserved) < MaxRequests

Add(c, r, front) ==
    [c EXCEPT !.reserved = @ \union {Key(r)},
              !.q = IF front THEN <<r>> \o @ ELSE Append(@, r)]

\* RequestBacklog.finish
Release(c, r) == IF r.gone THEN c ELSE [c EXCEPT !.reserved = @ \ {Key(r)}]

\* RequestBacklog.remove_if
RemoveIf(c, Matches(_)) ==
    LET Kept(r) == ~Matches(r)
    IN  [c EXCEPT !.q = SelectSeq(@, Kept),
                  !.reserved = @ \ {Key(r) : r \in {x \in Range(c.q) : Matches(x)}}]

Report(c) == [c EXCEPT !.waiting = @ - 1]

\* _drop_queued_actions
DropQueuedActions(c, U) ==
    LET Dropped(r) == IsAction(r) /\ r.uid \in U
    IN  [RemoveIf(c, Dropped) EXCEPT !.waiting = @ - Len(SelectSeq(c.q, Dropped))]

\* _forget_actionable
ForgetActionable(c, u) == Touched([DropQueuedActions(c, {u}) EXCEPT !.offer[u] = None], u)

\* _reset_actions
ResetActions(c) == [DropQueuedActions(c, Uids) EXCEPT !.offer = [u \in Uids |-> None]]

\* Mutant: the response that is under way is not discarded with the rest.
DiscardQueuedOnly(c, U) ==
    LET Matches(r) == IsNote(r) /\ r.uid \in U
        Kept(a) == a.uid \notin U
    IN  Gone([RemoveIf(c, Matches) EXCEPT !.lookups = SelectSeq(@, Kept)], U)

\* _discard_notification_requests: an active request drains and releases its key at once.
DiscardNotificationRequests(c, U) ==
    LET Matches(r) == IsNote(r) /\ r.uid \in U
        Kept(a) == a.uid \notin U
        left == [RemoveIf(c, Matches) EXCEPT !.lookups = SelectSeq(@, Kept)]
        drain == c.active # None /\ Matches(c.active) /\ ~c.active.gone
    IN  Gone(IF drain THEN [Release(left, c.active) EXCEPT !.active.gone = TRUE] ELSE left, U)

\* _end_session
EndSession(c) == DiscardNotificationRequests([c EXCEPT !.live = FALSE], Uids)

\* _finish_active_request
FinishActiveRequest(c) ==
    LET idle == Cancel([c EXCEPT !.active = None], {"request"})
    IN  IF c.active = None THEN idle ELSE Release(idle, c.active)

\* _reset_requests
ResetRequests(c) ==
    LET dropped == Cancel(DropQueuedActions(c, Uids), {"busy"})
        cleared == [dropped EXCEPT !.q = <<>>, !.reserved = {}]
    IN  [FinishActiveRequest(cleared) EXCEPT !.lookups = <<>>, !.asked = FALSE]

-----------------------------------------------------------------------------
(* The Control Point: one command at a time. *)

\* Mutant: the next command does not wait for the previous write to be answered.
PumpOverlapping(c) ==
    IF \/ c.active # None \/ "busy" \in c.t \/ c.refresh \/ c.q = <<>> \/ ~c.chars
    THEN c
    ELSE [c EXCEPT !.q = Tail(@), !.active = Head(c.q), !.out = Head(c.q), !.taken = FALSE,
                   !.misfired = @ \/ (IsAction(Head(c.q)) /\ ~Head(c.q).fresh)]

\* _pump_requests, up to the asynchronous WriteValue
PumpRequests(c) ==
    IF \/ c.active # None \/ c.out # None \/ "busy" \in c.t \/ c.refresh
       \/ c.q = <<>> \/ ~c.chars
    THEN c
    ELSE [c EXCEPT !.q = Tail(@), !.active = Head(c.q), !.out = Head(c.q), !.taken = FALSE,
                   !.misfired = @ \/ (IsAction(Head(c.q)) /\ ~Head(c.q).fresh)]

\* _enqueue
Enqueue(c, r) == IF Fits(c, r) THEN PumpRequests(Add(c, r, FALSE)) ELSE c

\* _queue_authorization_probe
QueueProbe(c, force) ==
    IF ~c.notify \/ (c.auth /\ ~force) THEN c ELSE Enqueue(c, Request("probe", None))

Connected(c) ==
    (c.le = "up" \/ c.legacy) /\ c.ready /\ ~c.blocked /\ c.notify /\ c.auth

\* probe_health
ProbeHealthy(c) ==
    IF Connected(c) /\ c.active = None /\ c.q = <<>> THEN QueueProbe(c, TRUE) ELSE c

\* _schedule_authorization_retry
ScheduleAuthorizationRetry(c) ==
    IF ~c.started \/ ~c.notify \/ c.auth THEN c ELSE Arm(c, "auth")

\* _observe_permission_error
ObservePermissionError(c, error) ==
    IF error # "denied" THEN c ELSE ScheduleAuthorizationRetry([c EXCEPT !.auth = FALSE])

\* _schedule_legacy_health
ScheduleLegacyHealth(c) == IF c.started /\ c.legacy THEN Arm(c, "health") ELSE c

\* _mark_authorized
MarkAuthorized(c) ==
    Cancel([ScheduleLegacyHealth(c) EXCEPT !.auth = TRUE, !.was = TRUE], {"auth"})

-----------------------------------------------------------------------------
(* Showing notifications. *)

\* _emit and _remember_actionable; only the other app's copy has action labels.
Emit(c, a) ==
    [c EXCEPT !.stale = @ \/ ~a.fresh,
              !.offer[a.uid] = IF c.actions /\ a.app = "other" THEN "offered" ELSE @]

EmitLookups(c) ==
    FoldSeq(LAMBDA a, shown : Emit(shown, a), [c EXCEPT !.lookups = <<>>], c.lookups)

\* _abandon_request
AbandonRequest(c, r) ==
    LET free == Release(c, r)
    IN  CASE r.kind = "probe" -> ScheduleAuthorizationRetry(free)
          [] r.kind = "name" -> EmitLookups([free EXCEPT !.asked = FALSE])
          [] OTHER -> free

\* _handle_notification_attrs and _request_app_name
HandleNotificationAttrs(c, a) ==
    LET waiting == [c EXCEPT !.lookups = Append(@, a)]
        name == Request("name", None)
    IN  IF a.app = "messages" \/ c.named \/ Len(c.lookups) >= MaxPending THEN Emit(c, a)
        ELSE IF c.asked THEN waiting
        ELSE IF Fits(c, name) THEN PumpRequests(Add([waiting EXCEPT !.asked = TRUE], name, FALSE))
        ELSE Emit(c, a)

-----------------------------------------------------------------------------
(* The subscription. *)

\* _clear_characteristic_subscription(stop_notify=False)
ClearSubscription(c) ==
    LET off == [Cancel(c, {"auth", "health"}) EXCEPT
                    !.refresh = FALSE, !.notify = FALSE, !.auth = FALSE,
                    !.toggles = {[x EXCEPT !.current = FALSE] : x \in @}]
        Finish(idle) == EndSession(ResetActions(idle))
    IN  Then(ResetRequests(off), Finish)

\* _schedule_subscribe_retry
ScheduleSubscribeRetry(c) == IF c.started /\ c.chars THEN Arm(c, "sub") ELSE c

\* _schedule_transport_reset
ScheduleTransportReset(c) == IF c.started /\ c.le = "up" THEN Arm(c, "reset") ELSE c

\* _mark_transport_failed
MarkTransportFailed(c) ==
    LET latched == Cancel([c EXCEPT !.blocked = TRUE, !.ready = FALSE], {"settle", "sub"})
        Retry(off) == IF c.legacy THEN ScheduleSubscribeRetry(off)
                      ELSE ScheduleTransportReset(off)
    IN  Then(ClearSubscription(latched), Retry)

\* _escalate_unresponsive_transport; _stop_bluez_notifications fails for the paths kept.
EscalateUnresponsive(c, kept) ==
    MarkTransportFailed(
        IF c.notify /\ c.le = "up" /\ c.ready THEN [c EXCEPT !.owned = @ \intersect kept] ELSE c)

CanSubscribe(c) ==
    ~c.notify /\ ~c.blocked /\ (c.le = "up" \/ c.legacy) /\ c.ready /\ c.chars

\* _try_subscribe: StartNotify for the paths BlueZ does not report as Notifying (needed),
\* ns first; fail is the path whose call ends in error, or None.
TrySubscribe(c, needed, fail, error) ==
    LET done == IF fail = "ns" THEN {} ELSE needed \ {fail}
        begun == [c EXCEPT !.owned = @ \union done, !.dead = @ /\ "ds" \notin done]
        Failed(seen) == IF error = "lost" THEN MarkTransportFailed(seen)
                        ELSE ScheduleSubscribeRetry(seen)
        Fresh(on) == QueueProbe(EndSession(ResetActions(on)), FALSE)
    IN  IF ~CanSubscribe(c) THEN c
        ELSE IF fail # None THEN Then(ObservePermissionError(begun, error), Failed)
        ELSE Then(Cancel([begun EXCEPT !.notify = TRUE], {"sub"}), Fresh)

\* _schedule_bearer_settle
ScheduleBearerSettle(c) == IF c.le = "up" \/ c.legacy THEN Arm(c, "settle") ELSE c

\* _refresh_notifications: StopNotify and StartNotify of ns, then of ds; FALSE when it may
\* not run.
MayRefresh(c) ==
    /\ c.started /\ c.notify /\ ~c.legacy /\ c.le = "up" /\ c.ready
    /\ ~c.refresh /\ ~c.used /\ c.chars

Toggle(op, path) == [op |-> op, path |-> path, current |-> TRUE]

RefreshNotifications(c) ==
    [EndSession(FinishActiveRequest([c EXCEPT !.used = TRUE])) EXCEPT
        !.refresh = TRUE, !.toggles = @ \union {Toggle("stop", "ns")}]

\* next_path() after both: the probe goes ahead of what was queued meanwhile.
Refreshed(c, kept) ==
    LET probe == Request("probe", None)
        Repeat(on) ==
            IF Fits(on, probe) THEN PumpRequests(Add(on, probe, TRUE))
            ELSE IF \E i \in DOMAIN on.q : on.q[i].kind = "probe" THEN PumpRequests(on)
            ELSE EscalateUnresponsive(on, kept)
    IN  Then(ResetActions([c EXCEPT !.refresh = FALSE]), Repeat)

-----------------------------------------------------------------------------
(* Replies of BlueZ and answers of the phone. *)

\* written(): current_attempt() holds just when the request is still active.
Written(c) ==
    LET free == [c EXCEPT !.out = None]
        current == c.started /\ c.active # None
    IN  IF IsAction(c.out)
        THEN PumpRequests(Report(IF current
                                 THEN [FinishActiveRequest(free) EXCEPT !.offer[c.out.uid] = None]
                                 ELSE free))
        ELSE IF current THEN Arm(free, "request") ELSE PumpRequests(free)

\* _action_failed: the notification can be acted on again, unless the phone lost it.
ActionFailed(c, u, error) ==
    Report([c EXCEPT !.offer[u] = IF error = "unavailable" \/ @ = None THEN None
                                  ELSE "offered"])

\* failed()
WriteFailed(c, error) ==
    LET r == c.active
        free == [c EXCEPT !.out = None]
        Onward(done) == IF error = "lost" THEN MarkTransportFailed(done)
                        ELSE PumpRequests(done)
        Denied(done) == ObservePermissionError(done, error)
        Drop(seen) == PumpRequests([AbandonRequest(seen, r) EXCEPT !.active = None])
        Ordinary(seen) == IF error = "lost" THEN MarkTransportFailed(seen) ELSE Drop(seen)
    IN  IF ~c.started \/ r = None
        THEN PumpRequests(IF IsAction(c.out) THEN Report(free) ELSE free)
        ELSE IF r.gone THEN Then(FinishActiveRequest(free), Onward)
        ELSE IF error = "busy" /\ r.busy < MaxBusy
        THEN Arm([free EXCEPT !.active = None, !.q = <<[r EXCEPT !.busy = @ + 1]>> \o @], "busy")
        ELSE IF IsAction(r)
        THEN Then(Then(ActionFailed(FinishActiveRequest(free), r.uid, error), Denied), Onward)
        ELSE Then(Denied(free), Ordinary)

\* What a complete response does, by the request it answers.  The app of the answer is
\* "blocked" when the notification policy excludes it.
Complete(c, r, answer, app) ==
    CASE r.kind = "id" /\ app # "blocked" ->
            Enqueue(c, [Request("full", r.uid) EXCEPT !.app = app, !.fresh = r.fresh])
      [] r.kind = "full" /\ app = r.app ->
            HandleNotificationAttrs(c, [answer EXCEPT !.app = app])
      [] r.kind = "probe" -> MarkAuthorized(c)
      [] r.kind = "name" -> EmitLookups([c EXCEPT !.named = TRUE, !.asked = FALSE])
      [] OTHER -> c

\* _on_ds_changed: answer is the request the phone answers, which a timeout may have
\* ended.  DataSourceAssembler.feed refuses another command, notification, app or
\* attribute list, and waits for more when the answer is shorter than asked for.
OnDataSource(c, answer, app, garbled) ==
    LET r == c.active
        Fail(done) == PumpRequests(AbandonRequest(done, r))
        Accept(done) == PumpRequests(Complete(done, r, answer, app))
    IN  IF r = None \/ (r # None /\ IsAction(r)) THEN c
        ELSE IF Key(answer) # Key(r) \/ r.fed \/ (r.kind = "id" /\ answer.kind = "full")
        THEN Then(FinishActiveRequest(c), Fail)
        ELSE IF answer.kind # r.kind THEN [c EXCEPT !.active.fed = TRUE]
        ELSE IF r.gone THEN PumpRequests(FinishActiveRequest(c))
        ELSE IF garbled THEN Then(FinishActiveRequest(c), Fail)
        ELSE Then(FinishActiveRequest(c), Accept)

\* Mutant: a probe that times out is only repeated.
ProbeAbandoned(c, kept) ==
    LET late == Cancel(c, {"request"})
        Drop(done) == PumpRequests([done EXCEPT !.active = None])
    IN  IF c.active = None THEN PumpRequests(late)
        ELSE Then(AbandonRequest(late, c.active), Drop)

\* _request_timed_out
RequestTimedOut(c, kept) ==
    LET r == c.active
        late == Cancel(c, {"request"})
        Drop(done) == PumpRequests([done EXCEPT !.active = None])
    IN  IF r = None THEN PumpRequests(late)
        ELSE IF r.kind = "probe" /\ c.was
        THEN IF MayRefresh(late) THEN RefreshNotifications(late)
             ELSE EscalateUnresponsive(late, kept)
        ELSE Then(AbandonRequest(late, r), Drop)

\* _on_ns_changed
OnNotification(c, event, u) ==
    LET seen == ForgetActionable(c, u)
        Announce(on) == Enqueue(on, Request("id", u))
        Replay(on) == IF on.live THEN EndSession(on) ELSE on
    IN  CASE event = "removed" -> DiscardNotificationRequests(seen, {u})
          [] event = "preexisting" -> Then(ResetActions(seen), Replay)
          [] event = "added" -> Announce([seen EXCEPT !.live = TRUE])

\* _toggle_notify: the reply of one call of a refresh.  Ownership follows every reply.
Toggled(c, call, outcome, kept) ==
    LET left == [c EXCEPT !.toggles = @ \ {call}]
        owned == [left EXCEPT !.owned = IF outcome # "ok" THEN @
                                        ELSE IF call.op = "stop" THEN @ \ {call.path}
                                        ELSE @ \union {call.path},
                              !.dead = @ /\ ~(outcome = "ok" /\ call = Toggle("start", "ds"))]
        Next(op, path) == [owned EXCEPT !.toggles = @ \union {Toggle(op, path)}]
    IN  IF ~call.current THEN owned
        ELSE IF outcome = "lost" THEN MarkTransportFailed([owned EXCEPT !.refresh = FALSE])
        ELSE IF outcome = "failed" THEN EscalateUnresponsive([owned EXCEPT !.refresh = FALSE], kept)
        ELSE CASE call.op = "stop" -> Next("start", call.path)
               [] call.op = "start" /\ call.path = "ns" -> Next("stop", "ds")
               [] OTHER -> Refreshed(owned, kept)

-----------------------------------------------------------------------------
(* What the daemon tells the client. *)

\* observe_bearer_state
ObserveBearerState(c, v, legacy) ==
    LET reset == [ClearSubscription(Cancel(c, {"sub", "settle", "reset"})) EXCEPT
                    !.legacy = legacy, !.ready = FALSE, !.blocked = FALSE]
        Settle(s) == IF s.started THEN ScheduleBearerSettle(s) ELSE s
        \* _legacy_transport_hint
        Hint(s) == IF s.started /\ Connected(s) THEN ProbeHealthy(s) ELSE s
        Down(s) ==
            LET off == Cancel([s EXCEPT !.le = "down", !.used = FALSE, !.blocked = FALSE,
                                        !.ready = FALSE], {"settle", "reset"})
            IN  IF s.notify \/ s.auth \/ s.owned # {} \/ s.active # None \/ s.q # <<>>
                THEN ClearSubscription(Cancel(off, {"sub"})) ELSE off
        Up(s) ==
            LET on == [s EXCEPT !.le = "up"]
            IN  IF s.le = "up" THEN s
                ELSE IF s.blocked THEN ScheduleTransportReset(on)
                ELSE Settle(on)
        Tell(s) == CASE v = "unknown" -> Cancel([s EXCEPT !.le = v, !.ready = FALSE], {"settle"})
                     [] v = "down" -> Down(s)
                     [] v = "up" -> Up(s)
    IN  IF legacy # c.legacy
        THEN IF legacy THEN Settle([reset EXCEPT !.le = "unknown"])
             ELSE IF v # "up" THEN [reset EXCEPT !.le = v]
             ELSE Then(reset, Up)
        ELSE IF legacy THEN Hint([c EXCEPT !.le = "unknown"])
        ELSE Tell(c)

\* observe_bluez_owner: bluetoothd is gone, and its calls with it.
OwnerLost(c) ==
    LET forgotten == [c EXCEPT !.owner = FALSE, !.used = FALSE, !.toggles = {},
                               !.orphans = IF c.out # None /\ IsAction(c.out)
                                           THEN Append(@, c.out) ELSE @,
                               !.out = None, !.due = <<>>, !.dead = FALSE]
    IN  [ClearSubscription(Cancel(forgotten, {"manager", "settle", "reset", "sub"})) EXCEPT
            !.le = "unknown", !.legacy = FALSE, !.ready = FALSE, !.blocked = FALSE,
            !.owned = {}, !.chars = FALSE]

-----------------------------------------------------------------------------
(* Actions: the phone, BlueZ and the links. *)

Fault == faults < MaxFaults /\ faults' = faults + 1
NoFault == faults' = faults

Init ==
    /\ \E was \in BOOLEAN :
         cl = [started |-> TRUE, owner |-> TRUE, le |-> "unknown", legacy |-> FALSE,
               chars |-> TRUE, ready |-> FALSE, blocked |-> FALSE, notify |-> FALSE,
               auth |-> FALSE, was |-> was, live |-> FALSE, owned |-> {}, used |-> FALSE,
               refresh |-> FALSE, t |-> {}, toggles |-> {}, q |-> <<>>, reserved |-> {},
               active |-> None, out |-> None, orphans |-> <<>>, named |-> FALSE,
               asked |-> FALSE, lookups |-> <<>>, offer |-> [u \in Uids |-> None],
               actions |-> TRUE, taken |-> FALSE, due |-> <<>>, dead |-> FALSE,
               reset |-> FALSE, waiting |-> 0, stale |-> FALSE, misfired |-> FALSE]
    /\ air \in [mode : Modes, up : {FALSE}, device : {TRUE}, granted : BOOLEAN,
                chars : {TRUE}, owner : {TRUE}]
    /\ faults = 0 /\ events = 0

\* The LE link comes up; BlueZ may keep registrations whose CCC it did not write again
\* (seen with the bearer interfaces).
LinkUp ==
    /\ ~air.up /\ air.device /\ air.owner
    /\ air' = [air EXCEPT !.up = TRUE]
    /\ \/ UNCHANGED cl
       \/ cl.owned # {} /\ air.mode = "le" /\ cl' = [cl EXCEPT !.dead = TRUE]
    /\ NoFault
    /\ UNCHANGED events

LinkDown ==
    /\ air.up /\ Fault
    /\ \E device \in BOOLEAN :
         /\ device \/ air.mode = "legacy"
         /\ air' = [air EXCEPT !.up = FALSE, !.device = device]
    /\ cl' = [cl EXCEPT !.due = <<>>, !.dead = FALSE]
    /\ UNCHANGED events

DeviceReturns ==
    /\ ~air.device
    /\ air' = [air EXCEPT !.device = TRUE]
    /\ UNCHANGED <<cl, faults, events>>

\* The bearer supervisor resets LE and reports the drop.
BearerReset ==
    /\ cl.reset /\ cl.owner
    /\ air' = [air EXCEPT !.up = FALSE]
    /\ cl' = ObserveBearerState([cl EXCEPT !.reset = FALSE, !.due = <<>>, !.dead = FALSE],
                                "down", FALSE)
    /\ NoFault
    /\ UNCHANGED events

\* The user allows or forbids notification sharing on the phone.
Permission ==
    /\ IF air.granted THEN Fault ELSE NoFault
    /\ air' = [air EXCEPT !.granted = ~@]
    /\ UNCHANGED <<cl, events>>

\* The write reaches the phone, which answers it, or is silent.
PhoneTakes ==
    /\ cl.out # None /\ ~cl.taken /\ air.up
    /\ \/ /\ ~IsAction(cl.out) /\ air.granted /\ ~cl.dead /\ NoFault
          /\ cl' = [cl EXCEPT !.taken = TRUE, !.due = Append(@, cl.out)]
       \/ /\ IF IsAction(cl.out) \/ ~air.granted \/ cl.dead THEN NoFault ELSE Fault
          /\ cl' = [cl EXCEPT !.taken = TRUE]
    /\ UNCHANGED <<air, events>>

WriteReply ==
    /\ cl.out # None
    /\ \/ cl.taken /\ NoFault /\ cl' = Written(cl)
       \/ \E error \in {"lost", "denied", "busy", "other", "unavailable"} :
            /\ CASE error = "lost" -> IF air.up THEN Fault ELSE NoFault
                 [] error = "denied" -> ~air.granted /\ ~cl.taken /\ NoFault
                 [] error = "busy" -> ~cl.taken /\ Fault
                 [] error = "other" -> Fault
                 [] error = "unavailable" -> IsAction(cl.out) /\ ~cl.taken /\ NoFault
            /\ cl' = WriteFailed(cl, error)
    /\ UNCHANGED <<air, events>>

\* The reply to an action written to a bluetoothd that is gone.
OrphanReply ==
    /\ cl.orphans # <<>>
    /\ cl' = Report([cl EXCEPT !.orphans = Tail(@)])
    /\ UNCHANGED <<air, faults, events>>

\* The next answer of the phone; without receivers nobody hears it.
DataSource ==
    /\ cl.due # <<>> /\ air.up
    /\ LET next == [cl EXCEPT !.due = Tail(@)]
       IN  IF ~cl.notify THEN NoFault /\ cl' = next
           ELSE \E app \in {"messages", "other", "blocked"}, garbled \in BOOLEAN :
                  /\ IF garbled THEN Fault ELSE NoFault
                  /\ cl' = OnDataSource(next, Head(cl.due), app, garbled)
    /\ UNCHANGED <<air, events>>

NotificationSource ==
    /\ cl.notify /\ air.up /\ air.granted
    /\ events < MaxEvents /\ events' = events + 1
    /\ \E event \in {"added", "removed", "preexisting"}, u \in Uids :
         cl' = OnNotification(cl, event, u)
    /\ UNCHANGED <<air, faults>>

RefreshReply ==
    /\ \E call \in cl.toggles, outcome \in {"ok", "failed", "lost"}, kept \in SUBSET Paths :
         /\ outcome = "failed" \/ kept = {}
         /\ CASE outcome = "ok" -> NoFault
              [] outcome = "failed" -> Fault
              [] outcome = "lost" -> IF air.up THEN Fault ELSE NoFault
         /\ cl' = Toggled(cl, call, outcome, kept)
    /\ UNCHANGED <<air, events>>

-----------------------------------------------------------------------------
(* Actions: discovery and the daemon. *)

\* How the StartNotify calls of _try_subscribe end.
SubscribeOutcome(c, needed, fail, error) ==
    IF ~CanSubscribe(c) THEN needed = {} /\ fail = None /\ error = "other" /\ NoFault
    ELSE /\ Paths \ c.owned \subseteq needed
         /\ fail \in needed \union {None}
         /\ IF fail = None
            THEN error = "other" /\ (needed = {} \/ air.up \/ c.legacy) /\ NoFault
            ELSE CASE error = "denied" -> ~air.granted /\ NoFault
                   [] error = "lost" -> IF air.up THEN Fault ELSE NoFault
                   [] error = "other" -> Fault

\* c tries to subscribe.
Subscribing(c) ==
    \E needed \in SUBSET Paths, fail \in Paths \union {None}, error \in {"lost", "denied", "other"} :
        /\ SubscribeOutcome(c, needed, fail, error)
        /\ cl' = TrySubscribe(c, needed, fail, error)

\* _on_iface_added, for the last of the three characteristics
Found(c) ==
    LET found == [c EXCEPT !.chars = TRUE]
    IN  IF c.legacy /\ c.blocked THEN cl' = ScheduleSubscribeRetry(found) /\ NoFault
        ELSE Subscribing(found)

\* The manager watches are installed.
Bound == cl.started /\ cl.owner /\ "manager" \notin cl.t

IfaceAdded ==
    /\ ~air.chars /\ air.owner
    /\ air' = [air EXCEPT !.chars = TRUE]
    /\ IF Bound THEN Found(cl) ELSE UNCHANGED cl /\ NoFault
    /\ UNCHANGED events

\* _on_iface_removed, for the first of them and then for the paths in lost
IfaceRemoved ==
    /\ air.chars /\ air.owner /\ Fault
    /\ air' = [air EXCEPT !.chars = FALSE]
    /\ \E lost \in SUBSET Paths :
         cl' = IF ~Bound \/ ~cl.chars THEN cl
               ELSE [ClearSubscription(Cancel(cl, {"sub", "auth"})) EXCEPT
                        !.chars = FALSE, !.owned = @ \ lost]
    /\ UNCHANGED events

\* _bind_manager_and_rescan
Rescan(c) ==
    \/ Fault /\ cl' = Arm(c, "manager")
    \/ IF air.chars THEN Found(c) ELSE cl' = [c EXCEPT !.chars = FALSE] /\ NoFault

BluezLost ==
    /\ air.owner /\ Fault
    /\ air' = [air EXCEPT !.owner = FALSE, !.up = FALSE]
    /\ cl' = IF cl.started THEN OwnerLost(cl)
             ELSE [cl EXCEPT !.due = <<>>, !.dead = FALSE]
    /\ UNCHANGED events

\* observe_bluez_owner with a new owner
BluezReturns ==
    /\ ~air.owner
    /\ air' = [air EXCEPT !.owner = TRUE]
    /\ IF cl.started THEN Rescan([cl EXCEPT !.owner = TRUE]) ELSE UNCHANGED cl /\ NoFault
    /\ UNCHANGED events

\* _observe_le_state of the daemon; a pause for recovery reports LE down, and a read that
\* fails reports it unknown.
Observe ==
    /\ cl.owner
    /\ LET legacy == air.mode = "legacy" /\ air.device
           v == IF air.mode = "legacy" THEN (IF air.device THEN "unknown" ELSE "down")
                ELSE IF air.up THEN "up" ELSE "down"
       IN  \/ /\ cl.legacy # legacy \/ cl.le # v \/ legacy
              /\ cl' = ObserveBearerState(cl, v, legacy) /\ NoFault
           \/ \E w \in {"down", "unknown"} : Fault /\ cl' = ObserveBearerState(cl, w, FALSE)
    /\ UNCHANGED <<air, events>>

\* probe_health, which Bluetooth recovery calls periodically
ProbeHealth == cl' = ProbeHealthy(cl) /\ cl' # cl /\ UNCHANGED <<air, faults, events>>

\* perform_notification_action with the token of the event that is shown
PerformAction ==
    /\ \E u \in Uids :
         LET action == Request("action", u)
             queued == {i \in DOMAIN cl.q : IsAction(cl.q[i])} # {}
                       \/ (cl.active # None /\ IsAction(cl.active))
         IN  /\ cl.actions /\ cl.offer[u] = "offered" /\ Connected(cl) /\ cl.chars
             /\ ~queued /\ Fits(cl, action)
             /\ cl' = PumpRequests(Add([cl EXCEPT !.offer[u] = "inflight",
                                                  !.waiting = @ + 1], action, TRUE))
    /\ UNCHANGED <<air, faults, events>>

\* notification_actions_changed
SwitchActions ==
    /\ IF cl.actions THEN Fault /\ cl' = ResetActions([cl EXCEPT !.actions = FALSE])
       ELSE NoFault /\ cl' = [cl EXCEPT !.actions = TRUE]
    /\ UNCHANGED <<air, events>>

\* stop()
Stop ==
    /\ cl.started /\ Fault
    /\ cl' = [ClearSubscription(Cancel(cl, {"manager", "sub", "settle", "reset"})) EXCEPT
                !.started = FALSE, !.owner = FALSE, !.owned = {}, !.chars = FALSE]
    /\ UNCHANGED <<air, events>>

-----------------------------------------------------------------------------
(* Actions: timers. *)

Fires(timer) == timer \in cl.t

\* _finish_bearer_settle
SettleTimer ==
    /\ Fires("settle")
    /\ Subscribing([Cancel(cl, {"settle"}) EXCEPT !.ready = TRUE])
    /\ UNCHANGED <<air, events>>

\* _retry_subscribe
SubscribeTimer ==
    /\ Fires("sub")
    /\ LET fired == Cancel(cl, {"sub"})
       IN  Subscribing(IF cl.legacy THEN [fired EXCEPT !.blocked = FALSE, !.ready = TRUE]
                       ELSE fired)
    /\ UNCHANGED <<air, events>>

\* _retry_authorization
AuthorizationTimer ==
    /\ Fires("auth")
    /\ cl' = QueueProbe(Cancel(cl, {"auth"}), FALSE)
    /\ UNCHANGED <<air, faults, events>>

\* _check_legacy_health
HealthTimer ==
    /\ Fires("health")
    /\ LET fired == Cancel(cl, {"health"})
       IN  cl' = IF cl.legacy /\ cl.auth THEN ScheduleLegacyHealth(ProbeHealthy(fired))
                 ELSE fired
    /\ UNCHANGED <<air, faults, events>>

\* _retry_busy_control_point
BusyTimer ==
    /\ Fires("busy")
    /\ cl' = PumpRequests(Cancel(cl, {"busy"}))
    /\ UNCHANGED <<air, faults, events>>

\* _request_timed_out: a fault when the phone would still have answered, or when a
\* StopNotify of the escalation fails
RequestTimer ==
    /\ Fires("request")
    /\ \E kept \in SUBSET Paths :
         /\ IF cl.due # <<>> \/ kept # {} THEN Fault ELSE NoFault
         /\ cl' = RequestTimedOut(cl, kept)
    /\ UNCHANGED <<air, events>>

\* _request_transport_reset
ResetTimer ==
    /\ Fires("reset")
    /\ cl' = [Cancel(cl, {"reset"}) EXCEPT !.reset = @ \/ (cl.blocked /\ cl.le = "up")]
    /\ UNCHANGED <<air, faults, events>>

\* _retry_manager_bind
ManagerTimer ==
    /\ Fires("manager")
    /\ Rescan(Cancel(cl, {"manager"}))
    /\ UNCHANGED <<air, events>>

Timers ==
    \/ SettleTimer \/ SubscribeTimer \/ AuthorizationTimer \/ HealthTimer
    \/ BusyTimer \/ RequestTimer \/ ResetTimer \/ ManagerTimer

Next ==
    \/ LinkUp \/ LinkDown \/ DeviceReturns \/ BearerReset \/ Permission
    \/ PhoneTakes \/ WriteReply \/ OrphanReply \/ DataSource \/ NotificationSource
    \/ RefreshReply \/ IfaceAdded \/ IfaceRemoved \/ BluezLost \/ BluezReturns
    \/ Observe \/ ProbeHealth \/ PerformAction \/ SwitchActions \/ Stop \/ Timers

SafetySpec == Init /\ [][Next]_ancsVars

\* Timers fire, BlueZ answers its calls and comes back, the phone reconnects and answers,
\* and the daemon observes and probes.
FairStep(k) ==
    CASE k = 1 -> LinkUp [] k = 2 -> DeviceReturns [] k = 3 -> BearerReset
      [] k = 4 -> PhoneTakes [] k = 5 -> WriteReply [] k = 6 -> DataSource
      [] k = 7 -> RefreshReply [] k = 8 -> IfaceAdded [] k = 9 -> BluezReturns
      [] k = 10 -> Observe [] k = 11 -> ProbeHealth [] k = 12 -> SettleTimer
      [] k = 13 -> SubscribeTimer [] k = 14 -> AuthorizationTimer [] k = 15 -> HealthTimer
      [] k = 16 -> BusyTimer [] k = 17 -> RequestTimer [] k = 18 -> ResetTimer
      [] k = 19 -> ManagerTimer [] OTHER -> FALSE

Fairness == \A k \in 1 .. 19 : WF_ancsVars(FairStep(k))

Spec == SafetySpec /\ Fairness

-----------------------------------------------------------------------------
(* Properties. *)

\* No notification is shown after the phone removed it or its UID session ended, though
\* its answer may be under way, wait for the app's name, or arrive after its request
\* timed out (_discard_notification_requests).
PopupOfLive == ~cl.stale

\* Every action that was accepted has a result still to come from exactly one place.
ActionsAnswered ==
    cl.waiting = Len(SelectSeq(cl.q, IsAction)) + Len(cl.orphans)
                 + (IF cl.out # None /\ IsAction(cl.out) THEN 1 ELSE 0)

\* "a button for an old notification must never act on a new one" (_on_ns_changed): no
\* action is written after a later event for its UID.
ActionsStayWithTheirEvent == ~cl.misfired

Allowed == cl.started /\ air.granted
Receiving == Connected(cl) /\ air.up /\ ~cl.dead
NeverAuthorized == cl.dead /\ ~cl.was

\* Notifications come back for good, whatever was lost before, once the phone allows them.
\* The exception is a client that never was authorized, to which a dead registration
\* looks like a permission the user has not given yet (_was_authorized).
AncsReturns == <>[]Allowed => <>[]Receiving \/ <>[]NeverAuthorized

=============================================================================
