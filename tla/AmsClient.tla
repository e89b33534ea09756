------------------------------ MODULE AmsClient ------------------------------
(***************************************************************************)
(* Media control: class AmsClient of src/src/blueferry/ams/client.py, the  *)
(* AmsNotifySessions that outlives every client, and the daemon's switch   *)
(* of the feature (daemon.py).                                             *)
(*                                                                         *)
(* A method is an operator on the record s of the client, the tracker and  *)
(* the D-Bus calls under way.  bluetoothd handles calls in order and their *)
(* replies come in order; a call of an earlier generation has "cur" FALSE, *)
(* one whose token the tracker has dropped "tok" FALSE, and one that timed *)
(* out "dead" TRUE.  The two characteristics that notify are "rc" (Remote  *)
(* Command) and "eu" (Entity Update); the three registration writes are    *)
(* one.                                                                    *)
(***************************************************************************)
EXTENDS Naturals, Sequences, FiniteSets, SequencesExt, TLC, Handlers

CONSTANTS
    MaxAttempts,    \* RELEASE_ATTEMPTS
    MaxRefreshes,   \* NOTIFY_REFRESHES_PER_LINK
    MaxSwitches,    \* bound of opt-outs
    MaxFaults,      \* bound of losses, restarts, refusals and silences
    None

VARIABLES
    am,             \* the client, the tracker and their calls
    blue,           \* bluetoothd and the phone
    faults, switches

amsVars == <<am, blue, faults, switches>>

Chars == {"rc", "eu"}

\* The fields of the daemon and of the client, after those of the class:
\*   on         the feature is chosen        live      daemon.ams is not None
\*   link       _bearer_connected            ready     _bearer_ready
\*   found      characteristics_found        owned     _owned_notify_paths
\*   plan       the steps left of _run_subscription (None: not _subscribing)
\*   avail      _available                   due       _notify_refresh_due
\*   q, active  _operations, _active         listed    _commands_seen
\*   refreshes, silents, lists               the budgets of the LE link
\*   sweep      GetManagedObjects: None, "asked", or "retry"
\*   t          the timers that are armed
\* of the tracker: alive, owed, waiting (the daemon waits for the release), settled,
\* attempts; _stopping are the "release" calls, _starting the calls with a token.
\* calls: the calls under way.
Client0 ==
    [link |-> FALSE, ready |-> FALSE, found |-> FALSE, owned |-> {}, plan |-> None,
     avail |-> FALSE, due |-> FALSE, q |-> <<>>, active |-> None, listed |-> FALSE,
     refreshes |-> MaxRefreshes, silents |-> 1, lists |-> 1, sweep |-> None, t |-> {}]

Init ==
    /\ am = [on |-> TRUE, live |-> FALSE, seen |-> FALSE, alive |-> {}, owed |-> FALSE,
             waiting |-> FALSE, settled |-> FALSE, attempts |-> MaxAttempts,
             calls |-> <<>>] @@ Client0
    /\ blue = [up |-> TRUE, linked |-> FALSE, chars |-> FALSE, sessions |-> {},
               ccc |-> {}, registered |-> FALSE, list |-> FALSE]
    /\ faults = 0 /\ switches = 0

Arm(s, timer) == [s EXCEPT !.t = @ \union {timer}]
Cancel(s, timers) == [s EXCEPT !.t = @ \ timers]

Call(k, p) == [k |-> k, p |-> p, cur |-> TRUE, tok |-> k = "start", dead |-> FALSE,
               ans |-> None]
Send(s, k, p) == [s EXCEPT !.calls = Append(@, Call(k, p))]

Starting(s) == {c.p : c \in {d \in Range(s.calls) : d.tok}}
Stopping(s) == \E c \in Range(s.calls) : c.k = "release" /\ ~c.dead /\ c.cur

-----------------------------------------------------------------------------
(* The notify sessions that may still exist (AmsNotifySessions). *)

\* A release is over: the daemon that waited for it starts a client.
NewClient(s) ==
    LET fresh == Client0 @@ [s EXCEPT !.live = TRUE]
        linked == [fresh EXCEPT !.link = s.seen, !.sweep = "asked"]
    IN IF s.seen THEN Arm(linked, "settle") ELSE linked

Finish(s) ==
    LET over == Cancel([s EXCEPT !.owed = FALSE, !.waiting = FALSE], {"tsettle", "tretry"})
    IN IF s.waiting /\ s.on /\ ~s.live THEN NewClient(over) ELSE over

Release(s) ==
    [s EXCEPT !.attempts = @ - 1,
              !.calls = @ \o [i \in 1..Cardinality(s.alive) |->
                                  Call("release", SetToSeq(s.alive)[i])]]

\* Mutant: the owed StopNotify does not wait for a StartNotify under way.
AdvanceAtOnce(s) ==
    CASE ~s.owed \/ Stopping(s) -> s
      [] s.owed /\ ~Stopping(s) /\ s.alive = {} -> Finish(s)
      [] OTHER -> IF s.seen /\ s.attempts > 0 THEN Release(s) ELSE s

Advance(s) ==
    IF ~s.owed \/ Starting(s) # {} \/ Stopping(s) THEN s
    ELSE IF s.alive = {} THEN Finish(s)
    ELSE IF ~s.seen THEN s
    ELSE IF ~s.settled THEN Arm(s, "tsettle")
    ELSE IF "tretry" \in s.t THEN s
    ELSE IF s.attempts = 0 THEN IF s.waiting THEN Finish(s) ELSE s
    ELSE Release(s)

RenewAttempts(s) == [s EXCEPT !.attempts = MaxAttempts]

TrackLink(s, linked) ==
    IF ~linked THEN Cancel([s EXCEPT !.seen = FALSE, !.settled = FALSE], {"tsettle", "tretry"})
    ELSE IF s.seen THEN s
         ELSE Advance(RenewAttempts([s EXCEPT !.seen = TRUE]))

OweRelease(s, settled) ==
    Advance(RenewAttempts([s EXCEPT !.owed = TRUE, !.settled = @ \/ (settled /\ s.seen)]))

Forget(s, p) ==
    Advance([s EXCEPT !.alive = @ \ {p},
                      !.calls = [i \in DOMAIN @ |->
                                     IF @[i].p # p THEN @[i]
                                     ELSE [@[i] EXCEPT !.tok = FALSE,
                                                       !.cur = @ /\ s.calls[i].k # "release"]]])

StopAnswered(s) ==
    IF Stopping(s) THEN s
    ELSE IF s.owed /\ s.alive # {} /\ s.seen /\ s.attempts > 0 /\ "tretry" \notin s.t
         THEN Arm(s, "tretry")
         ELSE Advance(s)

ReleaseAnswered(s, p, gone) ==
    StopAnswered(IF gone THEN [s EXCEPT !.alive = @ \ {p}] ELSE s)

-----------------------------------------------------------------------------
(* The serialized operations and the subscription (AmsClient). *)

Outdated(s) ==
    [s EXCEPT !.calls = [i \in DOMAIN @ |->
                             IF @[i].k = "release" THEN @[i] ELSE [@[i] EXCEPT !.cur = FALSE]]]

ResetSubscription(s) ==
    Cancel([Outdated(s) EXCEPT !.plan = None, !.q = <<>>, !.active = None, !.avail = FALSE],
           {"retry", "first", "list", "rereg"})

ScheduleRetry(s) == IF s.live THEN Arm(s, "retry") ELSE s

\* The first call of an operation.
Run(s, op) ==
    CASE op.k = "notify" -> IF op.p \in s.owned THEN Send(s, "get", op.p)
                            ELSE Send(s, "start", op.p)
      [] op.k = "toggle" -> Send(s, "stop", op.p)
      [] op.k \in {"register", "reregister"} -> Send(s, "write", "eu")

Pump(s) ==
    IF s.active # None \/ s.q = <<>> THEN s
    ELSE Run([s EXCEPT !.active = Head(s.q), !.q = Tail(@)], Head(s.q))

Enqueue(s, k, p) == Pump([s EXCEPT !.q = Append(@, [k |-> k, p |-> p])])

NextStep(s) ==
    IF s.plan = <<>> THEN Arm([s EXCEPT !.plan = None, !.avail = TRUE], "first")
    ELSE Enqueue([s EXCEPT !.plan = Tail(@)], Head(s.plan).k, Head(s.plan).p)

RunSubscription(s) ==
    LET k == IF s.due THEN "toggle" ELSE "notify"
    IN NextStep([s EXCEPT !.due = FALSE,
                          !.plan = << [k |-> k, p |-> "rc"], [k |-> k, p |-> "eu"],
                                      [k |-> "register", p |-> "eu"] >>])

TrySubscribe(s) ==
    IF ~s.live \/ s.plan # None \/ s.avail \/ "retry" \in s.t \/ ~s.link \/ ~s.ready \/ ~s.found
    THEN s ELSE RunSubscription(s)

\* A registration without an Entity Update subscription was refused.
RequestNotifyRefresh(s, invalid) ==
    IF ~invalid \/ s.refreshes = 0 THEN s
    ELSE [s EXCEPT !.refreshes = @ - 1, !.due = TRUE]

Succeeded(s) ==
    LET op == s.active
        free == [s EXCEPT !.active = None]
    IN Pump(IF free.plan # None THEN NextStep(free) ELSE free)

Failed(s, invalid) ==
    LET op == s.active
        free == [s EXCEPT !.active = None]
        again(x) == ScheduleRetry(ResetSubscription(x))
    IN CASE op.k = "reregister" ->
                again([RequestNotifyRefresh(free, invalid) EXCEPT !.owned = {}])
         [] op.k = "register" -> again(RequestNotifyRefresh(free, invalid))
         [] op.k = "toggle" /\ s.plan = None -> again([free EXCEPT !.owned = @ \ {op.p}])
         [] OTHER -> again(free)

-----------------------------------------------------------------------------
(* Replies. *)

\* started and failed of _start_notify and _toggle_notify: the tracker hears every reply,
\* the client those of its generation.
Started(s, c) ==
    LET told == Advance(IF c.tok THEN [s EXCEPT !.alive = @ \union {c.p}] ELSE s)
        own == [told EXCEPT !.owned = @ \union {c.p}]
    IN IF c.cur THEN Succeeded(own) ELSE own

\* Mutant: an unanswered StartNotify counts as refused.
StartFailedForgotten(s, c, unanswered) ==
    IF c.cur THEN Failed(Advance(s), FALSE) ELSE Advance(s)

StartFailed(s, c, unanswered) ==
    LET told == Advance(IF c.tok /\ unanswered THEN [s EXCEPT !.alive = @ \union {c.p}] ELSE s)
    IN IF c.cur THEN Failed(told, FALSE) ELSE told

\* stopped of _toggle_notify.
ToggleStopped(s, c) ==
    LET told == Advance([s EXCEPT !.owned = @ \ {c.p}, !.alive = @ \ {c.p}])
    IN IF c.cur THEN Send(told, "start", c.p) ELSE told

Replied(s, c) ==
    CASE c.k = "release" -> IF c.cur THEN ReleaseAnswered(s, c.p, c.ans # "error") ELSE s
      [] c.k = "start" /\ c.ans = "ok" -> Started(s, c)
      [] c.k = "start" /\ c.ans # "ok" -> StartFailed(s, c, c.ans = "noreply")
      [] c.k = "stop" /\ c.ans \in {"ok", "gone"} -> ToggleStopped(s, c)
      [] c.k = "get" /\ c.cur -> IF c.ans = "ok" THEN Succeeded(s) ELSE Send(s, "start", c.p)
      [] c.k \in {"stop", "write"} /\ c.cur /\ c.ans \notin {"ok", "gone"} ->
             Failed(s, c.ans = "invalid")
      [] c.k = "write" /\ c.cur /\ c.ans = "ok" -> Succeeded(s)
      [] OTHER -> s

-----------------------------------------------------------------------------
(* bluetoothd and the phone. *)

Fault == faults < MaxFaults /\ faults' = faults + 1
NoFault == UNCHANGED faults

Undone == {i \in DOMAIN am.calls : am.calls[i].ans = None \/ am.calls[i].dead}
Oldest == CHOOSE i \in Undone : \A j \in Undone : i <= j

\* What bluetoothd answers to a call, and what becomes of its sessions and the phone.
Outcome(c) ==
    LET held == c.p \in blue.sessions
    IN CASE ~blue.chars -> [ans |-> "gone", b |-> blue]
         [] blue.chars /\ c.k = "get" -> [ans |-> IF held THEN "ok" ELSE "no", b |-> blue]
         [] blue.chars /\ c.k = "start" ->
                IF held THEN [ans |-> "ok", b |-> blue]
                ELSE IF ~blue.linked THEN [ans |-> "error", b |-> blue]
                ELSE [ans |-> "ok",
                      b |-> [blue EXCEPT !.sessions = @ \union {c.p}, !.ccc = @ \union {c.p},
                                         !.list = @ \/ c.p = "rc"]]
         [] blue.chars /\ c.k \in {"stop", "release"} ->
                IF held THEN [ans |-> "ok", b |-> [blue EXCEPT !.sessions = @ \ {c.p},
                                                               !.ccc = @ \ {c.p}]]
                ELSE [ans |-> "gone", b |-> blue]
         [] blue.chars /\ c.k = "write" ->
                IF ~blue.linked THEN [ans |-> "error", b |-> blue]
                ELSE IF "eu" \notin blue.ccc THEN [ans |-> "invalid", b |-> blue]
                ELSE [ans |-> "ok", b |-> [blue EXCEPT !.registered = TRUE]]

\* A call that timed out is forgotten once it is handled.
Answered(i, ans) ==
    IF am.calls[i].dead THEN [am EXCEPT !.calls = RemoveAt(@, i)]
    ELSE [am EXCEPT !.calls[i].ans = ans]

BluezHandles ==
    /\ blue.up /\ Undone # {}
    /\ LET out == Outcome(am.calls[Oldest])
       IN \/ /\ am' = Answered(Oldest, out.ans) /\ blue' = out.b /\ NoFault
          \/ /\ am' = Answered(Oldest, "error") /\ Fault /\ UNCHANGED blue
    /\ UNCHANGED switches

Reply ==
    /\ am.calls # <<>> /\ Head(am.calls).ans # None /\ ~Head(am.calls).dead
    /\ am' = Replied([am EXCEPT !.calls = Tail(@)], Head(am.calls))
    /\ NoFault /\ UNCHANGED <<blue, switches>>

\* The oldest call is not answered in time, though bluetoothd may still handle it.
CallTimeout ==
    /\ am.calls # <<>> /\ Head(am.calls).ans = None /\ ~Head(am.calls).dead /\ Fault
    /\ LET late == [Head(am.calls) EXCEPT !.ans = "noreply", !.dead = TRUE,
                                          !.cur = FALSE, !.tok = FALSE]
           c == [Head(am.calls) EXCEPT !.ans = IF @ = None /\ Head(am.calls).k = "start"
                                               THEN "noreply" ELSE "error"]
       IN am' = Replied([am EXCEPT !.calls[1] = late], c)
    /\ UNCHANGED <<blue, switches>>

\* At link-up BlueZ re-enables the CCCs of its sessions, or says so and does not (after a
\* drop that was observed: of one that was not, nothing would tell the client).
LinkUp ==
    /\ blue.up /\ ~blue.linked
    /\ \/ blue' = [blue EXCEPT !.linked = TRUE, !.ccc = blue.sessions,
                               !.list = "rc" \in blue.sessions] /\ NoFault
       \/ blue' = [blue EXCEPT !.linked = TRUE] /\ blue.sessions # {} /\ ~am.seen
          /\ Fault
    /\ UNCHANGED <<am, switches>>

LinkDown ==
    /\ blue.linked /\ Fault
    /\ blue' = [blue EXCEPT !.linked = FALSE, !.ccc = {}, !.registered = FALSE, !.list = FALSE]
    /\ UNCHANGED <<am, switches>>

\* A drop too short to be observed: the CCCs come back, the registrations do not.
LinkBlinks ==
    /\ blue.linked /\ am.seen /\ Fault
    /\ blue' = [blue EXCEPT !.ccc = blue.sessions, !.registered = FALSE,
                            !.list = "rc" \in blue.sessions]
    /\ UNCHANGED <<am, switches>>

FoundAll(s) == TrySubscribe([s EXCEPT !.found = TRUE])

ForgetCharacteristics(s) ==
    [s EXCEPT !.found = FALSE, !.owned = {}, !.listed = FALSE]

CharsAppear ==
    /\ blue.up /\ blue.linked /\ ~blue.chars
    /\ blue' = [blue EXCEPT !.chars = TRUE]
    /\ am' = IF am.live /\ am.sweep # "asked" THEN FoundAll(am) ELSE am
    /\ NoFault /\ UNCHANGED switches

\* The calls on an object that goes are answered with an error of their own.
Orphaned(s) ==
    [s EXCEPT !.calls = LET left == SelectSeq(@, LAMBDA c : ~c.dead)
                        IN [i \in DOMAIN left |->
                                IF left[i].ans = None THEN [left[i] EXCEPT !.ans = "gone"]
                                ELSE left[i]]]

\* InterfacesRemoved is heard by a client only.
CharsVanish ==
    /\ blue.chars /\ Fault
    /\ blue' = [blue EXCEPT !.chars = FALSE, !.sessions = {}, !.ccc = {},
                            !.registered = FALSE, !.list = FALSE]
    /\ am' = LET gone == Orphaned(am)
             IN IF am.live /\ am.found
                THEN ResetSubscription(ForgetCharacteristics(Forget(Forget(gone, "rc"), "eu")))
                ELSE gone
    /\ UNCHANGED switches

OwnerLost(s) ==
    LET clear == [s EXCEPT !.alive = {}, !.calls = <<>>, !.seen = FALSE, !.settled = FALSE]
        told == Advance(Cancel(clear, {"tsettle", "tretry"}))
        reset == Cancel(ResetSubscription([told EXCEPT !.ready = FALSE, !.link = FALSE]),
                        {"settle", "manager"})
    IN IF s.live THEN [ForgetCharacteristics(reset) EXCEPT !.sweep = None] ELSE told

BluezLost ==
    /\ blue.up /\ Fault
    /\ blue' = [blue EXCEPT !.up = FALSE, !.linked = FALSE, !.chars = FALSE, !.sessions = {},
                            !.ccc = {}, !.registered = FALSE, !.list = FALSE]
    /\ am' = OwnerLost(am)
    /\ UNCHANGED switches

BluezReturns ==
    /\ ~blue.up
    /\ blue' = [blue EXCEPT !.up = TRUE]
    /\ am' = IF am.live THEN [am EXCEPT !.sweep = "asked"] ELSE am
    /\ NoFault /\ UNCHANGED switches

\* The object sweep of _bind_manager is answered, or fails and is repeated.
Sweep ==
    /\ am.sweep = "asked" /\ blue.up
    /\ LET done == [am EXCEPT !.sweep = None]
       IN \/ /\ am' = IF blue.chars /\ ~am.found THEN FoundAll(done) ELSE done
             /\ NoFault
          \/ am' = Arm(done, "manager") /\ Fault
    /\ UNCHANGED <<blue, switches>>

\* The bearer supervisor reports the LE link to the tracker and to the client.
ObserveBearerState(s, linked) ==
    LET told == TrackLink(s, linked)
        lost == ResetSubscription([Cancel(told, {"settle"}) EXCEPT !.link = FALSE,
                                                                    !.ready = FALSE])
        back == Arm([told EXCEPT !.link = TRUE, !.refreshes = MaxRefreshes, !.silents = 1,
                                 !.lists = 1], "settle")
    IN CASE ~s.live -> told
         [] s.live /\ ~linked -> lost
         [] s.live /\ linked -> IF s.link THEN told ELSE back

Observe ==
    /\ am.seen # blue.linked
    /\ am' = ObserveBearerState(am, blue.linked)
    /\ NoFault /\ UNCHANGED <<blue, switches>>

NotificationsFlow(s) == Cancel(s, {"first"})

\* Remote Command notifies its command list: the CCC may have been restored.
CommandList ==
    /\ blue.list /\ "rc" \in blue.ccc
    /\ blue' = [blue EXCEPT !.list = FALSE]
    /\ am' = IF ~am.live \/ ~am.found THEN am
             ELSE LET known == Cancel(NotificationsFlow([am EXCEPT !.listed = TRUE]), {"list"})
                  IN IF am.avail /\ am.plan = None /\ am.link THEN Arm(known, "rereg")
                     ELSE known
    /\ NoFault /\ UNCHANGED switches

\* Entity Update notifies a value.
EntityUpdate ==
    /\ blue.registered /\ "eu" \in blue.ccc /\ am.live /\ am.found /\ am.link
    /\ am' = LET flows == NotificationsFlow(am)
             IN IF am.listed \/ am.lists = 0 \/ ~am.avail THEN flows
                ELSE Arm(flows, "list")
    /\ NoFault /\ UNCHANGED <<blue, switches>>

-----------------------------------------------------------------------------
(* Timers and the switch. *)

Expires(timer) == timer \in am.t /\ UNCHANGED <<blue, switches>>
Fires(timer) == Expires(timer) /\ NoFault

SettleTimer ==
    /\ Fires("settle")
    /\ am' = LET gone == Cancel(am, {"settle"})
             IN IF am.live /\ am.link THEN TrySubscribe([gone EXCEPT !.ready = TRUE]) ELSE gone

RetryTimer ==
    /\ Fires("retry")
    /\ am' = TrySubscribe(Cancel(am, {"retry"}))

\* Registered and silent: ask BlueZ for the notify sessions again, once per link.  A
\* phone that has something to send and is as slow as that is a fault.
FirstUpdateTimer ==
    /\ Expires("first")
    /\ IF blue.list \/ blue.registered THEN Fault ELSE NoFault
    /\ am' = LET gone == Cancel(am, {"first"})
             IN IF ~am.avail \/ am.silents = 0 THEN gone
                ELSE ScheduleRetry(ResetSubscription([gone EXCEPT !.silents = @ - 1,
                                                                  !.owned = {}]))

ReregisterTimer ==
    /\ Fires("rereg")
    /\ am' = LET gone == Cancel(am, {"rereg"})
             IN IF am.avail /\ am.plan = None /\ am.link /\ am.found
                THEN Enqueue(gone, "reregister", "eu") ELSE gone

CommandListTimer ==
    /\ Fires("list")
    /\ am' = LET gone == Cancel(am, {"list"})
             IN IF /\ ~am.listed /\ am.avail /\ am.plan = None /\ am.link /\ am.lists > 0
                   /\ "rc" \in am.owned
                THEN Enqueue([gone EXCEPT !.lists = @ - 1], "toggle", "rc") ELSE gone

ManagerTimer ==
    /\ Fires("manager")
    /\ am' = LET gone == Cancel(am, {"manager"})
             IN IF am.live THEN [gone EXCEPT !.sweep = "asked"] ELSE gone

TrackerSettleTimer ==
    /\ Fires("tsettle")
    /\ am' = LET gone == Cancel(am, {"tsettle"})
             IN IF am.seen THEN Advance([gone EXCEPT !.settled = TRUE]) ELSE gone

TrackerRetryTimer ==
    /\ Fires("tretry")
    /\ am' = Advance(Cancel(am, {"tretry"}))

StopClient(s) ==
    LET quiet == Cancel([s EXCEPT !.live = FALSE, !.ready = FALSE], {"settle", "manager"})
    IN IF s.live THEN [ForgetCharacteristics(ResetSubscription(quiet)) EXCEPT !.sweep = None]
       ELSE s

OptOut ==
    /\ am.on /\ switches < MaxSwitches
    /\ switches' = switches + 1
    /\ am' = OweRelease([StopClient(am) EXCEPT !.on = FALSE], am.live /\ am.ready)
    /\ NoFault /\ UNCHANGED blue

\* _start_media: at the start of the daemon, and when the feature is chosen again.
StartMedia(s) ==
    IF ~s.owed THEN NewClient(s)
    ELSE Advance([s EXCEPT !.waiting = TRUE,
                           !.attempts = IF @ = 0 THEN MaxAttempts ELSE @])

OptIn ==
    /\ ~am.live /\ ~am.waiting
    /\ am' = StartMedia([am EXCEPT !.on = TRUE])
    /\ NoFault /\ UNCHANGED <<blue, switches>>

Next ==
    \/ BluezHandles \/ Reply \/ CallTimeout \/ LinkUp \/ LinkDown \/ LinkBlinks
    \/ CharsAppear \/ CharsVanish \/ BluezLost \/ BluezReturns \/ Sweep \/ Observe
    \/ CommandList \/ EntityUpdate \/ SettleTimer \/ RetryTimer \/ FirstUpdateTimer
    \/ ReregisterTimer \/ CommandListTimer \/ ManagerTimer \/ TrackerSettleTimer
    \/ TrackerRetryTimer \/ OptOut \/ OptIn

SafetySpec == Init /\ [][Next]_amsVars

\* bluetoothd answers, comes back and reconnects; the phone notifies; timers fire.  The
\* user need not opt in again.
FairStep(k) ==
    CASE k = 1 -> BluezHandles [] k = 2 -> Reply [] k = 3 -> LinkUp [] k = 4 -> CharsAppear
      [] k = 5 -> BluezReturns [] k = 6 -> Sweep [] k = 7 -> Observe [] k = 8 -> CommandList
      [] k = 9 -> EntityUpdate [] k = 10 -> SettleTimer [] k = 11 -> RetryTimer
      [] k = 12 -> FirstUpdateTimer [] k = 13 -> ReregisterTimer
      [] k = 14 -> CommandListTimer [] k = 15 -> ManagerTimer
      [] k = 16 -> TrackerSettleTimer [] k = 17 -> TrackerRetryTimer
      [] k = 18 -> OptIn /\ am.on [] OTHER -> FALSE

Fairness == \A k \in 1 .. 18 : WF_amsVars(FairStep(k))

Spec == SafetySpec /\ Fairness

-----------------------------------------------------------------------------
(* Properties. *)

\* bluetoothd holds no notify session the tracker has lost sight of: a session that it
\* does not know it will not stop at an opt-out, though its StartNotify was answered
\* late, by nobody, or after the client was gone (AmsNotifySessions).
SessionsKnown ==
    blue.sessions \subseteq am.alive \union Starting(am)
                            \union {c.p : c \in {d \in Range(am.calls) : d.k = "stop"}}

Registered == am.avail /\ blue.registered /\ "eu" \in blue.ccc
Silent == blue.sessions = {} /\ ~am.owed

\* The choice of the user is reached: opted in, the phone has the client's subscription
\* and registration; opted out, no session is left on which it would go on sending.
MediaFollowsChoice ==
    /\ <>[]am.on => <>[]Registered
    /\ <>[]~am.on => <>[]Silent

=============================================================================
