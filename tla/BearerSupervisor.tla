-------------------------- MODULE BearerSupervisor --------------------------
(***************************************************************************)
(* The supervisor of the iPhone's two bearers, Classic ("bredr") and LE:   *)
(* class BearerSupervisor of src/src/blueferry/bearer_supervisor.py, with  *)
(* its budget (le_recovery_budget.py), the cache of BlueZ observations it  *)
(* reads (bluez_reads.py), the solicitation it silences while it dials     *)
(* (module Solicitation), and the calls the daemon makes of it.            *)
(*                                                                         *)
(* A handler runs to its end on the main loop and calls many methods, each *)
(* of which may leave early; so a method is an operator from one state of  *)
(* the supervisor to the next, and an action applies one handler to sv.    *)
(*                                                                         *)
(* Time is abstracted to windows: a deadline is ahead or has passed, and   *)
(* an action lets it pass.  Whether a link has been up for                 *)
(* STABLE_CONNECTION_SECONDS is a choice of the step that asks.  A         *)
(* generation and a request's serial number are compared for equality      *)
(* only, so a call under way records whether it is still the current one.  *)
(* The report of a suspected stale bond (_le_flaps and what feeds it) has  *)
(* no effect on the connections and is left out.                           *)
(***************************************************************************)
EXTENDS Naturals, Handlers, Solicitation

CONSTANTS
    MaxTrouble,     \* bound of losses, restarts, requests and faults, by build
    RestingAfter,   \* CLASSIC_RESTING_AFTER_FAILURES
    Builds,         \* what BlueZ offers: bearer interfaces with their signals
                    \* ("signals"), without ("polled": the watches could not be
                    \* installed), or no bearer interface at all ("legacy")
    None

Kinds == {"bredr", "le"}

\* None is none of the values it stands in for.
ASSUME BearerAssumption ==
    /\ None \notin {"disconnecting", "settling"}
    /\ None \notin [targeted : BOOLEAN, wait : {"reply", "observation", "overdue"}]

VARIABLES
    sv,         \* the supervisor, with its outstanding calls and BlueZ's PreferredBearer
    link,       \* the links there really are
    build,      \* the BlueZ that runs
    near,       \* the phone answers
    weather,    \* "fine", "blocked" (bluetoothd does not answer), "busy" (a profile call
                \* runs) or "unset" (PreferredBearer cannot be set)
    trouble

vars == <<sv, link, build, near, weather, trouble>>
world == <<link, build, near, weather, trouble>>

Blocked == weather = "blocked"
ProfileBusy == weather = "busy"

\* A request is [targeted, wait]: whether it names its transport, and what it waits for:
\* "reply", or after InProgress an "observation", which may be "overdue".
\* A call is [op, kind, current, done]: "connect" or "disconnect" of a bearer or the
\* "device", whether its reply is still the supervisor's, and whether BlueZ has carried
\* it out.

both(v) == [k \in Kinds |-> v]

\* The supervisor before start().  Its fields, after those of the class:
\*   enabled     _le_enabled: outbound LE is allowed      api     _le_api_available
\*   req         a bearer's request (_connecting and what goes with it), or None
\*   settle      the LE settle timer is armed
\*   hint, spent, restore   _le_targeting_hint, _le_dial_spent and
\*               _le_preference_restore_pending
\*   pending, downSeen, resetFailed, resetQuiet   the LE reset, its failure and the pause
\*               after that; wanted: a reset the budget refused (_le_reset_wanted)
\*   st, cache   _states, and what the cached properties of the bearers say
\*   failures    of Classic; quiet: _next_attempt lies ahead
\*   forgive     _le_dwell_should_forgive_classic
\*   resting, remoteClosed, sighted   Classic rests, the phone closed it, a fresh RSSI
\*   manual      a manual dial is queued                  phase   _profile_reset_phase
\*   budgetQuiet the recovery budget refuses
\*   calls, pref BlueZ's: calls not yet answered, PreferredBearer
\*   adv         the solicitation

InitSupervisor ==
    [running |-> FALSE, enabled |-> FALSE, api |-> "unknown",
     req |-> both(None), disconnecting |-> FALSE, settle |-> FALSE,
     hint |-> FALSE, spent |-> FALSE, restore |-> FALSE,
     pending |-> FALSE, downSeen |-> FALSE, resetFailed |-> FALSE, resetQuiet |-> FALSE,
     wanted |-> None,
     st |-> both("unknown"), cache |-> both("unknown"),
     failures |-> 0, quiet |-> both(FALSE), forgive |-> FALSE,
     resting |-> FALSE, remoteClosed |-> FALSE, sighted |-> FALSE, manual |-> FALSE,
     phase |-> None, budgetQuiet |-> FALSE,
     calls |-> {}, pref |-> "bredr", adv |-> InitSolicitation]

-----------------------------------------------------------------------------
(* Questions of the supervisor's state. *)

Connecting(s, k) == s.req[k] # None
Dialing(s) == \E k \in Kinds : Connecting(s, k)

\* _classic_connect_should_be_targeted
Targeted(s) == s.hint \/ s.st["le"] = "up"

\* What keeps every connection call waiting for a later poll.
Owned(s) == Blocked \/ s.phase # None \/ ProfileBusy

\* _le_dial_exhausted: the one dial is spent and the phone can come by itself.
DialExhausted(s) == s.spent /\ s.adv.advert = "on"

PeerPresent(s) == s.st["bredr"] = "up" \/ Targeted(s) \/ s.sighted

\* legacy_connected: the device is connected, over a bearer BlueZ cannot name.
LegacyConnected(s) == s.api = "no" /\ s.cache["le"] = "up"

\* busy, and can_change_profiles, which profile callers ask first.
Busy(s) == Dialing(s) \/ s.disconnecting \/ s.phase # None \/ ProfileBusy
CanChangeProfiles(s) ==
    s.running /\ ~Blocked /\ ~Busy(s) /\ ~s.pending /\ ~s.manual

-----------------------------------------------------------------------------
(* LeRecoveryBudget: after every attempt it refuses the next one for a while, the longer
   the more attempts its window holds; proven health may end that earlier
   (observe_health).  Both only move the end of the refusal. *)

BudgetAllows(s) == ~s.budgetQuiet

\* take(), once it is allowed.
Take(s) == [s EXCEPT !.budgetQuiet = TRUE]

-----------------------------------------------------------------------------
(* Small steps several handlers share. *)

CancelSettle(s) == [s EXCEPT !.settle = FALSE]

\* A variant of it: the end of a dial is not told.
SetDialActiveOnly(s, active) == IF active THEN [s EXCEPT !.adv = SetDialing(@, active)] ELSE s

\* _set_le_dial_active: the solicitation follows the dial.
SetDialActive(s, active) == [s EXCEPT !.adv = SetDialing(@, active)]

\* Replies of these calls are no longer anybody's.
Disown(s, Which(_)) ==
    [s EXCEPT !.calls =
        {IF Which(c) THEN [c EXCEPT !.current = FALSE, !.done = TRUE] ELSE c : c \in @}]

ClearConnectRequest(s, k) ==
    LET Which(c) == c.op = "connect" /\ c.kind = k
    IN  [Disown(s, Which) EXCEPT !.req[k] = None]

Send(s, op, kind) ==
    [s EXCEPT !.calls =
        @ \cup {[op |-> op, kind |-> kind, current |-> TRUE, done |-> FALSE]}]

RearmLeDial(s) == [s EXCEPT !.spent = FALSE, !.quiet["le"] = FALSE]

EnterResting(s) == [s EXCEPT !.resting = TRUE, !.quiet["bredr"] = TRUE]

NotePresence(s) ==
    LET seen == [s EXCEPT !.remoteClosed = FALSE]
    IN  IF s.resting THEN [seen EXCEPT !.resting = FALSE, !.quiet["bredr"] = FALSE]
        ELSE seen

\* _record_failure: one more attempt without a connection widens the quiet window, and
\* with no sign of the phone Classic rests.
RecordFailure(s, k) ==
    IF k = "le" THEN [s EXCEPT !.quiet["le"] = TRUE]
    ELSE LET counted == [s EXCEPT !.failures = IF @ < RestingAfter THEN @ + 1 ELSE @,
                                  !.quiet["bredr"] = TRUE]
             threshold == IF s.remoteClosed THEN 1 ELSE RestingAfter
         IN  IF counted.failures >= threshold /\ ~PeerPresent(counted)
             THEN EnterResting(counted) ELSE counted

\* _restore_le_preference
RestorePreference(s) ==
    IF \/ ~s.restore \/ ~s.enabled \/ Owned(s) \/ Targeted(s) \/ Dialing(s)
       \/ s.disconnecting \/ weather = "unset"
    THEN s
    ELSE [s EXCEPT !.pref = "le", !.restore = FALSE]

\* _schedule_le_connect
ScheduleLeConnect(s) ==
    IF s.api = "no" \/ Owned(s) \/ s.disconnecting \/ DialExhausted(s)
    THEN s
    ELSE [s EXCEPT !.settle = TRUE]

-----------------------------------------------------------------------------
(* Dialling.  _connect_failed with an ordinary error, which a refused
   PreferredBearer reaches from inside _request_connect. *)

ConnectRefused(s, k) ==
    LET cleared == ClearConnectRequest(s, k)
        quietened == IF k = "le" THEN SetDialActive(cleared, FALSE) ELSE cleared
    IN  IF k = "le" /\ ~s.enabled
        THEN [quietened EXCEPT !.spent = FALSE]
        ELSE RecordFailure(quietened, k)

\* The early returns of _request_connect.
MayConnect(s, k) ==
    /\ ~Owned(s) /\ ~s.disconnecting /\ ~Dialing(s) /\ ~s.quiet[k]
    /\ k = "bredr" => ~(s.enabled /\ s.st["le"] = "unknown" /\ ~Targeted(s))
    /\ k = "le" => ~DialExhausted(s) /\ BudgetAllows(s)

\* _request_connect: an untyped Classic connect takes PreferredBearer first, an LE dial
\* silences the solicitation.
RequestConnect(s, k) ==
    IF ~MayConnect(s, k) THEN s
    ELSE LET targeted == k = "bredr" /\ Targeted(s)
             begun == [(IF k = "le" THEN [Take(s) EXCEPT !.spent = TRUE] ELSE s)
                        EXCEPT !.req[k] = [targeted |-> targeted, wait |-> "reply"]]
         IN  IF k = "le" THEN Send(SetDialActive(begun, TRUE), "connect", "le")
             ELSE IF targeted THEN Send(begun, "connect", "bredr")
             ELSE IF weather = "unset" THEN ConnectRefused(begun, "bredr")
             ELSE Send([begun EXCEPT !.pref = "bredr", !.restore = TRUE],
                       "connect", "bredr")

\* _retarget_pending_classic_connect
Retarget(s) ==
    IF ~Connecting(s, "bredr") \/ s.req["bredr"].targeted THEN s
    ELSE RequestConnect([ClearConnectRequest(s, "bredr") EXCEPT !.quiet["bredr"] = FALSE],
                        "bredr")

-----------------------------------------------------------------------------
(* Observing a bearer. *)

\* _settle_in_progress_connect
SettleInProgress(s, k, v) ==
    IF ~Connecting(s, k) \/ s.req[k].wait = "reply"
       \/ (v # "up" /\ s.req[k].wait = "observation")
    THEN s
    ELSE LET cleared == ClearConnectRequest(s, k)
             quietened == IF k = "le" THEN SetDialActive(cleared, FALSE) ELSE cleared
         IN  IF v = "up" THEN quietened ELSE RecordFailure(quietened, k)

\* _clear_backoff_if_stable
ClearBackoff(s, k) ==
    LET cleared == [s EXCEPT !.quiet[k] = FALSE,
                             !.failures = IF k = "bredr" THEN 0 ELSE @]
    IN  IF k = "le" /\ s.forgive
        THEN [cleared EXCEPT !.failures = 0, !.quiet["bredr"] = FALSE, !.forgive = FALSE]
        ELSE cleared

\* The first half of _update_state: the state itself and the flags that follow it.
StoreState(s, k, v) ==
    LET prev == s.st[k]
        stored == [s EXCEPT !.st[k] = v]
    IN  IF k = "bredr" THEN stored
        ELSE [stored EXCEPT
                !.downSeen = @ \/ (v = "down" /\ s.pending),
                !.wanted = IF v = "down" /\ prev = "up" THEN None ELSE @,
                !.hint = (v = "up") \/ (@ /\ v = "unknown")]

\* Fresh evidence of the phone re-arms the LE dial and ends resting.
ApplyEvidence(s, k, prev, v) ==
    LET rearmed ==
            IF \/ k = "bredr" /\ prev = "down" /\ v = "up" /\ s.st["le"] # "up"
               \/ k = "le" /\ prev = "up" /\ v = "down"
            THEN RearmLeDial(s) ELSE s
    IN  IF v = "up" /\ prev # "up" THEN NotePresence(rearmed) ELSE rearmed

\* _connected_since and the backoff it forgives.  For LE _connected_since is set just
\* while the targeting hint is.
Age(s, k, prev, v, stable, hinted) ==
    CASE k = "le" /\ v = "up" /\ ~hinted ->
            [s EXCEPT !.forgive = s.failures > 0 \/ s.quiet["bredr"]]
      [] v = "up" /\ prev = "up" /\ stable -> ClearBackoff(s, k)
      [] k = "le" /\ v = "down" -> [s EXCEPT !.forgive = FALSE]
      [] OTHER -> s

\* on_le_state, the daemon's _observe_le_state: without LE the solicitation is needed.
PublishLe(s, v) ==
    IF v # "up" /\ ~LegacyConnected(s) THEN [s EXCEPT !.adv = SetNeeded(@, TRUE)] ELSE s

\* _update_state
UpdateState(s, k, v, stable) ==
    LET Observe(settled) ==
            LET prev == settled.st[k]
                Grow(shown) == Age(shown, k, prev, v, stable, settled.hint)
                Tell(aged) == IF k = "le" /\ prev # v THEN PublishLe(aged, v) ELSE aged
            IN  Then(Then(ApplyEvidence(StoreState(settled, k, v), k, prev, v), Grow), Tell)
        Redial(told) == IF k = "le" /\ v = "up" THEN Retarget(told) ELSE told
    IN  Then(Then(SettleInProgress(s, k, v), Observe), Redial)

\* What _connected_property makes of the cached properties: without the bearer interfaces
\* it has the device's state only, which may rule LE out and never proves it.
ReadValue(s, k) ==
    IF k = "le" /\ build = "legacy" /\ s.cache["le"] = "up" THEN "unknown" ELSE s.cache[k]

\* _read: a read of LE also tells whether its interface exists.
Read(s, k) ==
    IF k = "bredr" \/ s.cache["le"] = "unknown" THEN s
    ELSE [s EXCEPT !.api = IF build = "legacy" THEN "no" ELSE "yes"]

ObserveBearer(s, k, stable) == UpdateState(Read(s, k), k, ReadValue(s, k), stable)

\* _refresh_states
RefreshStates(s, stable) ==
    LET ObserveLe(seen) == ObserveBearer(seen, "le", stable)
    IN  Then(ObserveBearer(s, "bredr", stable), ObserveLe)

-----------------------------------------------------------------------------
(* Resetting the LE bearer. *)

\* _request_le_disconnect.  A retry of a failed reset is paid for again.
RequestLeDisconnect(s, force) ==
    IF \/ s.api = "no" \/ Owned(s) \/ s.disconnecting
       \/ ~force /\ (\/ Connecting(s, "le") \/ s.resetQuiet
                     \/ s.resetFailed /\ ~BudgetAllows(s))
    THEN s
    ELSE LET paid == IF ~force /\ s.resetFailed THEN Take(s) ELSE s
         IN  Send([paid EXCEPT !.disconnecting = TRUE], "disconnect", "le")

DialAfterReset(s) ==
    IF s.st["bredr"] = "up" /\ s.enabled /\ s.st["le"] # "up" THEN ScheduleLeConnect(s) ELSE s

\* _complete_le_reset: without an observation of the drop, the completion stands for it.
CompleteLeReset(s) ==
    LET closed == [s EXCEPT !.pending = FALSE, !.downSeen = FALSE, !.resetFailed = FALSE,
                            !.resetQuiet = FALSE]
    IN  Then(IF s.pending /\ s.downSeen THEN closed
             ELSE UpdateState([closed EXCEPT !.cache["le"] = "unknown"],
                              "le", "down", FALSE), DialAfterReset)

\* recover_le_transport.  A reset the budget refuses stays wanted, unless the caller only
\* asks for one since an outage that has had its reset (recent).
RecoverLe(s, allowDisconnected, recent) ==
    LET asked == [s EXCEPT !.wanted = None]
        refused == [s EXCEPT !.wanted =
                        IF recent THEN @
                        ELSE IF allowDisconnected \/ @ = "any" THEN "any" ELSE "link"]
        paid == IF s.pending THEN asked
                ELSE [Take(asked) EXCEPT !.downSeen = FALSE]
        begun == CancelSettle([paid EXCEPT !.spent = FALSE, !.pending = TRUE])
    IN  IF \/ ~s.running \/ s.api = "no" \/ s.phase # None
           \/ s.st["le"] = "down" /\ ~allowDisconnected
        THEN asked
        ELSE IF ~s.pending /\ ~BudgetAllows(s) THEN refused
        ELSE IF s.enabled THEN RequestLeDisconnect(begun, FALSE) ELSE begun

\* hold_le: an outbound dial under way is cancelled once.
HoldLe(s) ==
    LET held == CancelSettle([s EXCEPT !.enabled = FALSE])
    IN  IF Connecting(s, "le") THEN RequestLeDisconnect(held, TRUE) ELSE held

-----------------------------------------------------------------------------
(* The health check and the settle timer. *)

\* The end of _tick: Classic first, then LE beside it.
DialMissing(s, bredr, le) ==
    LET s1 == IF bredr # "up" THEN CancelSettle(s) ELSE s
    IN  IF bredr = "down" THEN RequestConnect(s1, "bredr")
        ELSE IF bredr = "up" /\ le = "down" /\ s1.enabled
        THEN LET s2 == RestorePreference(s1)
             IN  IF Connecting(s2, "bredr") THEN s2 ELSE ScheduleLeConnect(s2)
        ELSE IF le = "up" THEN CancelSettle(s1)
        ELSE s1

\* _tick
TickState(s, stable) ==
    LET bredr == ReadValue(s, "bredr")
        le == ReadValue(s, "le")
        Dial(ready) == DialMissing(ready, bredr, le)
        Act(asked) ==
            IF asked.disconnecting THEN asked
            ELSE IF ~(asked.pending /\ asked.enabled) THEN Dial(asked)
            ELSE CASE le = "down" -> Then(CompleteLeReset(asked), Dial)
                   [] le = "up" -> RequestLeDisconnect(asked, FALSE)
                   [] OTHER -> asked
        Proceed(seen) ==
            IF seen.phase # None \/ ProfileBusy \/ seen.disconnecting THEN seen
            ELSE IF seen.wanted = None THEN Act(seen)
            ELSE Then(RecoverLe(seen, seen.wanted = "any", FALSE), Act)
    IN  IF ~s.running \/ Blocked THEN s ELSE Then(RefreshStates(s, stable), Proceed)

\* _connect_le_after_settle
LeSettledState(s, stable) ==
    LET fired == [s EXCEPT !.settle = FALSE]
        bredr == ReadValue(s, "bredr")
        Dial(seen) ==
            IF bredr = "up" /\ ReadValue(s, "le") = "down" /\ seen.enabled /\ seen.api # "no"
            THEN RequestConnect(RestorePreference(seen), "le")
            ELSE IF bredr = "down" THEN RequestConnect(seen, "bredr")
            ELSE seen
    IN  IF ~s.running \/ Owned(s) THEN fired ELSE Then(RefreshStates(fired, stable), Dial)

\* enable_le
EnableLeState(s, stable) ==
    LET on == [s EXCEPT !.enabled = TRUE]
        Check(ready) == TickState(ready, stable)
    IN  Then(IF s.st["le"] = "up" THEN on
             ELSE RestorePreference([on EXCEPT !.restore = TRUE]), Check)

\* What reset_after_bluez_restart and stop() both forget.
Forget(s) ==
    LET All(c) == TRUE
    IN  SetDialActive(
          CancelSettle(
            [Disown(s, All) EXCEPT
                !.req = both(None), !.disconnecting = FALSE, !.hint = FALSE,
                !.restore = FALSE, !.spent = FALSE, !.pending = FALSE, !.wanted = None,
                !.remoteClosed = FALSE, !.resting = FALSE, !.sighted = FALSE,
                !.phase = None]), FALSE)

\* Mutant: the requests of the previous bluetoothd are remembered.
ForgottenKeepingRequests(s) ==
    [Forget(s) EXCEPT
        !.api = "unknown", !.resetFailed = FALSE, !.resetQuiet = FALSE, !.req = s.req,
        !.st = both("unknown"), !.failures = 0, !.quiet = both(FALSE), !.forgive = FALSE]

\* The fields reset_after_bluez_restart resets.
Forgotten(s) ==
    [Forget(s) EXCEPT
        !.api = "unknown", !.resetFailed = FALSE, !.resetQuiet = FALSE,
        !.st = both("unknown"), !.failures = 0, !.quiet = both(FALSE), !.forgive = FALSE]

\* reset_after_bluez_restart, as the daemon calls it: hold_le comes first.
ResetState(s, stable) ==
    LET Check(told) == TickState(told, stable)
    IN  Then(PublishLe(Forgotten(HoldLe(s)), "unknown"), Check)

-----------------------------------------------------------------------------
(* Replies. *)

\* _connect_request_is_current, and the generation every other reply compares.
IsCurrent(c) == c.current

\* _connect_succeeded: accepted is not connected, so the quiet window still widens.
ConnectSucceeded(s, k) ==
    LET cleared == ClearConnectRequest(s, k)
        told == IF k = "le" THEN SetDialActive(cleared, FALSE)
                ELSE RestorePreference(cleared)
    IN  RecordFailure(told, k)

\* _connect_failed: AlreadyConnected.  An untyped connect may mean LE only; then either
\* the observation of LE supersedes the request, or it failed.
AlreadyConnected(s, k, stable) ==
    LET AfterLe(seen) == IF Connecting(seen, "bredr") /\ ~seen.req["bredr"].targeted
                         THEN ConnectRefused(seen, k) ELSE seen
        AfterClassic(seen) == IF ReadValue(s, "bredr") = "up" THEN ConnectSucceeded(seen, k)
                              ELSE Then(ObserveBearer(seen, "le", stable), AfterLe)
    IN  IF k = "le" \/ s.req["bredr"].targeted THEN ConnectSucceeded(s, k)
        ELSE Then(ObserveBearer(s, "bredr", stable), AfterClassic)

\* Mutant: InProgress sets no deadline.
StillInProgressForever(s, k) == s

\* _connect_failed: InProgress leaves the attempt to an observation.
StillInProgress(s, k) ==
    [s EXCEPT !.req[k].wait = IF @ = "reply" THEN "observation" ELSE @]

ConnectAnswered(s, k, outcome, stable) ==
    CASE outcome = "ok" -> ConnectSucceeded(s, k)
      [] outcome = "inprogress" -> StillInProgress(s, k)
      [] outcome = "already" -> AlreadyConnected(s, k, stable)
      [] outcome = "failed" -> ConnectRefused(s, k)

\* _disconnect_succeeded and _disconnect_failed; NotConnected counts as success.
DisconnectAnswered(s, outcome) ==
    LET free == [s EXCEPT !.disconnecting = FALSE]
    IN  IF ~s.pending THEN free
        ELSE IF outcome = "ok" THEN CompleteLeReset(free)
        ELSE [free EXCEPT !.resetFailed = TRUE, !.resetQuiet = TRUE]

\* Mutant: a device disconnect that succeeds leaves the phase for a timer to end.
DeviceDisconnectStuck(s, outcome) ==
    IF s.phase # "disconnecting" THEN s
    ELSE [s EXCEPT !.wanted = None, !.phase = IF outcome = "ok" THEN @ ELSE None]

\* _profile_reset_disconnected and _profile_reset_disconnect_failed
DeviceDisconnectAnswered(s, outcome) ==
    IF s.phase # "disconnecting" THEN s
    ELSE IF outcome = "ok" THEN [s EXCEPT !.wanted = None, !.phase = "settling"]
    ELSE [s EXCEPT !.phase = None]

Unsend(s, c) == [s EXCEPT !.calls = @ \ {c}]

\* Outcomes BlueZ may give c; a fault costs trouble.
Fault == trouble < MaxTrouble[build] /\ trouble' = trouble + 1
NoFault == trouble' = trouble

\* Device1.Connect finds the device connected over either bearer.
Already(c) ==
    IF c.kind = "bredr" /\ c.current /\ ~sv.req["bredr"].targeted
    THEN link["bredr"] \/ link["le"] ELSE link[c.kind]

Outcome(c, outcome) ==
    IF c.op = "connect"
    THEN CASE outcome = "ok" -> IF c.done \/ link[c.kind] THEN NoFault ELSE Fault
           [] outcome = "failed" -> IF near THEN Fault ELSE NoFault
           [] outcome = "already" -> Already(c) /\ ~c.done /\ NoFault
           [] outcome = "inprogress" -> Fault
    ELSE CASE outcome = "ok" -> (c.done \/ ~link["le"]) /\ NoFault
           [] outcome = "failed" -> Fault
           [] OTHER -> FALSE

Answer(c) ==
    /\ c \in sv.calls
    /\ \E outcome \in {"ok", "failed", "already", "inprogress"}, stable \in BOOLEAN :
         LET s == Unsend(sv, c)
         IN  /\ Outcome(c, outcome)
             /\ sv' = IF ~IsCurrent(c) THEN s
                      ELSE IF c.op = "connect" THEN ConnectAnswered(s, c.kind, outcome, stable)
                      ELSE IF c.kind = "le" THEN DisconnectAnswered(s, outcome)
                      ELSE DeviceDisconnectAnswered(s, outcome)
    /\ UNCHANGED <<link, build, near, weather>>

-----------------------------------------------------------------------------
(* Signals and the links themselves. *)

\* The device's properties, as the cached reads see them: without the bearer interfaces
\* both bearers have only the device's state.
Seen(l, k) ==
    IF (IF build = "legacy" THEN l["bredr"] \/ l["le"] ELSE l[k]) THEN "up" ELSE "down"

\* The links become l.  Every PropertiesChanged reaches the cache
\* (_on_le_properties_changed, and _properties_changed of Bluetooth recovery); an LE
\* transition is also applied at once (_on_le_disconnected_signal,
\* _observe_signalled_le).
Signalled(s, l) ==
    LET cached == [s EXCEPT !.cache = [k \in Kinds |-> Seen(l, k)]]
        le == Seen(l, "le")
    IN  IF build = "polled" THEN s
        ELSE IF ~s.running \/ build = "legacy" \/ l["le"] = link["le"] THEN cached
        ELSE IF s.st["le"] = le THEN [cached EXCEPT !.api = "yes"]
        ELSE UpdateState([cached EXCEPT !.api = "yes"], "le", le, FALSE)

\* _on_bredr_disconnected_signal, for a link the phone closed itself.
RemoteClosed(s) ==
    IF ~s.running \/ build # "signals" \/ s.st["le"] = "up" THEN s
    ELSE IF s.enabled /\ s.st["le"] = "down" /\ ~Targeted(s) /\ ~s.sighted
    THEN EnterResting(s)
    ELSE [s EXCEPT !.remoteClosed = TRUE]

\* The phone connects, on its own or because it is dialled.
LinkUp(k, s) ==
    /\ near /\ ~link[k]
    /\ link' = [link EXCEPT ![k] = TRUE]
    /\ sv' = Signalled(s, link')
    /\ UNCHANGED <<build, near, weather, trouble>>

Inbound(k) == LinkUp(k, sv)

CarriedOut(c) == [Unsend(sv, c) EXCEPT !.calls = @ \cup {[c EXCEPT !.done = TRUE]}]

DialConnects(c) ==
    c \in sv.calls /\ c.op = "connect" /\ ~c.done /\ LinkUp(c.kind, CarriedOut(c))

\* BlueZ carries out a disconnect; a whole-device one takes both links down.
DisconnectTakes(c) ==
    LET gone == IF c.kind = "le" THEN {"le"} ELSE Kinds
    IN  /\ c \in sv.calls /\ c.op = "disconnect" /\ ~c.done
        /\ \E k \in gone : link[k]
        /\ link' = [k \in Kinds |-> link[k] /\ k \notin gone]
        /\ sv' = Signalled(CarriedOut(c), link')
        /\ UNCHANGED <<build, near, weather, trouble>>

\* A link is lost, or the phone closes its Classic link.
LinkLost(k) ==
    /\ link[k] /\ Fault
    /\ link' = [link EXCEPT ![k] = FALSE]
    /\ \E byPhone \in BOOLEAN :
         sv' = Signalled(IF k = "bredr" /\ byPhone THEN RemoteClosed(sv) ELSE sv, link')
    /\ UNCHANGED <<build, near, weather>>

\* A read of the cache that was on its way is answered.
CacheAnswers(k) ==
    /\ sv.running
    /\ sv' = [sv EXCEPT !.cache[k] = Seen(link, k)]
    /\ UNCHANGED world

\* It fails, or the entry expires.
CacheFails(k) ==
    /\ Fault
    /\ sv' = [sv EXCEPT !.cache[k] = "unknown"]
    /\ UNCHANGED <<link, build, near, weather>>

\* Discovery reports an RSSI of the phone.
Sighting ==
    /\ near /\ build # "polled" /\ sv.running /\ Fault
    /\ sv' = [NotePresence(sv) EXCEPT !.sighted = TRUE]
    /\ UNCHANGED <<link, build, near, weather>>

-----------------------------------------------------------------------------
(* The daemon's and its clients' calls. *)

\* _pause_for_recovery: stop() of both supervisors.
Pause ==
    /\ sv.running /\ Fault
    /\ sv' = [Forget(sv) EXCEPT !.running = FALSE, !.manual = FALSE,
                                !.adv = StopSolicitation(@)]
    /\ UNCHANGED <<link, build, near, weather>>

\* _resume_after_recovery
Resume ==
    /\ ~sv.running
    /\ \E stable \in BOOLEAN :
         LET StartBearers(reset) == TickState([reset EXCEPT !.running = TRUE], stable)
         IN  sv' = Then(ResetState([sv EXCEPT !.adv = StartSolicitation(@)], stable),
                        StartBearers)
    /\ UNCHANGED world

\* _on_bluez_owner_changed with a new owner: the cache and the advertisement go first,
\* LE is held for the profiles, then the bearers are reset.
BluezRestart ==
    /\ Fault
    /\ build' \in Builds
    /\ link' = both(FALSE)
    /\ weather' = "fine"
    /\ \E stable \in BOOLEAN :
         LET fresh == [sv EXCEPT !.cache = both("unknown"), !.calls = {},
                                 !.adv = ResetSolicitation(@)]
         IN  sv' = ResetState(fresh, stable)
    /\ UNCHANGED near

\* The profile supervisor ends its attempt, or begins another.
EnableLe ==
    /\ ~sv.enabled /\ sv.running
    /\ \E stable \in BOOLEAN : sv' = EnableLeState(sv, stable)
    /\ UNCHANGED world

Hold ==
    /\ sv.enabled /\ Fault
    /\ sv' = HoldLe(sv)
    /\ UNCHANGED <<link, build, near, weather>>

\* The poll timer, and poke().
Tick ==
    /\ sv.running
    /\ \E stable \in BOOLEAN : sv' = TickState(sv, stable)
    /\ UNCHANGED world

LeSettled ==
    /\ sv.settle
    /\ \E stable \in BOOLEAN : sv' = LeSettledState(sv, stable)
    /\ UNCHANGED world

\* Classic's past is forgiven: reconnect_now, and the end of a profile reset.
ForgiveClassic(s) ==
    [s EXCEPT !.resting = FALSE, !.remoteClosed = FALSE, !.failures = 0,
              !.quiet["bredr"] = FALSE]

ReconnectNow ==
    /\ sv.running /\ ~Owned(sv) /\ sv.st["bredr"] # "up" /\ ~Dialing(sv) /\ ~sv.manual
    /\ Fault
    /\ sv' = [ForgiveClassic(sv) EXCEPT !.manual = TRUE]
    /\ UNCHANGED <<link, build, near, weather>>

ManualDial ==
    /\ sv.manual
    /\ LET fired == [sv EXCEPT !.manual = FALSE]
       IN  sv' = IF ~sv.running \/ Blocked \/ sv.st["bredr"] = "up" THEN fired
                 ELSE RequestConnect(fired, "bredr")
    /\ UNCHANGED world

MayResetProfiles(s) == CanChangeProfiles(s) /\ s.st["bredr"] = "up"

ResetProfiles ==
    /\ MayResetProfiles(sv) /\ Fault
    /\ sv' = Send([CancelSettle(sv) EXCEPT !.phase = "disconnecting"],
                  "disconnect", "device")
    /\ UNCHANGED <<link, build, near, weather>>

ProfileResetReconnect ==
    /\ sv.phase = "settling"
    /\ \E stable \in BOOLEAN :
         LET fired == [sv EXCEPT !.phase = None]
             Reconnect(seen) == IF ReadValue(fired, "bredr") = "up" THEN seen
                                ELSE RequestConnect(ForgiveClassic(seen), "bredr")
         IN  sv' = IF ~sv.running \/ Blocked THEN fired
                   ELSE Then(RefreshStates(fired, stable), Reconnect)
    /\ UNCHANGED world

\* The ANCS client, or Bluetooth recovery, asks for an LE reset, after an observation.
AskLeReset ==
    /\ sv.api # "unknown" /\ Fault
    /\ \E allow \in BOOLEAN, recent \in BOOLEAN :
         /\ recent => allow
         /\ sv' = RecoverLe(sv, allow, recent)
    /\ UNCHANGED <<link, build, near, weather>>

\* The recovery's observation of ANCS; it also lets the solicitation go.
AncsHealth ==
    /\ sv.st["le"] = "up" /\ sv.enabled
    /\ sv' = [sv EXCEPT !.wanted = None, !.adv = SetNeeded(@, FALSE)]
    /\ UNCHANGED world

-----------------------------------------------------------------------------
(* The world and the clock. *)

WeatherTurns ==
    /\ \/ weather # "fine" /\ weather' = "fine" /\ NoFault
       \/ weather = "fine" /\ weather' \in {"blocked", "busy", "unset"} /\ Fault
    /\ UNCHANGED <<sv, link, build, near>>

PhoneReturns == ~near /\ near' = TRUE /\ UNCHANGED <<sv, link, build, weather, trouble>>
PhoneLeaves ==
    /\ near /\ link = both(FALSE) /\ Fault /\ near' = FALSE
    /\ UNCHANGED <<sv, link, build, weather>>

\* The windows that may lie ahead, and their end.
Windows == <<"bredr", "le", "bredr deadline", "le deadline", "reset", "budget", "sighting",
             "hold">>

DeadlinePasses(k) ==
    /\ Connecting(sv, k) /\ sv.req[k].wait = "observation"
    /\ sv' = [sv EXCEPT !.req[k].wait = "overdue"]

Passes(w) ==
    /\ CASE w \in Kinds -> sv.quiet[w] /\ sv' = [sv EXCEPT !.quiet[w] = FALSE]
         [] w = "bredr deadline" -> DeadlinePasses("bredr")
         [] w = "le deadline" -> DeadlinePasses("le")
         [] w = "reset" -> sv.resetQuiet /\ sv' = [sv EXCEPT !.resetQuiet = FALSE]
         [] w = "budget" -> sv.budgetQuiet /\ sv' = [sv EXCEPT !.budgetQuiet = FALSE]
         [] w = "sighting" -> sv.sighted /\ sv' = [sv EXCEPT !.sighted = FALSE]
         [] w = "hold" -> sv.adv.hold /\ sv' = [sv EXCEPT !.adv.hold = FALSE]
    /\ UNCHANGED world

SolicitationTick ==
    /\ sv.adv.running
    /\ sv' = [sv EXCEPT !.adv = Reconcile(@)]
    /\ UNCHANGED world

AdvertAnswers ==
    /\ sv.adv.advert = "pending"
    /\ \/ sv' = [sv EXCEPT !.adv = AdvertRegistered(@)] /\ NoFault
       \/ sv' = [sv EXCEPT !.adv = AdvertGone(@)] /\ Fault
    /\ UNCHANGED <<link, build, near, weather>>

\* BlueZ releases the advertisement.
AdvertReleased ==
    /\ sv.adv.advert = "on" /\ Fault
    /\ sv' = [sv EXCEPT !.adv = AdvertGone(@)]
    /\ UNCHANGED <<link, build, near, weather>>

-----------------------------------------------------------------------------
\* The daemon has started both supervisors; no observation has been answered yet.
Init ==
    /\ link = both(FALSE)
    /\ build \in Builds
    /\ near = TRUE
    /\ weather = "fine"
    /\ trouble = 0
    /\ sv = TickState([InitSupervisor EXCEPT !.running = TRUE,
                                             !.adv = StartSolicitation(@)], FALSE)

BluezActs == \E c \in sv.calls : Answer(c) \/ DialConnects(c) \/ DisconnectTakes(c)

Next ==
    \/ Pause \/ Resume \/ BluezRestart
    \/ EnableLe \/ Hold \/ Tick \/ LeSettled
    \/ ReconnectNow \/ ManualDial \/ ResetProfiles \/ ProfileResetReconnect
    \/ AskLeReset \/ AncsHealth
    \/ BluezActs
    \/ \E k \in Kinds : Inbound(k) \/ LinkLost(k) \/ CacheAnswers(k) \/ CacheFails(k)
    \/ Sighting \/ WeatherTurns \/ PhoneReturns \/ PhoneLeaves
    \/ \E n \in DOMAIN Windows : Passes(Windows[n])
    \/ SolicitationTick \/ AdvertAnswers \/ AdvertReleased

SafetySpec == Init /\ [][Next]_vars

\* Timers and idle callbacks run, D-Bus answers every call within its timeout, a read
\* under way is answered, windows end, the profile supervisor ends its attempt and
\* recovery its pause, and trouble with BlueZ passes.  Nothing is assumed of the phone.
FairStep(n) ==
    CASE n = 1 -> Tick
      [] n = 2 -> LeSettled
      [] n = 3 -> ManualDial
      [] n = 4 -> ProfileResetReconnect
      [] n = 5 -> SolicitationTick
      [] n = 6 -> EnableLe
      [] n = 7 -> Resume
      [] n = 8 -> BluezActs
      [] n = 9 -> AdvertAnswers
      [] n = 10 -> WeatherTurns
      [] n = 11 -> CacheAnswers("bredr")
      [] n = 12 -> CacheAnswers("le")
      [] n \in 13 .. 20 -> Passes(Windows[n - 12])
      [] OTHER -> FALSE

Fairness == \A n \in 1 .. 20 : WF_vars(FairStep(n))

Spec == SafetySpec /\ Fairness

-----------------------------------------------------------------------------
(* Properties. *)

\* Whatever the supervisor waits for is under way and will reach it: a request that waits
\* for its reply, an LE disconnect and the device disconnect of a profile reset each have a
\* call that BlueZ still owes an answer and whose answer is taken for theirs.  Otherwise
\* _connecting, _disconnecting or _profile_reset_phase would keep both bearers from ever
\* being dialled again.
EveryWaitIsAnswered ==
    /\ \A k \in Kinds :
         Connecting(sv, k) /\ sv.req[k].wait = "reply" =>
            \E c \in sv.calls : c.op = "connect" /\ c.kind = k /\ c.current
    /\ sv.disconnecting =>
         \E c \in sv.calls : c.op = "disconnect" /\ c.kind = "le" /\ c.current
    /\ sv.phase = "disconnecting" =>
         \E c \in sv.calls : c.op = "disconnect" /\ c.kind = "device" /\ c.current

\* The solicitation is told of every LE dial and of its end, however it ends: reply,
\* error, InProgress that settles or times out, restart or stop.  A lost end would keep
\* the advertisement off air, a lost beginning would let it abort the dial.
DialPublished == sv.adv.dialing <=> Connecting(sv, "le")

\* A phone that stays in reach gets its Classic link back, whatever was lost, refused,
\* reset or paused before: backoff, resting, the MAP-first gate, resets and overlapping
\* requests only delay the dial.
ClassicReturns == <>[]near => <>[](sv.st["bredr"] = "up")

\* LE always has a way back: again and again it is up, being dialled, or the phone is
\* solicited.
LePathOpen == []<>(link["le"] \/ Connecting(sv, "le") \/ sv.adv.advert = "on")

\* Every reset ends: one the budget postponed, one under way, and a profile reset.
ResetsEnd == []<>(~sv.pending /\ sv.phase = None /\ sv.wanted = None)

=============================================================================
