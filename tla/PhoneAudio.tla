----------------------------- MODULE PhoneAudio -----------------------------
(***************************************************************************)
(* Where the phone's media plays: class PhoneAudioRoute of                 *)
(* src/src/blueferry/phone_audio_route.py, which follows and changes the   *)
(* A2DP stream in BlueZ, and class PhoneAudioPreference of                 *)
(* phone_audio_preference.py, which applies the user's choice through it.  *)
(*                                                                         *)
(* BlueZ's signals and answers reach the route over one connection, in     *)
(* order; the daemon hears of bluetoothd's exits and of the phone's link   *)
(* over others, at any time.  A generation is compared for equality only,  *)
(* so what it guards says whether it is current.  Whether sound plays, the *)
(* delay of the stream and the wording of errors are left out.             *)
(***************************************************************************)
EXTENDS Naturals, Sequences, Handlers

CONSTANTS
    MaxWishes,      \* bound of the user's requests
    MaxFaults,      \* bound of losses, restarts, failures and busy phases
    MaxMessages,    \* bound of the messages under way
    None

VARIABLES
    au,             \* route and preference, and their calls and messages
    bz,             \* bluetoothd, the phone, and what the daemon knows of them
    wishes, faults

audioVars == <<au, bz, wishes, faults>>

\* pending, token: the change under way, and the media session that plays again after it;
\* resume: that session, once its timer runs; up: _owner_available; retry, settle: timers.
NewRoute ==
    [known |-> FALSE, connected |-> FALSE, source |-> FALSE, sink |-> FALSE, stream |-> FALSE,
     pending |-> None, token |-> None, resume |-> None, up |-> TRUE, watching |-> TRUE,
     settle |-> FALSE, retry |-> FALSE, rewatch |-> FALSE, stopped |-> FALSE]

\* Without every watch the route is unknown until it is tried again.
Unwatched == [NewRoute EXCEPT !.watching = FALSE, !.rewatch = TRUE]

\* want: the saved choice; request: a client's, and whether its deadline passed; applied:
\* _policy_applied; op: who holds the audio lock.
NewPreference(want, applied) ==
    [want |-> want, request |-> None, late |-> FALSE, timer |-> want # "auto" \/ applied = None,
     configuring |-> None, applied |-> applied, failed |-> FALSE, attempted |-> FALSE, last |-> None, op |-> None,
     running |-> TRUE]

\* probe: an inventory is asked; call: a profile change is; msgs: what BlueZ has sent.
\* stray: playback was resumed in another session than the one interrupted (history).
\* notices: bluetoothd's exits and starts the daemon has not heard of; busy: "no", "changing" while bearers allow no profile
\* change, or "stalled" while bluetoothd does not respond.
Init ==
    /\ \E want \in {"pc", "phone", "auto"}, applied \in {None, FALSE}, route \in {NewRoute, Unwatched} :
           /\ want # "auto" => applied = None
           /\ au = [r |-> route, p |-> NewPreference(want, applied), probe |-> route.watching,
                    call |-> None, msgs |-> <<>>, stray |-> FALSE]
           /\ faults = IF route.watching THEN 0 ELSE 1
    /\ bz = [owner |-> TRUE, notices |-> <<>>, connected |-> TRUE, stream |-> FALSE,
             session |-> 1, busy |-> "no"]
    /\ wishes = 0

Stalled == bz.busy = "stalled"
Changeable == bz.busy = "no"

-----------------------------------------------------------------------------
(* The preference, as the route and the daemon call it. *)

\* poke()
Poke(s) ==
    IF ~s.p.running \/ s.p.configuring # None
       \/ (s.p.request = None /\ s.p.want = "auto" /\ s.p.applied = FALSE)
    THEN s ELSE [s EXCEPT !.p.timer = TRUE]

\* _fail(): a request is answered.
Fail(s) == [s EXCEPT !.p.request = None, !.p.late = FALSE]

\* _save(): the choice is kept, unless settings cannot be written.
Save(s, choice, saved) ==
    Poke([Fail(s) EXCEPT !.p.want = IF saved THEN choice ELSE @])

\* The failure() and success() that _tick() gives the route.
Failure(s) ==
    LET free == [s EXCEPT !.p.op = None]
    IN CASE s.p.op = None -> s
         [] s.p.op = "request" -> Fail(free)
         [] OTHER -> free

Success(s, choice, saved) ==
    LET free == [s EXCEPT !.p.op = None]
    IN CASE s.p.op = None -> s
         [] s.p.op = "request" -> Save(free, choice, saved)
         [] OTHER -> free

-----------------------------------------------------------------------------
(* The route. *)

\* _route()
Shown(r) ==
    CASE ~r.known \/ ~r.connected \/ ~r.source -> "unavailable"
      [] r.known /\ r.connected /\ r.source /\ r.stream -> "pc"
      [] OTHER -> "phone"

Old(msgs, kind) ==
    [i \in DOMAIN msgs |-> IF msgs[i].kind = kind THEN [msgs[i] EXCEPT !.cur = FALSE]
                           ELSE msgs[i]]

CancelResume(s) == [s EXCEPT !.r.resume = None, !.r.token = None]

\* probe()
Probe(s) ==
    CASE s.r.stopped \/ ~s.r.up -> s
      [] ~s.r.stopped /\ s.r.up /\ Stalled -> [s EXCEPT !.r.retry = TRUE]
      [] OTHER -> [s EXCEPT !.r.retry = FALSE, !.probe = TRUE, !.msgs = Old(@, "tree")]

\* failed() of a probe.
NoAnswer(s) == [s EXCEPT !.r.known = FALSE, !.r.retry = TRUE]

\* start(); ok: every signal is watched.
StartRoute(s, ok) ==
    CASE s.r.watching -> s
      [] ~s.r.watching /\ ok -> Probe([s EXCEPT !.r.watching = TRUE, !.r.stopped = FALSE])
      [] OTHER -> [s EXCEPT !.r.known = FALSE, !.r.rewatch = TRUE, !.r.stopped = FALSE]

\* _invalidate()
Invalidate(s) ==
    Failure([s EXCEPT
        !.probe = FALSE,
        !.call = IF @ = None THEN None ELSE [@ EXCEPT !.cur = FALSE],
        !.msgs = Old(Old(@, "tree"), "reply"),
        !.r = [NewRoute EXCEPT !.up = s.r.up, !.watching = s.r.watching,
                               !.stopped = s.r.stopped]])

\* _apply_tree()
ApplyTree(s, tree) ==
    LET read == [s EXCEPT !.r.known = TRUE, !.r.sink = TRUE, !.r.source = TRUE,
                          !.r.connected = tree.connected,
                          !.r.stream = tree.connected /\ tree.stream]
    IN IF tree.connected THEN read ELSE CancelResume(read)

\* _properties_changed() of Connected: what the phone offers is not in it.
ApplyDevice(s, connected) ==
    LET read == [s EXCEPT !.r.known = TRUE, !.r.connected = connected,
                          !.r.stream = @ /\ connected]
    IN IF connected THEN read ELSE CancelResume(read)

\* set_route() of a change that is allowed.
Change(s, route) ==
    LET free == CancelResume([s EXCEPT !.r.settle = FALSE])
    IN [free EXCEPT !.r.pending = route,
                    !.r.token = IF route = "phone" THEN bz.session ELSE None,
                    !.call = [route |-> route, cur |-> TRUE]]

\* reply() and failed() of the change, when it is current.
Changed(s, route, ok, saved) ==
    LET done == [s EXCEPT !.r.pending = None, !.r.settle = TRUE, !.r.token = None,
                          !.r.resume = IF ok THEN s.r.token ELSE @]
    IN IF ok THEN Success(done, route, saved) ELSE Failure(done)

-----------------------------------------------------------------------------
(* The timer of the preference: _tick(), whose steps are guards in order.  lock: the audio
   lock is "free", "held" by another program, or "broken"; saved: settings can be written. *)

Attempt(s, choice, own) ==
    LET held == [s EXCEPT !.p.attempted = TRUE, !.p.op = own]
    IN IF ~Changeable THEN Failure(held) ELSE Change(held, choice)

TickRoute(s, choice, own, lock, saved) ==
    LET shown == Shown(s.r)
    IN CASE own = "auto" /\ s.p.attempted -> s
         [] (own = "request" \/ ~s.p.attempted) /\ shown = "unavailable" -> Poke(s)
         [] own = "request" /\ shown = choice ->
                Save([s EXCEPT !.p.attempted = TRUE], choice, saved)
         [] own = "auto" /\ ~s.p.attempted /\ shown = choice ->
                [s EXCEPT !.p.attempted = @ \/ choice = "pc"]
         [] OTHER ->
                CASE choice = "pc" /\ ~s.r.sink -> Poke(Probe(s))
                  [] ~(choice = "pc" /\ ~s.r.sink) /\ lock = "held" -> Poke(s)
                  [] ~(choice = "pc" /\ ~s.r.sink) /\ lock = "broken" ->
                         [Fail(s) EXCEPT !.p.attempted = TRUE]
                  [] OTHER -> Attempt(s, choice, own)

Tick(s, lock, saved) ==
    LET t == [s EXCEPT !.p.timer = FALSE]
        own == IF s.p.request = None THEN "auto" ELSE "request"
        choice == IF s.p.request = None THEN s.p.want ELSE s.p.request
        enabled == choice # "auto"
    IN CASE s.p.op # None -> t
         [] s.p.op = None /\ own = "request" /\ s.p.late -> Poke(Fail(t))
         [] s.p.op = None /\ own = "auto" /\ s.p.failed -> t
         [] OTHER ->
                CASE Stalled \/ (own = "auto" /\ ~Changeable) -> Poke(t)
                  [] ~Stalled /\ (own = "request" \/ Changeable) /\ s.p.applied # enabled ->
                         [t EXCEPT !.p.configuring = enabled]
                  [] OTHER ->
                         IF choice = "auto"
                         THEN IF own = "request" THEN Save(t, choice, saved) ELSE t
                         ELSE TickRoute(t, choice, own, lock, saved)

\* _configured(): the policy of the audio server was changed, failed, or was locked.
Configured(s, result) ==
    LET over == [s EXCEPT !.p.configuring = None]
    IN CASE result = "locked" -> Poke(over)
         [] result = "failed" -> Poke(Fail([over EXCEPT !.p.failed = TRUE]))
         [] OTHER -> Poke(Probe([over EXCEPT !.p.applied = s.p.configuring,
                                             !.p.attempted = FALSE]))

-----------------------------------------------------------------------------
Fault == faults < MaxFaults /\ faults' = faults + 1
NoFault == UNCHANGED faults
NoWish == UNCHANGED wishes
Running == au.p.running

\* What of the two is in the daemon's status.
Published(s) == <<Shown(s.r), s.r.pending, s.p.want, s.p.request>>

\* Mutant: a change of the status does not wake the preference.
ToldSilently(s) == s

\* _emit_status_soon(): when it changed, the status is emitted before anything else runs, and
\* the preference poked.
Told(s) == IF Published(s) = Published(au) THEN s ELSE Poke(s)

\* Step(ok): the handler with everything in order; a fault makes it otherwise.
Handler(Step(_)) ==
    \/ au' = Told(Step(TRUE)) /\ NoFault
    \/ Step(FALSE) # Step(TRUE) /\ au' = Told(Step(FALSE)) /\ Fault

PreferenceTick ==
    /\ Running /\ au.p.timer
    /\ LET usual == Tick(au, "free", TRUE)
       IN \/ au' = Told(usual) /\ NoFault
          \/ \E s \in {Tick(au, "held", TRUE), Tick(au, "broken", TRUE), Tick(au, "free", FALSE)} :
                 s # usual /\ au' = Told(s) /\ Fault
    /\ NoWish /\ UNCHANGED bz

PolicyConfigured ==
    /\ Running /\ au.p.configuring # None
    /\ \/ au' = Told(Configured(au, "done")) /\ NoFault
       \/ \E result \in {"failed", "locked"} : au' = Told(Configured(au, result)) /\ Fault
    /\ NoWish /\ UNCHANGED bz

\* set_route() of the preference, by a client.
Request ==
    /\ Running /\ wishes < MaxWishes /\ wishes' = wishes + 1
    /\ au.p.request = None /\ au.r.pending = None
    /\ \E choice \in {"pc", "phone", "auto"} :
           /\ choice # "auto" => Shown(au.r) # "unavailable"
           /\ au' = Poke([au EXCEPT !.p.request = choice, !.p.failed = FALSE])
    /\ NoFault /\ UNCHANGED bz

DeadlinePasses ==
    /\ au.p.request # None /\ ~au.p.late
    /\ au' = [au EXCEPT !.p.late = TRUE]
    /\ NoFault /\ NoWish /\ UNCHANGED bz

\* The daemon's status is emitted for another reason: _emit_status().
StatusEmitted ==
    /\ au' = Poke(au) /\ NoFault /\ NoWish /\ UNCHANGED bz

\* The daemon's bearers look at the phone's link: connection_changed().
LinkSeen ==
    /\ Running /\ bz.owner
    /\ LET anew == ~bz.connected \/ (bz.connected /\ au.p.last = FALSE)
       IN au' = Poke([au EXCEPT !.p.attempted = @ /\ ~anew, !.p.last = bz.connected])
    /\ NoFault /\ NoWish /\ UNCHANGED bz

ProbeRetry ==
    /\ au.r.retry
    /\ au' = Probe([au EXCEPT !.r.retry = FALSE])
    /\ NoFault /\ NoWish /\ UNCHANGED bz

WatchRetry ==
    /\ au.r.rewatch
    /\ LET Step(ok) == StartRoute([au EXCEPT !.r.rewatch = FALSE], ok) IN Handler(Step)
    /\ NoWish /\ UNCHANGED bz

SettleTimer ==
    /\ au.r.settle
    /\ au' = Probe([au EXCEPT !.r.settle = FALSE])
    /\ NoFault /\ NoWish /\ UNCHANGED bz

\* fire(): the phone is told to play.
ResumeTimer ==
    /\ au.r.resume # None
    /\ LET plays == au.r.up /\ au.r.connected /\ Changeable
       IN au' = [au EXCEPT !.r.resume = None,
                           !.stray = @ \/ (plays /\ au.r.resume # bz.session)]
    /\ NoFault /\ NoWish /\ UNCHANGED bz

\* An AMS session ends and another begins: media_unavailable().
MediaEnds ==
    /\ Fault
    /\ au' = CancelResume(au)
    /\ bz' = [bz EXCEPT !.session = @ + 1]
    /\ NoWish

\* The daemon's stop().
Stop ==
    /\ Running
    /\ au' = Then([Fail(au) EXCEPT !.p.running = FALSE, !.p.timer = FALSE, !.p.op = None],
                  LAMBDA s : Invalidate([s EXCEPT !.r.stopped = TRUE, !.r.watching = FALSE]))
    /\ NoFault /\ NoWish /\ UNCHANGED bz

-----------------------------------------------------------------------------
(* BlueZ and the phone. *)

Room == Len(au.msgs) < MaxMessages
Send(s, message) == [s EXCEPT !.msgs = Append(@, message)]
Tree == [kind |-> "tree", cur |-> TRUE, ok |-> TRUE, connected |-> bz.connected, stream |-> bz.stream]
NoTree == [Tree EXCEPT !.ok = FALSE]
Device(on) == [kind |-> "device", on |-> on]
Transport(on) == [kind |-> "transport", on |-> on]
Reply(call, ok) == [kind |-> "reply", cur |-> call.cur, route |-> call.route, ok |-> ok]

ProbeAnswered ==
    /\ au.probe /\ bz.owner /\ Room
    /\ au' = Send([au EXCEPT !.probe = FALSE], Tree)
    /\ NoFault /\ NoWish /\ UNCHANGED bz

ProbeFails ==
    /\ au.probe
    /\ au' = Told(NoAnswer([au EXCEPT !.probe = FALSE]))
    /\ IF bz.owner THEN Fault ELSE NoFault
    /\ NoWish /\ UNCHANGED bz

\* A profile change ends: it was made, or nothing was to be done (_ALREADY), or it failed.
CallAnswered ==
    /\ au.call # None /\ bz.owner /\ Len(au.msgs) + 1 < MaxMessages
    /\ LET on == au.call.route = "pc"
           free == [au EXCEPT !.call = None]
           reply == Reply(au.call, TRUE)
       IN \/ /\ bz.connected /\ bz.stream # on /\ NoFault
             /\ bz' = [bz EXCEPT !.stream = on]
             /\ au' \in {Send(Send(free, Transport(on)), reply),
                         Send(Send(free, reply), Transport(on))}
          \/ bz.stream = on /\ au' = Send(free, reply) /\ NoFault /\ UNCHANGED bz
          \/ ~bz.connected /\ au' = Send(free, Reply(au.call, FALSE)) /\ NoFault /\ UNCHANGED bz
          \/ au' = Send(free, Reply(au.call, FALSE)) /\ Fault /\ UNCHANGED bz
    /\ NoWish

\* The call's timeout, or the exit of bluetoothd.
CallFails ==
    /\ au.call # None /\ Room
    /\ au' = Send([au EXCEPT !.call = None], Reply(au.call, FALSE))
    /\ IF bz.owner THEN Fault ELSE NoFault
    /\ NoWish /\ UNCHANGED bz

\* The phone, or another program, opens or closes the stream.
StreamMoves ==
    /\ bz.owner /\ bz.connected /\ Room /\ Fault
    /\ bz' = [bz EXCEPT !.stream = ~@]
    /\ au' = Send(au, Transport(~bz.stream))
    /\ NoWish

\* The phone's link; a stream ends with it.
LinkMoves ==
    /\ bz.owner /\ Len(au.msgs) + 1 < MaxMessages
    /\ IF bz.connected THEN Fault ELSE NoFault
    /\ bz' = [bz EXCEPT !.connected = ~@, !.stream = FALSE]
    /\ au' = IF bz.stream THEN Send(Send(au, Transport(FALSE)), Device(FALSE))
             ELSE Send(au, Device(~bz.connected))
    /\ NoWish

\* bluetoothd exits, which fails its calls, and starts without the phone's link.
OwnerMoves ==
    /\ IF bz.owner THEN Len(au.msgs) + 1 < MaxMessages /\ Fault ELSE NoFault
    /\ bz' = [bz EXCEPT !.owner = ~@, !.connected = FALSE, !.stream = FALSE,
                        !.notices = Append(@, ~bz.owner)]
    /\ au' = IF ~bz.owner THEN au
             ELSE LET s == IF au.probe THEN Send([au EXCEPT !.probe = FALSE], NoTree) ELSE au
                  IN IF s.call = None THEN s
                     ELSE Send([s EXCEPT !.call = None], Reply(s.call, FALSE))
    /\ NoWish

\* _on_bluez_owner_changed(), over another connection than the route's.
OwnerSeen ==
    /\ Running /\ bz.notices # <<>>
    /\ LET available == Head(bz.notices)
           Step(ok) ==
               Then(Invalidate([au EXCEPT !.r.up = available]), LAMBDA s :
                    Poke([(CASE ~available -> s
                             [] available /\ s.r.watching -> Probe(s)
                             [] OTHER -> StartRoute(s, ok))
                          EXCEPT !.p.attempted = FALSE, !.p.last = None]))
       IN Handler(Step)
    /\ bz' = [bz EXCEPT !.notices = Tail(@)]
    /\ NoWish

\* A signal or an answer is dispatched.  A route that is stopped or has no owner takes no
\* signal, and no message says that the phone has a stream once its link is gone.
Dispatched(s, m, saved) ==
    CASE m.kind = "tree" ->
             CASE ~m.cur -> s
               [] m.cur /\ m.ok -> ApplyTree(s, m)
               [] OTHER -> NoAnswer(s)
      [] m.kind = "reply" -> IF m.cur THEN Changed(s, m.route, m.ok, saved) ELSE s
      [] m.kind = "device" -> IF s.r.up /\ s.r.watching THEN ApplyDevice(s, m.on) ELSE s
      [] OTHER -> IF s.r.up /\ s.r.watching THEN [s EXCEPT !.r.stream = m.on] ELSE s

Dispatch ==
    /\ au.msgs # <<>>
    /\ LET Step(ok) == Dispatched([au EXCEPT !.msgs = Tail(@)], Head(au.msgs), ok)
       IN Handler(Step)
    /\ NoWish /\ UNCHANGED bz

BusyMoves ==
    /\ \/ bz.busy = "no" /\ Fault
          /\ \E busy \in {"changing", "stalled"} : bz' = [bz EXCEPT !.busy = busy]
       \/ bz.busy # "no" /\ NoFault /\ bz' = [bz EXCEPT !.busy = "no"]
    /\ NoWish /\ UNCHANGED au

-----------------------------------------------------------------------------
Next ==
    \/ PreferenceTick \/ PolicyConfigured \/ Request \/ DeadlinePasses \/ StatusEmitted
    \/ LinkSeen \/ ProbeRetry \/ WatchRetry \/ SettleTimer \/ ResumeTimer \/ MediaEnds \/ Stop
    \/ ProbeAnswered \/ ProbeFails \/ CallAnswered \/ CallFails \/ StreamMoves \/ LinkMoves
    \/ OwnerMoves \/ OwnerSeen \/ Dispatch \/ BusyMoves

\* The main loop and its timers run; bluetoothd answers or its calls time out, and comes back.
FairStep(k) ==
    CASE k = 1 -> PreferenceTick \/ PolicyConfigured
      [] k = 2 -> DeadlinePasses
      [] k = 3 -> LinkSeen /\ au.p.last # bz.connected
      [] k = 4 -> ProbeRetry \/ WatchRetry \/ SettleTimer \/ ResumeTimer
      [] k = 5 -> ProbeAnswered \/ CallAnswered \/ (NoFault /\ (ProbeFails \/ CallFails))
      [] k = 6 -> Dispatch \/ OwnerSeen
      [] k = 7 -> NoFault /\ (OwnerMoves \/ BusyMoves)
      [] OTHER -> FALSE

Spec == Init /\ [][Next]_audioVars /\ \A k \in 1 .. 7 : WF_audioVars(FairStep(k))

-----------------------------------------------------------------------------
\* BlueZ's route, as _route() would name it.
Actual == IF ~bz.connected THEN "unavailable" ELSE IF bz.stream THEN "pc" ELSE "phone"

Quiet ==
    /\ bz.owner /\ bz.notices = <<>> /\ Running /\ au.msgs = <<>> /\ ~au.probe
    /\ ~au.r.retry /\ ~au.r.rewatch

\* With nothing under way and no timer to read again, the route shown is BlueZ's: no answer
\* or signal of an earlier bluetoothd, or from before a change, is left in it (probe(),
\* _invalidate()).  The audio lock is held exactly while the route changes for the
\* preference; playback is resumed in no other media session than the one it was
\* interrupted in (_cancel_resume()).
RouteHonest ==
    /\ Quiet => Shown(au.r) = Actual
    /\ (au.p.op # None) <=> (au.r.pending # None)
    /\ ~au.stray

\* The phone is there, and nothing keeps a saved choice of the computer from being applied.
Applicable ==
    /\ Running /\ bz.owner /\ bz.connected /\ Changeable /\ ~au.p.failed
    /\ au.p.want = "pc" /\ au.p.request = None

\* Every route request is answered, at the latest by its deadline, and a saved choice is
\* applied on every connection (_tick(), poke()).
RouteSettles ==
    /\ []<>(au.p.request = None)
    /\ <>[]Applicable => <>[]au.p.attempted
=============================================================================
