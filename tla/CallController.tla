--------------------------- MODULE CallController ---------------------------
(***************************************************************************)
(* Phone calls through oFono: class CallController of                      *)
(* src/src/blueferry/calls/controller.py over the transport of             *)
(* calls/ofono.py and the modems of calls/model.py.                        *)
(*                                                                         *)
(* oFono handles the requests of one client in order, and its replies and  *)
(* signals arrive in the order it sent them.  A signal is delivered when a *)
(* watch for it exists both when it is sent (the bus filters by match      *)
(* rules) and when it is dispatched.  A reply whose generation has passed  *)
(* has "cur" FALSE.  There is one modem, the iPhone's; a call is its id.   *)
(***************************************************************************)
EXTENDS Naturals, Sequences, FiniteSets, SequencesExt, Handlers

CONSTANTS
    Ids,            \* voice calls
    MaxTracked,     \* MAX_TRACKED_CALLS
    MaxAttempts,    \* POWER_ATTEMPTS_BEFORE_CONFLICT
    MaxEvents,      \* bound of the calls that begin
    MaxFaults,      \* bound of restarts, losses, rejections and switches
    None

VARIABLES
    cc,             \* the controller and its wire to oFono
    ofono,          \* oFono and the phone
    faults, events

callVars == <<cc, ofono, faults, events>>

\* The properties of a modem at the levels of its bring-up.
Props == <<"Powered", "Online", "Voice">>
Level(n) == {Props[i] : i \in 1..n}

\* The fields of the controller, after those of the class:
\*   modem      _modem: None or the properties it is believed to have
\*   bound      _bound_path is set           calls     _calls
\*   changed    _snapshot_changes            retry     what _retry_id runs
\*   bringup    _bringup_id is armed         flying    _request_in_flight
\*   requested  _requested                   mine      _powered_path is set
\*   failures   _power_failures              reached   _last_reachable
\* and of its wire: out, the requests oFono has not handled; in, its replies and signals
\* not dispatched; powering, the Powered=true it works on ("no", "current", "stale").
\* History: resumed, such a request was answered after calls had been switched on again;
\* mixed, a call signal sent under an earlier binding was dispatched to a later one.
Init ==
    /\ cc = [enabled |-> TRUE, running |-> FALSE, state |-> "unavailable", modem |-> None,
             bound |-> FALSE, calls |-> {}, changed |-> None, retry |-> None,
             bringup |-> FALSE, flying |-> FALSE, requested |-> {}, mine |-> FALSE,
             discovering |-> FALSE, failures |-> 0, blocked |-> FALSE, reached |-> FALSE,
             out |-> <<>>, in |-> <<>>, powering |-> "no", resumed |-> FALSE,
             mixed |-> FALSE]
    /\ ofono \in [up : {TRUE}, level : {None}, calls : {{}}, reach : BOOLEAN,
                  conflict : BOOLEAN, asked : {FALSE}]
    /\ faults = 0
    /\ events = 0

-----------------------------------------------------------------------------
(* Generations, requests and timers. *)

Aged(wire, ops) ==
    [i \in DOMAIN wire |->
        IF wire[i].op \in ops THEN [wire[i] EXCEPT !.cur = FALSE] ELSE wire[i]]

CallSignals == {"callAdded", "callRemoved"}
Requests == {"GetModems", "GetCalls", "Powered", "Online"}

\* _generation += 1.
NextGeneration(s) ==
    [s EXCEPT !.out = Aged(@, Requests), !.in = Aged(@, Requests),
              !.powering = IF @ = "no" THEN "no" ELSE "stale"]

Ask(s, op) == [s EXCEPT !.out = Append(@, [op |-> op, cur |-> TRUE])]

Unretried(s) == [s EXCEPT !.retry = None]

ScheduleRetry(s) ==
    IF ~s.running \/ s.retry # None THEN s ELSE [s EXCEPT !.retry = "discover"]

ScheduleRestart(s) == IF s.retry # None THEN s ELSE [s EXCEPT !.retry = "restart"]

Discover(s) ==
    IF ~s.running \/ s.discovering THEN s
    ELSE Ask([s EXCEPT !.discovering = TRUE], "GetModems")

-----------------------------------------------------------------------------
(* The calls of a bound modem. *)

\* Mutant: the snapshot asked for by an earlier binding is still taken.
UnbindKeepingSnapshot(s) ==
    [s EXCEPT !.in = Aged(@, CallSignals), !.changed = None, !.bound = FALSE, !.calls = {}]

Unbind(s) ==
    [s EXCEPT !.out = Aged(@, {"GetCalls"}), !.in = Aged(@, {"GetCalls"} \union CallSignals),
              !.changed = None, !.bound = FALSE, !.calls = {}]

Bind(s) ==
    Ask([Unbind(s) EXCEPT !.changed = {}, !.bound = TRUE], "GetCalls")

Noted(s, id) == [s EXCEPT !.changed = IF @ = None THEN None ELSE @ \union {id}]

CallAdded(s, id) ==
    LET noted == Noted(s, id)
    IN IF id \in s.calls \/ Cardinality(s.calls) >= MaxTracked THEN noted
       ELSE [noted EXCEPT !.calls = @ \union {id}]

CallRemoved(s, id) == [Noted(s, id) EXCEPT !.calls = @ \ {id}]

\* Signals delivered while GetCalls was pending are newer than its snapshot.
ExistingCalls(s, ids) ==
    LET newer == IF s.changed = None THEN {} ELSE s.changed
    IN FoldLeft(CallAdded, [s EXCEPT !.changed = None], SetToSeq(ids \ newer))

-----------------------------------------------------------------------------
(* Bring-up. *)

ReleaseModem(s) ==
    [s EXCEPT !.modem = None, !.flying = FALSE, !.requested = {}, !.blocked = FALSE,
              !.failures = 0, !.bringup = FALSE]

RequestModemProperty(s, name) ==
    Ask([s EXCEPT !.flying = TRUE, !.bringup = TRUE], name)

Ready(s) == [(IF s.bound THEN s ELSE Bind(s)) EXCEPT !.bringup = FALSE, !.state = "ready"]

\* What _advance does next, below a modem that can place calls.
BringUp(s) ==
    IF s.flying \/ s.retry # None THEN s
    ELSE IF "Powered" \notin s.modem
         THEN IF "Powered" \in s.requested THEN [s EXCEPT !.bringup = TRUE]
              ELSE IF ~ofono.reach THEN ScheduleRetry(s)
              ELSE RequestModemProperty(s, "Powered")
         ELSE IF "Online" \in s.modem \union s.requested THEN [s EXCEPT !.bringup = TRUE]
              ELSE RequestModemProperty(s, "Online")

VoiceReady(modem) == {"Online", "Voice"} \subseteq modem

Advance(s) ==
    IF s.modem = None \/ ~s.running THEN s
    ELSE LET own == [s EXCEPT !.mine = @ \/ "Powered" \in s.modem]
             offline == IF s.bound THEN Unbind(own) ELSE own
         IN IF VoiceReady(s.modem) THEN Ready(own)
            ELSE BringUp([offline EXCEPT
                              !.state = IF s.blocked THEN @ ELSE "connecting"])

Adopt(s, modem) ==
    Advance([(IF s.modem = None THEN ReleaseModem(Unbind(s)) ELSE s)
                 EXCEPT !.modem = modem])

PowerFailed(s) ==
    LET failed == [s EXCEPT !.failures = IF @ < MaxAttempts THEN @ + 1 ELSE @,
                            !.flying = FALSE, !.requested = {}, !.bringup = FALSE]
    IN ScheduleRetry(
           IF failed.failures >= MaxAttempts /\ ofono.conflict
           THEN [failed EXCEPT !.blocked = TRUE, !.state = "conflict"]
           ELSE IF s.blocked THEN [failed EXCEPT !.blocked = FALSE, !.state = "connecting"]
                ELSE failed)

\* "No reply yet" of the bring-up watchdog.
BringupTimeout(s) ==
    LET idle == [s EXCEPT !.bringup = FALSE]
        given == [idle EXCEPT !.flying = FALSE, !.requested = {}]
    IN IF ~s.running \/ s.state = "ready" THEN idle
       ELSE IF s.modem # None /\ "Powered" \notin s.modem THEN PowerFailed(given)
            ELSE ScheduleRetry(given)

PropertyDone(s, name) ==
    Advance([s EXCEPT !.flying = FALSE, !.requested = @ \union {name},
                      !.mine = @ \/ name = "Powered"])

PropertyFailed(s, name) ==
    LET failed == [s EXCEPT !.flying = FALSE]
    IN IF s.modem = None THEN failed
       ELSE IF name = "Powered" THEN PowerFailed(failed)
            ELSE ScheduleRetry([failed EXCEPT !.bringup = FALSE])

\* Powered=false, sent and not answered.
SendPowerDown(s) == Ask(s, "PowerDown")

\* oFono refuses Powered=false while Powered=true is pending, so a stop in between can
\* release the modem only once that has been answered.
StaleDone(s, name) ==
    CASE name = "Powered" /\ ~s.running -> SendPowerDown(s)
      [] name = "Powered" /\ s.running -> [s EXCEPT !.resumed = TRUE]
      [] OTHER -> s

PowerDown(s) == IF s.mine THEN SendPowerDown([s EXCEPT !.mine = FALSE]) ELSE s

ModemProperty(s, name, value) ==
    IF s.modem = None THEN s
    ELSE LET now == IF value THEN s.modem \union {name} ELSE s.modem \ {name}
             progressed == \/ now \ s.modem \in {{"Powered"}, {"Online"}}
                           \/ VoiceReady(now) /\ ~VoiceReady(s.modem)
             kept == CASE "Powered" \notin now -> {}
                       [] "Online" \notin now -> s.requested \ {"Online"}
                       [] OTHER -> s.requested
             told == [s EXCEPT !.modem = now, !.requested = kept]
         IN Advance(IF progressed
                    THEN [Unretried(told) EXCEPT !.blocked = FALSE, !.failures = 0]
                    ELSE told)

-----------------------------------------------------------------------------
(* Discovery and the owner of the name. *)

OnModems(s, modem) ==
    LET found == [s EXCEPT !.discovering = FALSE]
    IN IF modem # None THEN Adopt(found, modem)
       ELSE ScheduleRetry([(IF s.modem = None THEN found ELSE ReleaseModem(Unbind(found)))
                               EXCEPT !.state = "searching"])

\* oFono is missing or refuses, or the call failed in another way.
OnModemsFailed(s) ==
    LET failed == [s EXCEPT !.discovering = FALSE]
    IN {ScheduleRetry([failed EXCEPT !.state = "unavailable"]), ScheduleRetry(failed)}

OnModemRemoved(s) ==
    IF s.modem = None THEN s
    ELSE ScheduleRetry([ReleaseModem(Unbind(s)) EXCEPT !.mine = FALSE,
                                                       !.state = "searching"])

\* Mutant: a discovery that the earlier process will not answer is still awaited.
OwnerChangedDiscovering(s, present) ==
    LET reset == [ReleaseModem(Unbind(NextGeneration(Unretried(s)))) EXCEPT !.mine = FALSE]
    IN IF ~s.running THEN s
       ELSE IF present THEN Discover([reset EXCEPT !.state = "searching"])
            ELSE ScheduleRetry([reset EXCEPT !.state = "unavailable"])

OnOwnerChanged(s, present) ==
    LET reset == [ReleaseModem(Unbind(NextGeneration(Unretried(s))))
                      EXCEPT !.mine = FALSE, !.discovering = FALSE]
    IN IF ~s.running THEN s
       ELSE IF present THEN Discover([reset EXCEPT !.state = "searching"])
            ELSE ScheduleRetry([reset EXCEPT !.state = "unavailable"])

-----------------------------------------------------------------------------
(* The life of the controller. *)

\* watching: the bus lets the daemon watch oFono.
Start(s, watching) ==
    IF ~s.enabled \/ s.running THEN s
    ELSE IF watching THEN Discover(NextGeneration([s EXCEPT !.running = TRUE]))
         ELSE ScheduleRestart(NextGeneration([s EXCEPT !.state = "unavailable"]))

Stop(s) ==
    LET quiet == NextGeneration([Unretried(s) EXCEPT !.running = FALSE,
                                                     !.discovering = FALSE])
    IN ReleaseModem(PowerDown(Unbind(quiet)))

SetEnabled(s, on) ==
    IF on THEN Start([s EXCEPT !.enabled = TRUE, !.state = "unavailable"], TRUE)
    ELSE [Stop(Unbind(s)) EXCEPT !.enabled = FALSE, !.state = "disabled"]

Poke(s) ==
    LET seen == [s EXCEPT !.reached = ofono.reach]
    IN IF /\ ofono.reach /\ ~s.reached /\ s.running /\ s.modem # None
          /\ s.state \in {"connecting", "conflict"} /\ ~s.flying
       THEN Advance([Unretried(seen) EXCEPT !.blocked = FALSE, !.failures = 0])
       ELSE seen

-----------------------------------------------------------------------------
(* oFono. *)

\* The signals the daemon has a watch for.
Watched(s, op) ==
    CASE op \in {"owner", "added", "removed"} -> s.running
      [] op = "property" -> s.modem # None
      [] OTHER -> s.bound

Signal(op, value) == [op |-> op, ok |-> TRUE, name |-> None, value |-> value, cur |-> TRUE]
Reply(request, ok, value) ==
    [op |-> request.op, ok |-> ok, name |-> None, value |-> value, cur |-> request.cur]

Deliver(s, messages) ==
    [s EXCEPT !.in = @ \o SelectSeq(messages, LAMBDA m : m.op \in Requests \/ Watched(s, m.op))]

Changes(names, on) ==
    [i \in DOMAIN names |-> [Signal("property", None) EXCEPT !.name = names[i], !.ok = on]]

Owner(there) == [Signal("owner", None) EXCEPT !.ok = there]

\* The signals of a modem that falls from level n to level to.
Falls(n, to) == Reverse(Changes(SubSeq(Props, to + 1, n), FALSE))

Fault == faults < MaxFaults /\ faults' = faults + 1
NoFault == UNCHANGED faults

\* oFono handles the oldest request; a process that is not there answers with an error.
HandleSetPowered(rest, r) ==
    CASE ofono.level = None \/ rest.powering # "no" ->
             cc' = Deliver(rest, <<Reply(r, FALSE, None)>>) /\ UNCHANGED ofono
      [] ofono.level # None /\ rest.powering = "no" /\ ofono.level >= 1 ->
             /\ cc' = Deliver(rest, <<Reply(r, TRUE, None)>>)
             /\ ofono' = [ofono EXCEPT !.asked = TRUE]
      [] OTHER ->
             /\ cc' = [rest EXCEPT !.powering = IF r.cur THEN "current" ELSE "stale"]
             /\ UNCHANGED ofono

HandleSetOnline(rest, r) ==
    IF ofono.level = None \/ ofono.level = 0
    THEN cc' = Deliver(rest, <<Reply(r, FALSE, None)>>) /\ UNCHANGED ofono
    ELSE LET done == <<Reply(r, TRUE, None)>>
             rise == IF ofono.level = 1 THEN Changes(<<"Online">>, TRUE) ELSE <<>>
         IN /\ ofono' = [ofono EXCEPT !.level = IF @ = 1 THEN 2 ELSE @]
            /\ \/ cc' = Deliver(rest, done \o rise)
               \/ cc' = Deliver(rest, rise \o done)

HandlePowerDown(rest) ==
    IF ofono.level = None \/ rest.powering # "no"
    THEN cc' = rest /\ UNCHANGED ofono
    ELSE /\ cc' = Deliver(rest, Falls(ofono.level, 0))
         /\ ofono' = [ofono EXCEPT !.level = 0, !.calls = {}, !.asked = FALSE]

OfonoHandles ==
    /\ cc.out # <<>>
    /\ LET r == Head(cc.out)
           rest == [cc EXCEPT !.out = Tail(@)]
       IN CASE ~ofono.up ->
                   /\ cc' = IF r.op = "PowerDown" THEN rest
                            ELSE Deliver(rest, <<Reply(r, FALSE, None)>>)
                   /\ UNCHANGED ofono
            [] ofono.up /\ r.op = "GetModems" ->
                   /\ cc' = Deliver(rest, <<Reply(r, TRUE,
                                IF ofono.level = None THEN None ELSE Level(ofono.level))>>)
                   /\ UNCHANGED ofono
            [] ofono.up /\ r.op = "GetCalls" ->
                   /\ cc' = Deliver(rest, <<Reply(r, ofono.level = 3, ofono.calls)>>)
                   /\ UNCHANGED ofono
            [] ofono.up /\ r.op = "Powered" -> HandleSetPowered(rest, r)
            [] ofono.up /\ r.op = "Online" -> HandleSetOnline(rest, r)
            [] ofono.up /\ r.op = "PowerDown" -> HandlePowerDown(rest)
    /\ NoFault /\ UNCHANGED events

PoweringReply(ok) ==
    <<Reply([op |-> "Powered", cur |-> cc.powering = "current"], ok, None)>>

\* The service-level connection is there: the modem is powered and the request answered.
PoweredUp ==
    /\ cc.powering # "no" /\ ofono.up /\ ofono.reach
    /\ LET idle == [cc EXCEPT !.powering = "no"]
           rise == Changes(<<"Powered">>, TRUE)
       IN \/ cc' = Deliver(idle, PoweringReply(TRUE) \o rise)
          \/ cc' = Deliver(idle, rise \o PoweringReply(TRUE))
    /\ ofono' = [ofono EXCEPT !.level = 1, !.asked = TRUE]
    /\ NoFault /\ UNCHANGED events

\* oFono gives up, as it must when the phone is out of reach.
PoweredRefused ==
    /\ cc.powering # "no" /\ ofono.up
    /\ cc' = Deliver([cc EXCEPT !.powering = "no"], PoweringReply(FALSE))
    /\ IF ofono.reach THEN Fault ELSE NoFault
    /\ UNCHANGED <<ofono, events>>

\* The call manager of an online modem appears.
VoiceAppears ==
    /\ ofono.up /\ ofono.level = 2
    /\ ofono' = [ofono EXCEPT !.level = 3]
    /\ cc' = Deliver(cc, Changes(<<"Voice">>, TRUE))
    /\ NoFault /\ UNCHANGED events

\* The link of a powered modem is lost.
ModemDrops ==
    /\ ofono.up /\ ofono.level # None /\ ofono.level > 0 /\ Fault
    /\ \E to \in 0..(ofono.level - 1) :
           /\ cc' = Deliver(cc, Falls(ofono.level, to))
           /\ ofono' = [ofono EXCEPT !.level = to, !.calls = {},
                                     !.asked = @ /\ to > 0]
    /\ UNCHANGED events

ModemAppears ==
    /\ ofono.up /\ ofono.level = None
    /\ ofono' = [ofono EXCEPT !.level = 0]
    /\ cc' = Deliver(cc, <<Signal("added", {})>>)
    /\ NoFault /\ UNCHANGED events

\* The modem goes, with the request it was working on.
ModemVanishes ==
    /\ ofono.up /\ ofono.level # None /\ Fault
    /\ cc' = Deliver([cc EXCEPT !.powering = "no"],
                     (IF cc.powering = "no" THEN <<>> ELSE PoweringReply(FALSE))
                     \o Falls(ofono.level, 0) \o <<Signal("removed", None)>>)
    /\ ofono' = [ofono EXCEPT !.level = None, !.calls = {}, !.asked = FALSE]
    /\ UNCHANGED events

OfonoExits ==
    /\ ofono.up /\ Fault
    /\ LET failed == IF cc.powering = "no" THEN <<>> ELSE PoweringReply(FALSE)
           gone == <<Owner(FALSE)>>
       IN cc' = Deliver([cc EXCEPT !.powering = "no"], failed \o gone)
    /\ ofono' = [ofono EXCEPT !.up = FALSE, !.level = None, !.calls = {}, !.asked = FALSE]
    /\ UNCHANGED events

OfonoStarts ==
    /\ ~ofono.up
    /\ ofono' = [ofono EXCEPT !.up = TRUE]
    /\ cc' = Deliver(cc, <<Owner(TRUE)>>)
    /\ NoFault /\ UNCHANGED events

CallBegins ==
    /\ ofono.level = 3 /\ events < MaxEvents
    /\ \E id \in Ids \ ofono.calls :
           /\ ofono' = [ofono EXCEPT !.calls = @ \union {id}]
           /\ cc' = Deliver(cc, <<Signal("callAdded", {id})>>)
    /\ events' = events + 1
    /\ NoFault

CallEnds ==
    /\ \E id \in ofono.calls :
           /\ ofono' = [ofono EXCEPT !.calls = @ \ {id}]
           /\ cc' = Deliver(cc, <<Signal("callRemoved", {id})>>)
    /\ NoFault /\ UNCHANGED events

ReachChanges ==
    /\ \/ ofono.reach /\ Fault
       \/ ~ofono.reach /\ NoFault
    /\ ofono' = [ofono EXCEPT !.reach = ~@]
    /\ UNCHANGED <<cc, events>>

-----------------------------------------------------------------------------
(* The handlers. *)

Mixed(s, m) == [s EXCEPT !.mixed = @ \/ ~m.cur]

Handled(s, m) ==
    CASE m.op = "owner" -> {OnOwnerChanged(s, m.ok)}
      [] m.op = "added" /\ s.running -> {Adopt(Unretried(s), m.value)}
      [] m.op = "removed" /\ s.running -> {OnModemRemoved(s)}
      [] m.op = "property" -> {ModemProperty(s, m.name, m.ok)}
      [] m.op = "callAdded" /\ s.bound -> {CallAdded(Mixed(s, m), id) : id \in m.value}
      [] m.op = "callRemoved" /\ s.bound -> {CallRemoved(Mixed(s, m), id) : id \in m.value}
      [] m.op = "GetModems" /\ m.cur ->
             IF m.ok THEN {OnModems(s, m.value)} ELSE OnModemsFailed(s)
      [] m.op = "GetCalls" /\ m.cur ->
             {IF m.ok THEN ExistingCalls(s, m.value) ELSE [s EXCEPT !.changed = None]}
      [] m.op \in {"Powered", "Online"} /\ m.cur ->
             {IF m.ok THEN PropertyDone(s, m.op) ELSE PropertyFailed(s, m.op)}
      [] m.op \in {"Powered", "Online"} /\ ~m.cur ->
             {IF m.ok THEN StaleDone(s, m.op) ELSE s}
      [] OTHER -> {s}

Dispatch ==
    /\ cc.in # <<>>
    /\ cc' \in Handled([cc EXCEPT !.in = Tail(@)], Head(cc.in))
    /\ NoFault /\ UNCHANGED <<ofono, events>>

Starts ==
    /\ cc.enabled /\ ~cc.running /\ cc.retry = None
    /\ \/ cc' = Start(cc, TRUE) /\ NoFault
       \/ cc' = Start(cc, FALSE) /\ Fault
    /\ UNCHANGED <<ofono, events>>

\* Calls are switched off or on.
Switch ==
    /\ \/ cc.enabled /\ cc.running /\ cc' = SetEnabled(cc, FALSE)
       \/ ~cc.enabled /\ cc' = SetEnabled(cc, TRUE)
    /\ Fault /\ UNCHANGED <<ofono, events>>

\* A timer that fires ahead of a message under way counts as a fault.
Early == IF cc.in = <<>> /\ cc.out = <<>> THEN NoFault ELSE Fault

RetryTimer ==
    /\ cc.retry # None
    /\ cc' = IF cc.retry = "discover" THEN Discover(Unretried(cc))
             ELSE Start(Unretried(cc), TRUE)
    /\ Early /\ UNCHANGED <<ofono, events>>

\* oFono gives a Powered=true up before the watchdog does.
BringupTimer ==
    /\ cc.bringup
    /\ cc' = BringupTimeout(cc)
    /\ IF cc.powering = "no" THEN Early ELSE Fault
    /\ UNCHANGED <<ofono, events>>

\* The daemon reports a change of the Classic link.
PokeCalls ==
    /\ cc.reached # ofono.reach
    /\ cc' = Poke(cc)
    /\ NoFault /\ UNCHANGED <<ofono, events>>

Next ==
    \/ OfonoHandles \/ PoweredUp \/ PoweredRefused \/ VoiceAppears \/ ModemDrops
    \/ ModemAppears \/ ModemVanishes \/ OfonoExits \/ OfonoStarts
    \/ CallBegins \/ CallEnds \/ ReachChanges
    \/ Dispatch \/ Starts \/ Switch \/ RetryTimer \/ BringupTimer \/ PokeCalls

SafetySpec == Init /\ [][Next]_callVars

\* oFono answers, comes back and finds the modem; the daemon dispatches what it is sent,
\* its timers fire, and its Classic link returns.
FairStep(k) ==
    CASE k = 1 -> OfonoHandles [] k = 2 -> (PoweredUp \/ PoweredRefused)
      [] k = 3 -> VoiceAppears [] k = 4 -> ModemAppears [] k = 5 -> OfonoStarts
      [] k = 6 -> ReachChanges [] k = 7 -> Dispatch [] k = 8 -> Starts
      [] k = 9 -> RetryTimer [] k = 10 -> BringupTimer [] k = 11 -> PokeCalls
      [] OTHER -> FALSE

Fairness == \A k \in 1 .. 11 : WF_callVars(FairStep(k))

Spec == SafetySpec /\ Fairness

-----------------------------------------------------------------------------
(* Properties. *)

Quiet == cc.in = <<>> /\ cc.out = <<>> /\ cc.powering = "no"

\* Once everything sent has been dispatched, the calls shown are the calls of the phone: a
\* snapshot that signals overtook or that an earlier binding asked for adds none and
\* hides none (_snapshot_changes, _calls_generation).  Queued signals of an earlier
\* binding are the exception, see CallsExact.
CallsFollow ==
    Quiet => cc.mixed \/ cc.calls = (IF cc.bound THEN ofono.calls ELSE {})

\* "Its old snapshot and queued signals must not populate the new binding" (_unbind): the
\* calls shown are the calls of the phone, whatever was queued when the modem went
\* offline and came back.
CallsExact == Quiet => cc.calls = IF cc.bound THEN ofono.calls ELSE {}

\* Call audio does not stay on a computer without a call UI: when calls are off and
\* nothing is under way, oFono does not keep a modem powered at our request, though the
\* switch came while that request was pending (_power_down, stale in _call).  The
\* exception is an answer that finds calls switched on again: it leaves the modem to be
\* adopted, and a second switch before that forgets it.
ModemReleased == Quiet /\ ~cc.running => ~ofono.asked \/ cc.resumed

Wanted == cc.enabled /\ cc.running
Serving == cc.state = "ready" /\ cc.bound

\* With calls on and the phone in reach, calls become ready and stay so.
CallsReady == <>[]Wanted => <>[]Serving

=============================================================================
