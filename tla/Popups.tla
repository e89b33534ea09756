------------------------------- MODULE Popups -------------------------------
(***************************************************************************)
(* Desktop popups: class LibnotifySink of                                  *)
(* src/src/blueferry/sinks/libnotify.py, the part of EventDispatcher       *)
(* (event_dispatcher.py) that keeps it, and the notification server.       *)
(*                                                                         *)
(* The sink's tables are one set of entries [table, nid, ref].  The server *)
(* numbers its popups from 1 again when it is started anew, so an id alone *)
(* says little.  Notify blocks; CloseNotification, an amended popup and a  *)
(* plugin's popup are asynchronous (calls); the server's signals and its   *)
(* replies arrive in one order (signals).                                  *)
(***************************************************************************)
EXTENDS Naturals, Sequences, FiniteSets, SequencesExt, FiniteSetsExt

CONSTANTS
    Mixes,          \* what comes, and how often: functions from "message", "app", "call",
                    \* "plugin", "amend" and "click" to numbers
    Limit,          \* MAX_DESKTOP_MESSAGE_TRACKERS, MAX_ANCS_ACTION_POPUPS, ...
    MaxPopups,      \* bound of the popups of one server
    MaxFaults,      \* bound of failing calls and of exits of the server
    None

VARIABLES
    dk,             \* the dispatcher and its sink
    desk,           \* the notification server, and what the user did
    events, faults

popupVars == <<dk, desk, events, faults>>

\* up: _setup_complete; sink: the server the libnotify sink is bound to, or
\* None; retry: its timer; buttons:
\* _server_actions; entries: its tables; ringing, live: the calls that ring and the ANCS
\* notifications of this session; acting: the phone's actions under way; mirror: the user's
\* choice to close popups of removed notifications;
\* lost: the popups the sink forgot at its limit or its close().
\* grace: the click ids of popups dismissed a moment ago; throttled: a target was opened
\* within the last second; launched: what was opened.
\* Events are numbered: the number is the message, the call, the notification's offer token
\* or the plugin's note.
Init ==
    /\ \E mirror \in BOOLEAN :
           dk = [up |-> TRUE, sink |-> 1, retry |-> FALSE, buttons |-> TRUE, entries |-> {},
                 ringing |-> {}, live |-> {}, acting |-> <<>>, lost |-> {}, grace |-> {}, throttled |-> FALSE,
                 launched |-> <<>>, mirror |-> mirror]
    /\ desk = [owned |-> TRUE, server |-> 1, last |-> 0, shown |-> {}, calls |-> <<>>, signals |-> <<>>,
               dismissed |-> {}, marked |-> {}, removed |-> {}]
    /\ events \in Mixes /\ faults = 0

Comes(kind) ==
    kind \in DOMAIN events /\ events[kind] > 0 /\ events' = [events EXCEPT ![kind] = @ - 1]

\* The number of the event that comes: one less each time.
Coming == MapThenSumSet(LAMBDA kind : events[kind], DOMAIN events)

Fault == faults < MaxFaults /\ faults' = faults + 1
NoFault == UNCHANGED faults

-----------------------------------------------------------------------------
(* The tables. *)

Entry(table, nid, ref) == [table |-> table, nid |-> nid, ref |-> ref]
In(s, table) == {e \in s.entries : e.table = table}
Without(s, nids) == [s EXCEPT !.entries = {e \in @ : e.nid \notin nids}]

\* Calls reach the server the sink is bound to, while it lives.
Reaches == dk.sink = desk.server /\ desk.owned

CloseAsync(d, nids) ==
    LET order == SetToSortSeq(nids, <)
    IN IF ~Reaches THEN d
       ELSE [d EXCEPT !.calls = @ \o [i \in DOMAIN order |-> [op |-> "close", nid |-> order[i]]]]

\* _track_ancs_actions() and _track_ancs_popup(): the oldest is forgotten, not closed.
Bounded(s, table) ==
    LET nids == {e.nid : e \in In(s, table)}
    IN IF Cardinality(nids) <= Limit THEN s
       ELSE LET oldest == {e \in In(s, table) : e.nid = Min(nids)}
            IN [s EXCEPT !.entries = @ \ oldest, !.lost = @ \union {e.ref : e \in oldest}]

\* _prune_trackers(): the oldest message popup, or the oldest with a click rule, is
\* forgotten and closed.
Excess(s) ==
    LET Oldest(table) == LET nids == {e.nid : e \in In(s, table)}
                         IN IF Cardinality(nids) <= Limit THEN {} ELSE {Min(nids)}
    IN Oldest("message") \union Oldest("clicks")

\* What it forgets of them: what _ancs_popups and the like hold stays.
Pruned(s, nids) ==
    [s EXCEPT !.entries = {e \in @ : ~(e.nid \in nids /\ e.table \in {"message", "clicks"})}]

-----------------------------------------------------------------------------
(* The dispatcher and the sink's life. *)

\* Mutant: the tables outlive the server they speak of.
ClosedKeepingTables(s) == [s EXCEPT !.sink = None, !.buttons = FALSE]

\* close(): every table is cleared.
Closed(s) ==
    [s EXCEPT !.sink = None, !.buttons = FALSE, !.entries = {}, !.grace = {},
              !.lost = @ \union {e.ref : e \in s.entries}]

\* _ensure_libnotify_sink(): the constructor fails without a server, and may fail with one.
Ensure(s, works) ==
    IF ~s.up \/ s.sink # None THEN s
    ELSE IF works THEN [s EXCEPT !.sink = desk.server, !.retry = FALSE]
    ELSE [s EXCEPT !.retry = @ \/ desk.owned]

AskCapabilities(d, was, now) ==
    IF now.sink # was.sink /\ now.sink # None THEN [d EXCEPT !.calls = Append(@, [op |-> "caps"])] ELSE d

\* _on_notification_owner_changed()
OwnerChanged(s, owned, works) ==
    IF ~s.up THEN s
    ELSE IF owned THEN Ensure(s, works) ELSE Closed([s EXCEPT !.retry = FALSE])

Retry ==
    /\ dk.up /\ dk.retry
    /\ \E works \in BOOLEAN :
           /\ works => desk.owned
           /\ IF desk.owned /\ ~works THEN Fault ELSE NoFault
           /\ dk' = LET fired == [dk EXCEPT !.retry = FALSE]
                    IN IF desk.owned THEN Ensure(fired, works) ELSE fired
           /\ desk' = AskCapabilities(desk, dk, dk')
    /\ UNCHANGED events

\* stop(): action popups are closed while the server is still ours, and the main loop quits.
Stop ==
    /\ dk.up
    /\ desk' = [CloseAsync(desk, {e.nid : e \in In(dk, "actions") \union In(dk, "retries")})
                   EXCEPT !.signals = <<>>]
    /\ dk' = Closed([dk EXCEPT !.up = FALSE, !.retry = FALSE])
    /\ NoFault /\ UNCHANGED events

-----------------------------------------------------------------------------
(* Events that show a popup. *)

\* The tables that hold a popup: handle(), handle_ancs(), handle_call().
Tables(kind) ==
    CASE kind = "message" -> {"message"}
      [] kind = "app" -> {"popups", "clicks"} \union (IF dk.buttons THEN {"actions"} ELSE {})
      [] kind = "call" -> {"calls"}

\* Notify answers with the id of the popup.
Shown(d, kind, ref) ==
    [d EXCEPT !.last = @ + 1,
              !.shown = @ \union {[nid |-> d.last + 1, kind |-> kind, ref |-> ref]}]

Tracked(s, kind, nid, ref) ==
    LET more == [s EXCEPT !.entries = @ \union {Entry(t, nid, ref) : t \in Tables(kind)}]
    IN IF kind = "app" THEN Bounded(Bounded(more, "actions"), "popups") ELSE more

\* A new event: what the daemon knows of it whether or not it is shown.
Arrived(s, kind, ref) ==
    CASE kind = "call" -> [s EXCEPT !.ringing = @ \union {ref}]
      [] kind = "app" -> [s EXCEPT !.live = @ \union {ref}]
      [] OTHER -> s

\* message(), ancs(), call(): without a sink, under a policy that hides it, for a muted app,
\* or when Notify fails, nothing is shown.
Arrive(kind) ==
    /\ dk.up /\ Comes(kind)
    /\ LET ref == Coming
           known == Arrived(dk, kind, ref)
       IN \/ /\ NoFault /\ UNCHANGED desk /\ dk' = known
          \/ /\ Reaches /\ desk.last < MaxPopups
             /\ LET shown == Shown(desk, kind, ref)
                    tracked == Tracked(known, kind, shown.last, ref)
                    gone == IF kind = "call" THEN {} ELSE Excess(tracked)
                IN /\ dk' = Pruned(tracked, gone)
                   /\ desk' = CloseAsync(shown, gone)
             /\ NoFault

\* handle_plugin_notification(): Notify is asynchronous.
PluginNotifies ==
    /\ dk.up /\ Reaches /\ Comes("plugin")
    /\ desk' = [desk EXCEPT !.calls = Append(@, [op |-> "plugin", ref |-> Coming])]
    /\ NoFault /\ UNCHANGED dk

\* amend_message_popup(), asynchronous too.
Amend ==
    /\ Comes("amend")
    /\ \E e \in In(dk, "message") : Reaches /\
           desk' = [desk EXCEPT !.calls = Append(@, [op |-> "amend", nid |-> e.nid, ref |-> e.ref])]
    /\ NoFault /\ UNCHANGED dk

-----------------------------------------------------------------------------
(* Events that end one. *)

\* _on_msg_props(): the phone marked the message read; _on_closed() will clean up.
ReadOnPhone ==
    /\ \E e \in In(dk, "message") :
           /\ e.ref \notin desk.removed
           /\ desk' = CloseAsync([desk EXCEPT !.removed = @ \union {e.ref}], {e.nid})
    /\ NoFault /\ UNCHANGED <<dk, events>>

\* close_ancs_notification(), when actions were offered, and close_removed_ancs_popup(),
\* when removals are mirrored.
NidsOf(s, tables, ref) == {e.nid : e \in {x \in s.entries : x.table \in tables /\ x.ref = ref}}

RemovedNids(s, ref) ==
    NidsOf(s, {"actions", "retries"} \union (IF s.mirror THEN {"popups"} ELSE {}), ref)

\* Their click rules stay until the server says that they are closed.
Forgotten(s, nids) ==
    [s EXCEPT !.entries = {e \in @ : ~(e.nid \in nids /\ e.table \in {"actions", "retries", "popups"})}]

RemovedOnPhone ==
    /\ dk.up
    /\ \E ref \in dk.live :
           LET nids == RemovedNids(dk, ref)
           IN /\ dk' = Forgotten([dk EXCEPT !.live = @ \ {ref}], nids)
              /\ desk' = CloseAsync([desk EXCEPT !.removed = @ \union {ref}], nids)
    /\ NoFault /\ UNCHANGED events

\* ancs_actions_reset() and ancs_session_reset(): popups without buttons stay, forgotten.
SessionReset ==
    /\ dk.up /\ dk.live # {}
    /\ LET nids == {e.nid : e \in In(dk, "actions") \union In(dk, "retries")}
       IN /\ dk' = [dk EXCEPT !.live = {}, !.entries =
                        {e \in @ : e.table \notin {"actions", "retries", "popups"}}]
          /\ desk' = CloseAsync(desk, nids)
    /\ NoFault /\ UNCHANGED events

\* handle_call() of a call that no longer rings.
RingingEnds ==
    /\ dk.up
    /\ \E ref \in dk.ringing :
           LET nids == NidsOf(dk, {"calls"}, ref)
           IN /\ dk' = Without([dk EXCEPT !.ringing = @ \ {ref}], nids)
              /\ desk' = CloseAsync(desk, nids)
    /\ NoFault /\ UNCHANGED events

-----------------------------------------------------------------------------
(* The server and the user. *)

Signal(d, signal) == [d EXCEPT !.signals = Append(@, signal)]

Leaves(d, popup, reason) ==
    Signal([d EXCEPT !.shown = @ \ {popup}],
           [type |-> "closed", server |-> d.server, nid |-> popup.nid, reason |-> reason])

\* The server executes the calls in their order.  A popup replaced after it was closed is
\* shown again, under an id of its own.
Serve ==
    /\ desk.owned /\ desk.calls # <<>>
    /\ LET call == Head(desk.calls)
           rest == [desk EXCEPT !.calls = Tail(@)]
           same == {p \in desk.shown : call.op # "caps" /\ call.op # "plugin" /\ p.nid = call.nid}
       IN CASE call.op = "caps" -> desk' = Signal(rest, [type |-> "caps", server |-> desk.server])
            [] call.op = "plugin" ->
                   LET shown == Shown(rest, "plugin", call.ref)
                   IN desk' = IF desk.last = MaxPopups THEN rest
                              ELSE Signal(shown, [type |-> "shown", server |-> desk.server,
                                                  nid |-> shown.last, ref |-> call.ref])
            [] call.op = "close" ->
                   desk' = IF same = {} THEN rest ELSE Leaves(rest, CHOOSE p \in same : TRUE, "asked")
            [] call.op = "amend" ->
                   desk' = IF same = {} /\ desk.last < MaxPopups
                           THEN Shown(rest, "message", call.ref) ELSE rest
    /\ NoFault /\ UNCHANGED <<dk, events>>

Expire ==
    /\ dk.up
    /\ \E popup \in desk.shown :
           popup.kind # "call" /\ desk' = Leaves(desk, popup, "expired")
    /\ NoFault /\ UNCHANGED <<dk, events>>

Dismiss ==
    /\ dk.up
    /\ \E popup \in desk.shown :
           desk' = Leaves([desk EXCEPT !.dismissed = @ \union {popup.ref}], popup, "dismissed")
    /\ NoFault /\ UNCHANGED <<dk, events>>

\* A click on a button; a server may send it twice.
Click ==
    /\ dk.up
    /\ Comes("click")
    /\ \E popup \in desk.shown :
           /\ popup.kind \in {"app", "retry", "plugin"}
           /\ desk' = Signal(desk, [type |-> "action", server |-> desk.server, nid |-> popup.nid,
                                    table |-> CASE popup.kind = "app" -> "actions"
                                                [] popup.kind = "retry" -> "retries"
                                                [] popup.kind = "plugin" -> "plugins"])
    /\ NoFault /\ UNCHANGED dk

\* A click on the popup of an app with a click rule.
ClickBody ==
    /\ dk.up
    /\ Comes("click")
    /\ \E popup \in desk.shown :
           /\ popup.kind = "app"
           /\ desk' = Signal(desk, [type |-> "opened", server |-> desk.server, ref |-> popup.ref])
    /\ NoFault /\ UNCHANGED dk

\* The server ends, or one starts.  Calls to the one that ended are lost.
ServerTurns ==
    /\ dk.up
    /\ desk' = IF desk.owned
               THEN Signal([desk EXCEPT !.owned = FALSE, !.shown = {}, !.calls = <<>>],
                           [type |-> "owner", owned |-> FALSE])
               ELSE Signal([desk EXCEPT !.owned = TRUE, !.server = @ + 1, !.last = 0],
                           [type |-> "owner", owned |-> TRUE])
    /\ IF desk.owned THEN Fault ELSE NoFault
    /\ UNCHANGED <<dk, events>>

-----------------------------------------------------------------------------
(* The signals on the main loop. *)

Marks(e, reason) == e.table = "message" /\ reason = "dismissed"

\* pop(): the buttons of a popup are good for one click.
Used(s, e) == [s EXCEPT !.entries = @ \ {e}]

\* _on_action(), with _invoke_ancs_action() and _invoke_plugin_action().
OnAction(s, nid, table) ==
    LET found == {e \in In(s, table) : e.nid = nid}
        e == CHOOSE x \in found : TRUE
    IN IF found = {} THEN s
       ELSE IF table = "plugins" THEN Used(s, e)
       ELSE [Used(s, e) EXCEPT !.acting = Append(@, e.ref)]

\* _activate_app_popup() and open_click(): a click rule fires once, and not while its target
\* is throttled; of a popup that is gone, only shortly after it was dismissed.
Open(s, ref) ==
    LET found == {e \in In(s, "clicks") : e.ref = ref}
    IN IF s.throttled \/ (found = {} /\ ref \notin s.grace) THEN s
       ELSE [s EXCEPT !.entries = @ \ found, !.throttled = TRUE, !.launched = Append(@, ref),
                      !.grace = IF found = {} THEN @ \ {ref} ELSE @]

\* _keep_dismissed_click()
KeepClick(s, signal) ==
    IF signal.reason # "dismissed" THEN s
    ELSE [s EXCEPT !.grace = @ \union {e.ref : e \in {x \in In(s, "clicks") : x.nid = signal.nid}}]

\* What the signal does to the sink that is bound to the server that sent it.
Handled(s, signal) ==
    CASE signal.type = "caps" -> [s EXCEPT !.buttons = TRUE]
      [] signal.type = "shown" ->
             Bounded([s EXCEPT !.entries = @ \union {Entry("plugins", signal.nid, signal.ref)}],
                     "plugins")
      [] signal.type = "action" -> OnAction(s, signal.nid, signal.table)
      [] signal.type = "opened" -> Open(s, signal.ref)
      [] signal.type = "closed" -> Without(KeepClick(s, signal), {signal.nid})

\* _on_closed() defers the read receipt of a message that was dismissed.
NowMarked(s, signal) ==
    IF signal.type # "closed" THEN {}
    ELSE {e.ref : e \in {x \in s.entries : x.nid = signal.nid /\ Marks(x, signal.reason)}}

ServerSignal ==
    /\ desk.signals # <<>> /\ Head(desk.signals).type # "owner"
    /\ LET signal == Head(desk.signals)
           rest == [desk EXCEPT !.signals = Tail(@)]
       IN IF dk.sink # signal.server THEN desk' = rest /\ UNCHANGED dk
          ELSE /\ dk' = Handled(dk, signal)
               /\ desk' = [rest EXCEPT !.marked = @ \union NowMarked(dk, signal)]
    /\ NoFault /\ UNCHANGED events

OwnerSignal ==
    /\ desk.signals # <<>> /\ Head(desk.signals).type = "owner"
    /\ LET signal == Head(desk.signals)
           rest == [desk EXCEPT !.signals = Tail(@)]
       IN \E works \in BOOLEAN :
              /\ works => desk.owned
              /\ IF signal.owned /\ desk.owned /\ ~works THEN Fault ELSE NoFault
              /\ dk' = OwnerChanged(dk, signal.owned, works)
              /\ desk' = AskCapabilities(rest, dk, dk')
    /\ UNCHANGED events

\* A shell ran the popup's command, OpenNotificationClick: at any time after the popup.
HelperOpens ==
    /\ Comes("click")
    /\ dk.sink # None
    /\ \E ref \in dk.grace \union {e.ref : e \in In(dk, "clicks")} : dk' = Open(dk, ref)
    /\ NoFault /\ UNCHANGED desk

\* The grace period, or the second of the throttle, is over.
TimePasses ==
    /\ dk.up
    /\ \/ dk.throttled /\ dk' = [dk EXCEPT !.throttled = FALSE]
       \/ dk.grace # {} /\ dk' = [dk EXCEPT !.grace = {}]
    /\ NoFault /\ UNCHANGED <<desk, events>>

\* _ancs_action_result(): an action that failed may be tried again from a popup of its own.
ActionResult ==
    /\ dk.acting # <<>>
    /\ LET ref == Head(dk.acting)
           over == [dk EXCEPT !.acting = Tail(@)]
       IN \/ dk' = over /\ UNCHANGED desk
          \/ /\ dk.buttons /\ Reaches /\ desk.last < MaxPopups
             /\ LET shown == Shown(desk, "retry", ref)
                IN /\ desk' = shown
                   /\ dk' = Bounded([over EXCEPT !.entries = @ \union
                                         {Entry("retries", shown.last, ref)}], "retries")
    /\ NoFault /\ UNCHANGED events

-----------------------------------------------------------------------------
Next ==
    \/ Retry \/ Stop \/ (\E kind \in {"message", "app", "call"} : Arrive(kind)) \/ PluginNotifies \/ Amend
    \/ ReadOnPhone \/ RemovedOnPhone \/ SessionReset \/ RingingEnds
    \/ Serve \/ Expire \/ Dismiss \/ Click \/ ClickBody \/ ServerTurns
    \/ ServerSignal \/ OwnerSignal \/ HelperOpens \/ TimePasses \/ ActionResult

\* The main loop dispatches, the timer fires, the server executes what it is asked.  Nothing
\* is assumed of the user, of popups' lifetimes, or of the server's staying.
FairStep(k) ==
    CASE k = 1 -> Retry [] k = 2 -> ServerSignal [] k = 3 -> OwnerSignal [] k = 4 -> Serve
      [] k = 5 -> ActionResult [] OTHER -> FALSE

Spec == Init /\ [][Next]_popupVars /\ \A k \in 1 .. 5 : WF_popupVars(FairStep(k))

-----------------------------------------------------------------------------
(* Every id in the sink's tables is a popup of the server the sink is bound to, or the
   signal of its closing is on the way: an id is never kept for a popup that is gone, and
   never taken for a popup of another server (close(), _on_closed()). *)
TablesExact ==
    \A e \in dk.entries :
        /\ dk.sink # None
        /\ dk.sink = desk.server /\ desk.owned =>
               \/ \E p \in desk.shown : p.nid = e.nid /\ p.ref = e.ref
               \/ \E i \in DOMAIN desk.signals :
                      /\ desk.signals[i].type = "closed" /\ desk.signals[i].nid = e.nid
                      /\ desk.signals[i].server = desk.server

(* A message is marked read on the phone only because the user dismissed a popup of that
   very message; an expired one, and one closed because the phone had read it, never
   (_on_closed()).  An iPhone action is never under way twice for one click, and a popup
   opens its target once however the click reaches the daemon (_invoke_ancs_action(),
   _activate_app_popup(), open_click()). *)
OnlyMeantClicks ==
    /\ desk.marked \subseteq desk.dismissed
    /\ IsInjective(dk.acting) /\ IsInjective(dk.launched)

\* A popup of a call that no longer rings, or of a notification that is gone.
Overdue(p) ==
    /\ dk.up
    /\ p.ref \notin dk.lost
    /\ \/ p.kind = "call" /\ p.ref \notin dk.ringing
       \/ p.kind = "app" /\ dk.mirror /\ p.ref \in desk.removed

(* Popups follow the phone: one of a call that was answered elsewhere or of a notification
   that was removed goes, and while a server stays there is a sink for it (handle_call(),
   close_removed_ancs_popup(), _on_notification_owner_changed() and the retry). *)
PopupsFollow ==
    /\ []<>(\A p \in desk.shown : ~Overdue(p))
    /\ <>[](dk.up /\ desk.owned) => <>[](dk.sink = desk.server)

(* The three together. *)
PopupsHonest == [](TablesExact /\ OnlyMeantClicks) /\ PopupsFollow
=============================================================================
