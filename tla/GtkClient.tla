------------------------------ MODULE GtkClient ------------------------------
(***************************************************************************)
(* The GTK client: DaemonClient with its two worker threads, the coalesced *)
(* reads of the phone card and the Calls tab, and the settings dialog with *)
(* its switches (src/src/blueferry/ui/).                                   *)
(*                                                                         *)
(* Reads run on one thread and requests on another, so that an answer to a *)
(* read made before a request can be delivered after the request's own.    *)
(* The daemon's signals carry nothing; answers and signals are dispatched  *)
(* by the GLib main loop.                                                  *)
(***************************************************************************)
EXTENDS Naturals, Sequences, FiniteSets, Handlers

CONSTANTS
    Mixes,          \* what there is, what happens and how often: see the actions
    None

VARIABLES
    dm,             \* the daemon, as far as a client can tell
    gtk,            \* the client
    bus,            \* signals not yet dispatched
    left            \* how much of the mix is left

gtkVars == <<dm, gtk, bus, left>>

Has(k) == k \in DOMAIN left
Use(k) == Has(k) /\ left[k] > 0 /\ left' = [left EXCEPT ![k] = @ - 1]

Threads == {"read", "request"}
Switches == {"media", "reset"}

\* GetStatus: on is the opt-in of media, calls and call history, sw and plain are preferences
\* of the settings (plain is the notification policy: whether it is another than 'all'), quick
\* one of the card; rev is the revision of the notification rules, and muted stands for the
\* number of muted apps.
Unreachable ==
    [up |-> FALSE, on |-> FALSE, open |-> FALSE, prof |-> 0, sw |-> [n \in Switches |-> FALSE],
     plain |-> FALSE, quick |-> FALSE, rev |-> None, muted |-> None]

NewDaemon ==
    [st |-> [Unreachable EXCEPT !.up = TRUE, !.on = TRUE, !.open = TRUE, !.rev = 0, !.muted = FALSE],
     ver |-> 0, stored |-> [n \in Switches |-> FALSE]]

Idle == [epoch |-> 0, pending |-> FALSE, again |-> FALSE]

NewClient ==
    [available |-> FALSE, shown |-> FALSE, tab |-> FALSE,
     jobs |-> [t \in Threads |-> <<>>], out |-> [t \in Threads |-> None], idle |-> <<>>,
     reads |-> [n \in {"status", "media", "log", "calls"} |-> Idle],
     card |-> Unreachable, media |-> None, quick |-> [shown |-> FALSE, saving |-> FALSE],
     log |-> [rows |-> None, error |-> FALSE, gen |-> 0, syncing |-> FALSE],
     run |-> [key |-> None, calls |-> None, error |-> FALSE, gen |-> 0, busy |-> FALSE],
     last |-> Unreachable, asked |-> FALSE, dis |-> Switches \cup {"plain"},
     row |-> [n \in Switches |-> FALSE], plain |-> FALSE,
     choice |-> [n \in Switches |-> [pending |-> None, confirmed |-> None]],
     kept |-> [n \in Switches |-> None],
     rules |-> [shown |-> FALSE, pending |-> FALSE, serial |-> 0, rev |-> None, loaded |-> None,
                loading |-> None, rows |-> None],
     sets |-> [rev |-> 0, saving |-> {}, items |-> None, before |-> [n \in Switches |-> None]],
     apps |-> [open |-> FALSE, shown |-> FALSE, count |-> None, loaded |-> None, rows |-> None,
               saving |-> FALSE, missed |-> FALSE, failed |-> FALSE],
     tether |-> [pending |-> FALSE, shown |-> None, failed |-> FALSE],
     threads |-> [pending |-> FALSE, again |-> FALSE, rows |-> None, error |-> FALSE]]

-----------------------------------------------------------------------------
(***************************************************************************)
(* _submit(), and CoalescedRead.                                           *)
(***************************************************************************)
Submit(s, thread, job) == [s EXCEPT !.jobs[thread] = Append(@, job)]
Read(s, job) == Submit(s, "read", job)
Ask(s, job) == Submit(s, "request", job)
If(p, s, Step(_)) == IF p THEN Then(s, Step) ELSE s

Watched(s) == s.shown /\ s.tab
PrivateDataAvailable(s) == s.card.up /\ s.card.open
HistoryAvailable(s) == PrivateDataAvailable(s) /\ s.card.on

\* active() of each read
Active(s, n) ==
    CASE n = "status" -> s.shown
      [] n = "media" -> s.shown /\ s.card.on
      [] n = "log" -> Watched(s) /\ HistoryAvailable(s)
      [] n = "calls" -> s.shown /\ s.card.up /\ s.card.on

Reset(s, n) == [s EXCEPT !.reads[n].epoch = @ + 1, !.reads[n].again = FALSE]

Refresh(s, n) ==
    IF (n # "status" /\ ~Has(n)) \/ ~Active(s, n) THEN s
    ELSE IF s.reads[n].pending THEN [s EXCEPT !.reads[n].again = TRUE]
    ELSE Read([s EXCEPT !.reads[n].pending = TRUE], [do |-> n, epoch |-> s.reads[n].epoch])

-----------------------------------------------------------------------------
(***************************************************************************)
(* RunningCalls and CallsPage.                                             *)
(***************************************************************************)
ForgetRunning(s) ==
    LET run == [s.run EXCEPT !.gen = @ + 1, !.busy = FALSE, !.calls = None, !.error = FALSE]
    IN Reset([s EXCEPT !.run = run], "calls")

\* apply_status() of the running calls: another phone, or another state of calls.
RunningStatus(s) ==
    LET key == <<s.card.up, s.card.on, s.card.prof>>
    IN IF key = s.run.key THEN s
       ELSE Refresh(ForgetRunning([s EXCEPT !.run.key = key]), "calls")

SetShown(s) == IF s.shown THEN Refresh(s, "calls") ELSE ForgetRunning(s)

ForgetCalls(s) ==
    Reset([s EXCEPT !.log = [rows |-> None, error |-> FALSE, gen |-> @.gen + 1, syncing |-> FALSE]], "log")

WatchCalls(s) == IF Watched(s) THEN Refresh(s, "log") ELSE ForgetCalls(s)

Access(st) == <<st.up, st.open, st.prof>>

\* apply_status() of the page: what was read under other terms goes, with the replies to come.
CallsStatus(s, was) ==
    LET changed == Access(was) # Access(s.card) \/ was.on # s.card.on
    IN Then(RunningStatus(If(changed, s, ForgetCalls)),
            LAMBDA t : IF changed THEN Refresh(t, "log") ELSE t)

Sync(s) ==
    IF s.log.syncing \/ ~Watched(s) \/ ~HistoryAvailable(s) THEN s
    ELSE Ask([s EXCEPT !.log.syncing = TRUE], [do |-> "sync", gen |-> s.log.gen])

Synced(s, job, r) ==
    IF job.gen # s.log.gen THEN s
    ELSE Then([s EXCEPT !.log.syncing = FALSE], LAMBDA t :
              IF r.ok THEN Refresh(t, "log") ELSE [t EXCEPT !.log.error = @ \/ Watched(t)])

\* _act(): one request on the running calls at a time.
Act(s) ==
    IF s.run.busy \/ ~Active(s, "calls") \/ s.run.calls = None THEN s
    ELSE Ask([s EXCEPT !.run.busy = TRUE], [do |-> "act", gen |-> s.run.gen])

Acted(s, job) == IF job.gen # s.run.gen THEN s ELSE Refresh([s EXCEPT !.run.busy = FALSE], "calls")

-----------------------------------------------------------------------------
(***************************************************************************)
(* PhoneCard and its quick switches.                                       *)
(***************************************************************************)

\* apply() of a quick switch: the row follows the status unless it is being saved.
QuickApply(s) == IF s.quick.saving THEN s ELSE [s EXCEPT !.quick.shown = s.card.quick]

\* _status_loaded(): now playing goes with its opt-in; then the listeners are told.
StatusLoaded(s, st) ==
    LET was == s.card
        t == [s EXCEPT !.card = st]
    IN Then(IF was.on # st.on THEN Reset([t EXCEPT !.media = None], "media") ELSE t, LAMBDA u :
       Then(Refresh(QuickApply(u), "media"), LAMBDA v : CallsStatus(v, was)))

\* set_watched() of the card
WatchCard(s) ==
    Then(Reset(Reset(s, "status"), "media"), LAMBDA t :
         IF t.shown THEN Refresh(Refresh(t, "status"), "media") ELSE [t EXCEPT !.media = None])

\* sync_watches() of the window
SyncWatches(s, shown, tab) ==
    LET t == [s EXCEPT !.shown = shown, !.tab = tab]
    IN Then(If(shown # s.shown, t, LAMBDA u : SetShown(WatchCard(u))),
            LAMBDA u : If(Watched(u) # Watched(s), u, WatchCalls))

QuickToggle(s) ==
    Ask([s EXCEPT !.quick = [shown |-> ~@.shown, saving |-> TRUE]],
        [do |-> "quick", on |-> ~s.quick.shown])

QuickSaved(s, r) ==
    Then([s EXCEPT !.quick.saving = FALSE], LAMBDA t : IF r.ok THEN t ELSE QuickApply(t))

\* The answer of a coalesced read: only one of its own epoch is shown.
Loaded(s, n, r) ==
    CASE n = "status" -> StatusLoaded(s, IF r.ok THEN r.value ELSE Unreachable)
      [] n = "media" -> [s EXCEPT !.media = r.value]
      [] n = "log" ->
             [s EXCEPT !.log.rows = IF r.ok THEN r.value ELSE @, !.log.error = ~r.ok]
      [] n = "calls" -> [s EXCEPT !.run.calls = r.value, !.run.error = ~r.ok]

Completed(s, job, r) ==
    LET n == job.do
        again == s.reads[n].again
        t == [s EXCEPT !.reads[n].pending = FALSE, !.reads[n].again = FALSE]
    IN Then(IF job.epoch = s.reads[n].epoch /\ Active(s, n) THEN Loaded(t, n, r) ELSE t,
            LAMBDA u : IF again THEN Refresh(u, n) ELSE u)

-----------------------------------------------------------------------------
(***************************************************************************)
(* NotificationRules, MutedApps, FeatureSwitches and tethering.            *)
(***************************************************************************)
RulesReload(s) ==
    LET q == s.rules
        asked == [q EXCEPT !.serial = @ + 1, !.loading = q.rev]
    IN IF ~q.shown \/ q.pending \/ q.loading = q.rev THEN s
       ELSE Read([s EXCEPT !.rules = asked], [do |-> "rules", serial |-> q.serial + 1, rev |-> q.rev])

\* apply(): there are rules under the policy 'all' only, and only a successful read
\* acknowledges a revision.
RulesApply(s, st) ==
    LET shown == st.up /\ ~st.plain
        gone == ~shown /\ s.rules.shown
        q == [s.rules EXCEPT !.shown = shown, !.rev = st.rev,
                             !.serial = IF gone THEN @ + 1 ELSE @,
                             !.loaded = IF gone THEN None ELSE @,
                             !.loading = IF gone THEN None ELSE @]
    IN If(shown /\ q.rev # q.loaded, [s EXCEPT !.rules = q], RulesReload)

RulesLoaded(s, job, r) ==
    IF job.serial # s.rules.serial THEN s
    ELSE LET q == [s.rules EXCEPT !.loading = None, !.loaded = IF r.ok THEN job.rev ELSE @,
                                  !.rows = IF r.ok THEN r.value ELSE @]
         IN [s EXCEPT !.rules = q]

\* _begin_change(): a reply to a read made before it is dropped.
ChangeRule(s) ==
    IF ~s.rules.shown \/ s.rules.pending THEN s
    ELSE LET q == [s.rules EXCEPT !.pending = TRUE, !.serial = @ + 1, !.loaded = None, !.loading = None]
         IN Ask([s EXCEPT !.rules = q], [do |-> "rule"])

RuleChanged(s, r) ==
    LET q == [s.rules EXCEPT !.pending = FALSE, !.rows = IF r.ok /\ s.rules.shown THEN r.value ELSE @]
    IN If(r.ok, [s EXCEPT !.rules = q], RulesReload)

\* missed is for the properties: a change was signalled while the daemon seemed away, and has
\* not been read since.
AppsLoad(s) ==
    IF s.apps.shown
    THEN Read([s EXCEPT !.apps.loaded = s.apps.count, !.apps.missed = FALSE], [do |-> "apps"])
    ELSE [s EXCEPT !.apps.missed = TRUE]

\* apply(): another client's mute changes the count.
AppsApply(s, st) ==
    If(st.up /\ s.apps.open /\ st.muted # s.apps.loaded,
       [s EXCEPT !.apps.shown = st.up, !.apps.count = st.muted], AppsLoad)

\* A read that fails leaves the list as it is, silently: failed says so, for the properties.
AppsLoaded(s, r) ==
    LET apps == [s.apps EXCEPT !.rows = IF r.ok THEN r.value ELSE @, !.failed = ~r.ok]
    IN [s EXCEPT !.apps = apps]

\* The switch of an app shows the choice while it is saved, and then what the daemon says.
MuteApp(s) ==
    IF s.apps.saving \/ s.apps.rows = None THEN s
    ELSE Ask([s EXCEPT !.apps.saving = TRUE], [do |-> "mute", on |-> ~s.apps.rows.muted])

\* The answer is about the app's own row; the list is read again.
AppMuted(s, r) ==
    LET row == IF r.ok THEN [s.apps.rows EXCEPT !.muted = r.value] ELSE s.apps.rows
    IN AppsLoad([s EXCEPT !.apps.saving = FALSE, !.apps.rows = row])

LoadFeatures(s) ==
    IF s.sets.saving # {} THEN s
    ELSE Read([s EXCEPT !.sets.rev = @ + 1], [do |-> "features", rev |-> s.sets.rev + 1])

FeaturesLoaded(s, job, r) == IF job.rev # s.sets.rev THEN s ELSE [s EXCEPT !.sets.items = r.value]

FeatureToggled(s, n) ==
    LET sets == [s.sets EXCEPT !.rev = @ + 1, !.saving = @ \cup {n}, !.before[n] = s.sets.items[n],
                               !.items[n] = ~@]
    IN Ask([s EXCEPT !.sets = sets], [do |-> "feature", name |-> n, on |-> ~s.sets.items[n]])

FeatureSaved(s, job, r) ==
    LET sets == [s.sets EXCEPT !.saving = @ \ {job.name}, !.before[job.name] = None,
                               !.items[job.name] = IF r.ok THEN @ ELSE s.sets.before[job.name]]
    IN LoadFeatures([s EXCEPT !.sets = sets])

RefreshTether(s) == IF Has("tether") THEN Read(s, [do |-> "tether"]) ELSE s

TetherRequest(s) ==
    IF s.tether.pending THEN s ELSE Ask([s EXCEPT !.tether.pending = TRUE], [do |-> "command"])

\* A failed read keeps the last known state, silently.
TetherLoaded(s, r) ==
    LET tether == [s.tether EXCEPT !.shown = IF r.ok THEN r.value ELSE @, !.failed = ~r.ok]
    IN [s EXCEPT !.tether = tether]

TetherAnswered(s, r) ==
    IF r.ok THEN [s EXCEPT !.tether = [pending |-> FALSE, shown |-> r.value, failed |-> FALSE]]
    ELSE RefreshTether([s EXCEPT !.tether.pending = FALSE])

-----------------------------------------------------------------------------
(***************************************************************************)
(* SettingsDialog.                                                         *)
(***************************************************************************)
RefreshSettings(s) == IF Has("set") THEN Read(s, [do |-> "settings"]) ELSE s
RefreshAll(s) == RefreshTether(RefreshSettings(s))

\* record_status(): a change of availability makes the card and the settings read again.
RecordStatus(s, st) ==
    IF st.up = s.available THEN s
    ELSE RefreshAll(Refresh([s EXCEPT !.available = st.up], "status"))

\* A variant of ShowSavedChoice: the row shows what the status reports.
ShowReported(s, n, reported) ==
    [s EXCEPT !.row[n] = IF s.choice[n].pending # None THEN s.choice[n].pending ELSE reported]

\* SavedChoice.resolve(), for the row of a switch: the first status after a save that does not
\* report the choice was read before it.
ShowSavedChoice(s, n, reported) ==
    LET c == s.choice[n]
        stale == c.pending = None /\ c.confirmed # None /\ reported # c.confirmed
    IN If(stale,
          [s EXCEPT !.choice[n].confirmed = IF c.pending = None THEN None ELSE @,
                    !.row[n] = IF c.pending # None THEN c.pending
                               ELSE IF stale THEN c.confirmed ELSE reported],
          RefreshSettings)

\* _apply_status() of the settings: rows are set, and can be used unless they are being saved.
ApplyStatus(s, st) ==
    Then(RecordStatus([s EXCEPT !.last = st], st), LAMBDA t :
    Then(IF Has("rules") THEN RulesApply(t, st) ELSE IF Has("apps") THEN AppsApply(t, st) ELSE t, LAMBDA u :
    Then(ShowSavedChoice(u, "media", st.sw["media"]), LAMBDA v :
    Then(ShowSavedChoice(v, "reset", st.sw["reset"]), LAMBDA w :
    Then([w EXCEPT !.plain = st.plain,
                   !.dis = IF st.up THEN {n \in Switches : w.choice[n].pending # None}
                           ELSE Switches \cup {"plain"}], LAMBDA x :
    IF st.up /\ ~st.open /\ ~x.asked
    THEN Ask([x EXCEPT !.asked = TRUE], [do |-> "unlock"]) ELSE x)))))

\* A save failed: the last status read is shown again, on every row, however old it is.
ShowAgain(s) == ApplyStatus([s EXCEPT !.kept = [n \in Switches |-> None]], s.last)

\* _save_switch()
Toggle(s, n) ==
    Ask([s EXCEPT !.row[n] = ~@, !.dis = @ \cup {n}, !.kept[n] = None,
                  !.choice[n] = [pending |-> ~s.row[n], confirmed |-> None]],
        [do |-> "save", name |-> n, on |-> ~s.row[n]])

Saved(s, job, r) ==
    IF ~r.ok THEN ShowAgain([s EXCEPT !.choice[job.name].pending = None])
    ELSE RefreshSettings([s EXCEPT !.choice[job.name] = [pending |-> None, confirmed |-> r.value]])

\* A row without such a choice, as _notification_policy_changed()
TogglePlain(s) ==
    Ask([s EXCEPT !.plain = ~@, !.dis = @ \cup {"plain"}], [do |-> "plain", on |-> ~s.plain])

PlainSaved(s, r) == IF r.ok THEN RefreshSettings(s) ELSE ShowAgain(s)

-----------------------------------------------------------------------------
(***************************************************************************)
(* ConversationsView: the list of conversations.                           *)
(***************************************************************************)
ReloadThreads(s) ==
    IF s.threads.pending THEN [s EXCEPT !.threads.again = TRUE]
    ELSE Read([s EXCEPT !.threads.pending = TRUE], [do |-> "threads"])

\* _reload_failed(): the last list stays, under a banner.
ThreadsLoaded(s, r) ==
    LET t == [s EXCEPT !.threads = [pending |-> FALSE, again |-> FALSE,
                                    rows |-> IF r.ok THEN r.value ELSE @.rows, error |-> ~r.ok]]
    IN If(s.threads.again, t, ReloadThreads)

\* Everything as the window comes up.
Opened ==
    Then(SyncWatches(NewClient, TRUE, FALSE), LAMBDA s :
    Then(RefreshAll(s), LAMBDA t : IF Has("threads") THEN ReloadThreads(t) ELSE t))

Init ==
    /\ left \in Mixes
    /\ dm = NewDaemon
    /\ gtk = Opened
    /\ bus = <<>>

-----------------------------------------------------------------------------
(***************************************************************************)
(* The worker threads and the daemon.                                      *)
(***************************************************************************)
Ok(v) == [ok |-> TRUE, value |-> v]
Failed == [ok |-> FALSE, value |-> None]

\* What a read returns.
Answer(job) ==
    LET st == dm.st
        When(p, v) == IF p THEN Ok(v) ELSE Failed
        private == [ver |-> dm.ver, prof |-> st.prof]
    IN CASE job.do \in {"status", "settings"} -> Ok(st)
         [] job.do = "media" -> When(st.on, dm.ver)
         [] job.do = "log" -> When(st.on /\ st.open, private)
         [] job.do = "calls" -> When(st.on, private)
         [] job.do = "rules" -> Ok(st.rev)
         [] job.do = "apps" -> Ok([at |-> dm.ver, muted |-> st.muted])
         [] job.do \in {"tether", "threads"} -> Ok(dm.ver)
         [] job.do = "features" -> Ok(dm.stored)

\* What a request changes, the signals that follow, and its answer.
Did(d, signals, v) == [dm |-> d, signals |-> signals, answer |-> Ok(v)]

Request(job) ==
    LET Newer(sig) == Did([dm EXCEPT !.ver = @ + 1], <<sig>>, dm.ver + 1)
    IN CASE job.do = "save" ->
                Did([dm EXCEPT !.st.sw[job.name] = job.on], <<"status">>, job.on)
         [] job.do = "plain" -> Did([dm EXCEPT !.st.plain = job.on], <<"apps", "status">>, job.on)
         [] job.do = "quick" -> Did([dm EXCEPT !.st.quick = job.on], <<"status">>, job.on)
         [] job.do = "rule" -> Did([dm EXCEPT !.st.rev = @ + 1], <<>>, dm.st.rev + 1)
         [] job.do = "feature" -> Did([dm EXCEPT !.stored[job.name] = job.on], <<>>, None)
         [] job.do = "unlock" -> Did([dm EXCEPT !.st.open = TRUE], <<"status">>, TRUE)
         [] job.do = "mute" ->
                Did([dm EXCEPT !.st.muted = job.on],
                    IF job.on = dm.st.muted THEN <<>> ELSE <<"apps", "status">>, job.on)
         [] job.do = "command" -> Newer("tether")
         [] job.do = "sync" -> Newer("log")
         [] job.do = "act" -> Newer("calls")

\* kept is the choice that the daemon carried out and nobody has changed since.
Carried(s, job) == IF job.do = "save" THEN [s EXCEPT !.kept[job.name] = job.on] ELSE s
Settling(s, d) ==
    [s EXCEPT !.kept = [n \in Switches |-> IF @[n] = d.st.sw[n] THEN @[n] ELSE None]]

Answered(t, s, d, signals, r) ==
    /\ dm' = d
    /\ bus' = bus \o signals
    /\ gtk' = [Settling(s, d) EXCEPT !.jobs[t] = Tail(@), !.out[t] = [job |-> Head(gtk.jobs[t]), answer |-> r]]

Due(t) == gtk.jobs[t] # <<>> /\ gtk.out[t] = None

CarryOut(job, Result(_)) ==
    LET o == Request(job)
    IN Answered("request", Carried(gtk, job), o.dm, o.signals, Result(o.answer))

Work(t) ==
    /\ Due(t)
    /\ LET job == Head(gtk.jobs[t])
       IN IF t = "request" THEN CarryOut(job, LAMBDA answer : answer)
          ELSE Answered(t, gtk, dm, <<>>, Answer(job))
    /\ UNCHANGED left

ReadFails == Due("read") /\ Use("fail") /\ Answered("read", gtk, dm, <<>>, Failed)

\* A request is refused, or its answer is lost.
RequestFails ==
    /\ Due("request") /\ Use("lost")
    /\ \/ Answered("request", gtk, dm, <<>>, Failed)
       \/ CarryOut(Head(gtk.jobs["request"]), LAMBDA answer : Failed)

\* completed() of _submit(), on the worker thread: the callback is queued.
Finish(t) ==
    /\ gtk.out[t] # None
    /\ gtk' = [gtk EXCEPT !.out[t] = None, !.idle = Append(@, gtk.out[t])]
    /\ UNCHANGED <<dm, bus, left>>

Callback(s, job, r) ==
    CASE job.do \in {"status", "media", "log", "calls"} -> Completed(s, job, r)
      [] job.do = "settings" -> ApplyStatus(s, IF r.ok THEN r.value ELSE Unreachable)
      [] job.do = "rules" -> RulesLoaded(s, job, r)
      [] job.do = "apps" -> AppsLoaded(s, r)
      [] job.do = "features" -> FeaturesLoaded(s, job, r)
      [] job.do = "tether" -> TetherLoaded(s, r)
      [] job.do = "threads" -> ThreadsLoaded(s, r)
      [] job.do = "save" -> Saved(s, job, r)
      [] job.do = "plain" -> PlainSaved(s, r)
      [] job.do = "quick" -> QuickSaved(s, r)
      [] job.do = "rule" -> RuleChanged(s, r)
      [] job.do = "mute" -> AppMuted(s, r)
      [] job.do = "feature" -> FeatureSaved(s, job, r)
      [] job.do = "command" -> TetherAnswered(s, r)
      [] job.do = "sync" -> Synced(s, job, r)
      [] job.do = "act" -> Acted(s, job)
      [] job.do = "unlock" -> RefreshSettings(s)

Deliver ==
    /\ gtk.idle # <<>>
    /\ LET d == Head(gtk.idle) IN gtk' = Callback([gtk EXCEPT !.idle = Tail(@)], d.job, d.answer)
    /\ UNCHANGED <<dm, bus, left>>

Signalled(s, sig) ==
    CASE sig = "status" -> RefreshSettings(Refresh(s, "status"))
      [] sig \in {"media", "log", "calls"} -> Refresh(s, sig)
      [] sig = "apps" -> IF s.apps.open THEN AppsLoad(s) ELSE s
      [] sig = "tether" -> RefreshTether(s)
      [] sig = "threads" -> ReloadThreads(s)

Dispatch ==
    /\ bus # <<>>
    /\ bus' = Tail(bus)
    /\ gtk' = Signalled(gtk, Head(bus))
    /\ UNCHANGED <<dm, left>>

-----------------------------------------------------------------------------
(***************************************************************************)
(* The user, and the daemon's own changes.                                 *)
(***************************************************************************)
Acts(s) == gtk' = s /\ UNCHANGED <<dm, bus>>

\* The window is hidden or shown, or another tab chosen; the settings are opened.
SwitchPage ==
    /\ Use("page")
    /\ \/ Acts(SyncWatches(gtk, ~gtk.shown, gtk.tab))
       \/ Has("log") /\ Acts(SyncWatches(gtk, gtk.shown, ~gtk.tab))
       \/ Has("apps") /\ Acts(If(~gtk.apps.open, [gtk EXCEPT !.apps.open = ~@], AppsLoad))
       \/ Has("features") /\ Acts(LoadFeatures(gtk))

Choose ==
    \/ Use("set") /\ \E n \in Switches \ gtk.dis : Acts(Toggle(gtk, n))
    \/ "plain" \notin gtk.dis /\ Use("plain") /\ Acts(TogglePlain(gtk))
    \/ gtk.card.up /\ ~gtk.quick.saving /\ Use("quick") /\ Acts(QuickToggle(gtk))
    \/ Use("features") /\ gtk.sets.items # None
       /\ \E n \in Switches \ gtk.sets.saving : Acts(FeatureToggled(gtk, n))

\* What a button asks for, where its handler does not return at once.
Press ==
    \/ Use("rules") /\ ChangeRule(gtk) # gtk /\ Acts(ChangeRule(gtk))
    \/ Use("apps") /\ MuteApp(gtk) # gtk /\ Acts(MuteApp(gtk))
    \/ Use("tether") /\ TetherRequest(gtk) # gtk /\ Acts(TetherRequest(gtk))
    \/ Use("sync") /\ Sync(gtk) # gtk /\ Acts(Sync(gtk))
    \/ Use("act") /\ Act(gtk) # gtk /\ Acts(Act(gtk))

Happens(d, sig) == dm' = d /\ bus' = Append(bus, sig) /\ gtk' = Settling(gtk, d)

Changes ==
    \/ \E k \in {"media", "log", "calls", "threads", "apps"} : Use(k) /\ Happens([dm EXCEPT !.ver = @ + 1], k)
    \/ Use("turn") /\ Happens([dm EXCEPT !.st.on = ~@], "status")
    \/ Use("phone") /\ Happens([dm EXCEPT !.st.prof = @ + 1], "status")
    \/ Use("lock") /\ Happens([dm EXCEPT !.st.open = ~@], "status")
    \/ Use("other") /\ \E n \in Switches : Happens([dm EXCEPT !.st.sw[n] = ~@], "status")

-----------------------------------------------------------------------------
Next ==
    \/ \E t \in Threads : Work(t) \/ Finish(t)
    \/ ReadFails \/ RequestFails \/ Deliver \/ Dispatch
    \/ SwitchPage \/ Choose \/ Press \/ Changes

\* Both threads and the main loop run.
FairStep(k) ==
    \/ k = 1 /\ \E t \in Threads : Work(t) \/ Finish(t)
    \/ k = 2 /\ Deliver
    \/ k = 3 /\ Dispatch

SafetySpec == Init /\ [][Next]_gtkVars
Spec == SafetySpec /\ \A k \in 1 .. 3 : WF_gtkVars(FairStep(k))

-----------------------------------------------------------------------------
(***************************************************************************)
(* Properties.                                                             *)
(***************************************************************************)

\* Private data is shown only where and while it may be: now playing while its opt-in is on,
\* calls of the phone the card names and only while the view reads them.  No answer asked for
\* before a view was hidden, the phone changed or an opt-in went brings them back.
Forgets ==
    /\ gtk.media # None => Active(gtk, "media")
    /\ gtk.log.rows # None => Active(gtk, "log") /\ gtk.log.rows.prof >= gtk.card.prof
    /\ gtk.run.calls # None => Active(gtk, "calls") /\ gtk.run.calls.prof >= gtk.card.prof

\* A switch whose choice the daemon has carried out shows it, whatever was read before, until
\* somebody changes it or some save fails, which shows the last status read on every row (see
\* ShowAgain); and the rules shown are no older than the revision acknowledged.
ChoiceStands ==
    /\ \A n \in Switches : gtk.kept[n] # None /\ gtk.last.up => gtk.row[n] = gtk.kept[n]
    /\ gtk.rules.loaded # None => gtk.rules.rows >= gtk.rules.loaded

Settled ==
    gtk.idle = <<>> /\ bus = <<>> /\ \A t \in Threads : gtk.jobs[t] = <<>> /\ gtk.out[t] = None

\* What StatusChanged tells of: the rules change silently.
Told(st) == [st EXCEPT !.rev = None]

\* When nothing is on its way, what is shown is what the daemon has, unless the last read of it
\* failed: a banner says so over the conversations, an error on the Calls tab, and nothing where
\* the code keeps the last known tether state and list of apps.  Of the apps, a change signalled
\* while the daemon seemed away is missed too.
SettlesCurrent ==
    Settled =>
        /\ \A n \in DOMAIN gtk.reads : ~gtk.reads[n].pending
        /\ gtk.shown /\ gtk.card.up =>
               /\ Told(gtk.card) = Told(dm.st)
               /\ Has("media") => gtk.media \in {None, dm.ver}
               /\ Has("log") /\ Active(gtk, "log") => gtk.log.error \/ gtk.log.rows.ver = dm.ver
               /\ Has("calls") /\ dm.st.on => gtk.run.error \/ gtk.run.calls.ver = dm.ver
               /\ Has("quick") => gtk.quick = [shown |-> dm.st.quick, saving |-> FALSE]
        /\ ~gtk.log.syncing /\ ~gtk.run.busy
        /\ Has("set") /\ gtk.last.up =>
               /\ Told(gtk.last) = Told(dm.st) /\ gtk.row = dm.st.sw /\ gtk.dis = {}
               /\ gtk.plain = dm.st.plain
        /\ Has("rules") => ~gtk.rules.pending /\ gtk.rules.loaded \in {None, gtk.rules.rev}
        /\ Has("tether") => ~gtk.tether.pending /\ (gtk.tether.failed \/ gtk.tether.shown = dm.ver)
        /\ Has("threads") => gtk.threads.error \/ gtk.threads.rows = dm.ver
        /\ ~gtk.apps.saving
        /\ gtk.apps.open /\ gtk.last.up =>
               gtk.apps.missed \/ gtk.apps.failed \/ gtk.apps.rows = [at |-> dm.ver, muted |-> dm.st.muted]
        /\ gtk.sets.saving = {} /\ gtk.sets.items \in {None, dm.stored}

=============================================================================
