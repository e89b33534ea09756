------------------------------ MODULE QtClient ------------------------------
(***************************************************************************)
(* The Qt client: BridgeController (src/src/blueferry/qt/controller.py)    *)
(* with the models it shares with the other clients (NotificationHistory,  *)
(* ContactBook, GlobalSearch, KeypadTones).                                *)
(*                                                                         *)
(* Every call to the daemon runs on one worker thread, in the order it was *)
(* asked for, and its callbacks run on the GUI thread.  The daemon's       *)
(* signals carry nothing and come by another connection: they only start   *)
(* timers that ask again.  A view is what a page of the window shows; the  *)
(* data of a view is the version the daemon had when it was read.          *)
(***************************************************************************)
EXTENDS Naturals, Sequences, FiniteSets, Handlers

CONSTANTS
    Mixes,          \* which pages there are, what happens and how often: see the actions
    Retries,        \* BUSY_RETRIES
    None

VARIABLES
    dm,             \* the daemon, as far as a client can tell
    qt,             \* the controller
    bus,            \* signals not yet dispatched
    left            \* how much of the mix is left

clientVars == <<dm, qt, bus, left>>

Has(k) == k \in DOMAIN left
Use(k) == Has(k) /\ left[k] > 0 /\ left' = [left EXCEPT ![k] = @ - 1]

Switches == {1, 2}
Faces == {1, 2}             \* the addresses on screen; only the first one has a photo
MaxPending == 1             \* MAX_PENDING_AVATARS
MaxTones == 2               \* MAX_DTMF_TONES, which is 32

\* GetStatus: on is the opt-in of the page, open the storage.
Unavailable ==
    [up |-> FALSE, on |-> FALSE, open |-> FALSE, photos |-> FALSE, epoch |-> None, rev |-> None]

NewDaemon ==
    [st |-> [up |-> TRUE, on |-> TRUE, open |-> TRUE, photos |-> TRUE, epoch |-> 0, rev |-> 0],
     ver |-> 0, call |-> 1, got |-> <<>>, stored |-> [n \in Switches |-> FALSE]]

\* jobs, done: the worker's queue and the answers on their way to the GUI thread.
NewController ==
    [status |-> Unavailable, threads |-> [at |-> None, error |-> FALSE], refreshing |-> FALSE,
     again |-> FALSE, timers |-> {}, jobs |-> <<[do |-> "start"]>>, done |-> <<>>, asked |-> FALSE,
     notes |-> [watched |-> FALSE, gen |-> 0, loading |-> FALSE, again |-> FALSE, rows |-> None,
                error |-> FALSE, key |-> None],
     book |-> [watched |-> FALSE, supported |-> FALSE, epoch |-> None, photos |-> FALSE, pgen |-> 0,
               list |-> 0, open |-> 0, rows |-> {}, loaded |-> FALSE, loading |-> FALSE, error |-> FALSE,
               query |-> 0, about |-> 0, card |-> None, photo |-> None],
     search |-> [supported |-> FALSE, sources |-> None, query |-> 0, serial |-> 0, retries |-> 0,
                 shown |-> None, loading |-> FALSE, error |-> FALSE, since |-> 0],
     log |-> [tab |-> FALSE, watched |-> FALSE, loading |-> FALSE, again |-> FALSE, rows |-> None,
              error |-> FALSE],
     apps |-> [watched |-> FALSE, rows |-> None, error |-> FALSE],
     faces |-> [known |-> <<FALSE, None>>, gen |-> 0, kept |-> [a \in Faces |-> None],
                missing |-> {}, pending |-> {}, backoff |-> {}, later |-> {}],
     calls |-> [key |-> None, list |-> None, state |-> "disabled"],
     keys |-> [call |-> None, pending |-> <<>>, busy |-> FALSE, pressed |-> <<>>],
     media |-> None,
     find |-> [query |-> 0, serial |-> 0, found |-> None],
     tether |-> [pending |-> FALSE, shown |-> None, error |-> FALSE],
     sets |-> [rev |-> 0, saving |-> {}, items |-> None, before |-> [n \in Switches |-> None]]]

Init ==
    /\ left \in Mixes
    /\ dm \in {[NewDaemon EXCEPT !.st.open = o] : o \in IF Has("unlock") THEN BOOLEAN ELSE {TRUE}}
    /\ qt = NewController
    /\ bus = <<>>

-----------------------------------------------------------------------------
(***************************************************************************)
(* _run() and the timers.                                                  *)
(***************************************************************************)
Run(s, job) == [s EXCEPT !.jobs = Append(@, job)]
Start(s, t) == [s EXCEPT !.timers = @ \cup {t}]
Stop(s, t) == [s EXCEPT !.timers = @ \ {t}]
If(p, s, Step(_)) == IF p THEN Then(s, Step) ELSE s

-----------------------------------------------------------------------------
(***************************************************************************)
(* NotificationHistory: the notifications tab.                             *)
(***************************************************************************)
Available(s) == s.status.up /\ s.status.on /\ s.status.open

NotesClear(s) ==
    Stop([s EXCEPT !.notes.gen = @ + 1, !.notes.again = FALSE, !.notes.rows = None, !.notes.error = FALSE],
         "notes")

NotesRefresh(s) ==
    IF ~s.notes.watched \/ ~Available(s) THEN s
    ELSE IF s.notes.loading THEN [s EXCEPT !.notes.again = TRUE]
    ELSE Run(Stop([s EXCEPT !.notes.loading = TRUE], "notes"), [do |-> "notes", gen |-> s.notes.gen])

WatchNotes(s, watched) ==
    Then([s EXCEPT !.notes.watched = watched], LAMBDA t : IF watched THEN NotesRefresh(t) ELSE NotesClear(t))

\* sync_status(): nothing read under other terms stays.
SyncStatus(s) ==
    IF s.notes.key = Available(s) THEN s
    ELSE Then(NotesClear([s EXCEPT !.notes.key = Available(s)]), NotesRefresh)

NotesInvalidated(s) == IF s.notes.watched /\ Available(s) THEN Start(s, "notes") ELSE s

\* A variant of NotesLoaded: every answer is shown.
NotesLoadedLate(s, job, r) ==
    If(s.notes.again, [s EXCEPT !.notes.loading = FALSE, !.notes.rows = r.value, !.notes.error = ~r.ok],
       LAMBDA t : NotesRefresh([t EXCEPT !.notes.again = FALSE]))

\* completed() and failed(): the rows, with the keys to pin them by, unless they came too late.
NotesLoaded(s, job, r) ==
    LET current == job.gen = s.notes.gen /\ s.notes.watched /\ Available(s)
    IN If(s.notes.again,
          [s EXCEPT !.notes.loading = FALSE, !.notes.rows = IF current THEN r.value ELSE @,
                    !.notes.error = IF current THEN ~r.ok ELSE @],
          LAMBDA t : NotesRefresh([t EXCEPT !.notes.again = FALSE]))

-----------------------------------------------------------------------------
(***************************************************************************)
(* ContactBook: the contacts tab, a list in two pages and an open card.    *)
(***************************************************************************)
BookLoad(s, page) ==
    Run([s EXCEPT !.book.list = @ + 1, !.book.loading = TRUE],
        [do |-> "book", page |-> page, query |-> s.book.query, serial |-> s.book.list + 1,
         pgen |-> s.book.pgen])

BookReload(s) ==
    IF s.book.watched /\ s.book.supported THEN BookLoad(Stop(s, "book"), 1) ELSE Stop(s, "book")

\* set_query() and load_more(): nothing loads between a query and its first page.
SetContactQuery(s, query) ==
    Then([s EXCEPT !.book.query = query],
         LAMBDA t : IF t.book.watched /\ t.book.supported THEN Start(t, "book") ELSE t)

LoadMore(s) ==
    IF \/ ~s.book.watched \/ s.book.loading \/ ~s.book.supported \/ ~s.book.loaded
       \/ s.book.query # s.book.about \/ \E r \in s.book.rows : r.page = 2
    THEN s ELSE BookLoad(s, 2)

OpenCard(s, id) ==
    IF ~s.book.watched THEN s
    ELSE LET same == s.book.card # None /\ s.book.card.id = id
         IN Run([s EXCEPT !.book.open = @ + 1, !.book.photo = IF same THEN @ ELSE None,
                          !.book.card = [id |-> id, at |-> IF same THEN s.book.card.at ELSE None,
                                         error |-> FALSE]],
                [do |-> "card", id |-> id, serial |-> s.book.open + 1, pgen |-> s.book.pgen])

CloseCard(s) == [s EXCEPT !.book.open = @ + 1, !.book.card = None, !.book.photo = None]

\* _drop_cards(): the card stays open and empty.
DropCards(s) ==
    LET dropped == [s.book EXCEPT !.list = @ + 1, !.open = @ + 1, !.rows = {}, !.loaded = FALSE,
                                  !.loading = FALSE, !.photo = None,
                                  !.card = IF @ = None THEN None
                                           ELSE [id |-> @.id, at |-> None, error |-> FALSE]]
    IN [s EXCEPT !.book = dropped]

WithoutPhotos(rows) == {[r EXCEPT !.photo = FALSE] : r \in rows}

DropPhotos(s) == [s EXCEPT !.book.rows = WithoutPhotos(@), !.book.photo = None]

BookForget(s) ==
    LET empty == [s.book EXCEPT !.list = @ + 1, !.open = @ + 1, !.rows = {}, !.loaded = FALSE,
                                !.loading = FALSE, !.error = FALSE, !.card = None, !.photo = None]
    IN Stop([s EXCEPT !.book = empty], "book")

WatchBook(s, watched) ==
    Then([s EXCEPT !.book.watched = watched], LAMBDA t : IF watched THEN BookReload(t) ELSE BookForget(t))

\* apply_status(): the cards of another epoch go, then the photos, then all is read again.
BookStatus(s) ==
    LET supported == s.status.up
        moved == s.book.epoch # None /\ s.status.epoch # s.book.epoch
        photos == supported /\ s.status.photos
        turned == photos # s.book.photos
    IN Then(If(moved, [s EXCEPT !.book.epoch = s.status.epoch], DropCards), LAMBDA t :
       Then(If(turned, t, LAMBDA u :
                   If(~photos, [u EXCEPT !.book.photos = photos, !.book.pgen = @ + 1], DropPhotos)),
            LAMBDA u :
            IF supported # u.book.supported
            THEN Then([u EXCEPT !.book.supported = supported],
                      LAMBDA v : IF supported THEN BookReload(v) ELSE BookForget(v))
            ELSE IF supported /\ (moved \/ (turned /\ photos))
            THEN Then(BookReload(u), LAMBDA v : IF v.book.card # None THEN OpenCard(v, v.book.card.id) ELSE v)
            ELSE u))

PageLoaded(s, job, r) ==
    IF job.serial # s.book.list \/ ~s.book.watched THEN s
    ELSE LET kept == s.book.photos /\ job.pgen = s.book.pgen
             rows == IF ~r.ok THEN {} ELSE IF kept THEN {r.value} ELSE WithoutPhotos({r.value})
             book == [s.book EXCEPT !.loading = FALSE, !.error = ~r.ok,
                                    !.loaded = IF r.ok THEN TRUE ELSE IF job.page = 1 THEN FALSE ELSE @,
                                    !.about = IF r.ok /\ job.page = 1 THEN job.query ELSE @,
                                    !.rows = IF job.page = 1 THEN rows ELSE @ \cup rows]
         IN [s EXCEPT !.book = book]

CardLoaded(s, job, r) ==
    IF job.serial # s.book.open \/ ~s.book.watched THEN s
    ELSE IF ~r.ok THEN [s EXCEPT !.book.card.error = TRUE]
    ELSE IF r.value = None                      \* the id is of another epoch: NotFound
    THEN BookReload([s EXCEPT !.book.photo = None,
                              !.book.card = [id |-> job.id, at |-> None, error |-> TRUE]])
    ELSE LET kept == s.book.photos /\ job.pgen = s.book.pgen
         IN [s EXCEPT !.book.photo = IF kept /\ r.value.photo THEN r.value.epoch ELSE None,
                      !.book.card = [id |-> job.id, at |-> r.value.epoch, error |-> FALSE]]

-----------------------------------------------------------------------------
(***************************************************************************)
(* GlobalSearch: one answer, of the newest search.                         *)
(***************************************************************************)
SearchRun(s) ==
    IF ~s.search.supported \/ s.search.query = 0 THEN Stop(s, "search")
    ELSE Run(Stop([s EXCEPT !.search.serial = @ + 1, !.search.loading = TRUE], "search"),
             [do |-> "search", query |-> s.search.query, serial |-> s.search.serial + 1])

ClearSearch(s) ==
    Stop([s EXCEPT !.search.serial = @ + 1, !.search.query = 0, !.search.shown = None,
                   !.search.loading = FALSE, !.search.error = FALSE, !.search.retries = 0], "search")

\* invalidate(): the answer shown goes, and one on its way is dropped too.
Invalidate(s) ==
    LET again == s.search.supported /\ s.search.query # 0
        cleared == [s EXCEPT !.search.serial = @ + 1, !.search.shown = None, !.search.error = FALSE,
                             !.search.retries = 0, !.search.loading = again]
    IN IF again THEN Start(cleared, "search") ELSE Stop(cleared, "search")

SetQuery(s, query) ==
    LET typed == [s EXCEPT !.search.query = query, !.search.retries = 0, !.search.serial = @ + 1,
                           !.search.error = FALSE]
    IN IF query # 0 /\ s.search.supported
       THEN Start([typed EXCEPT !.search.loading = TRUE], "search")
       ELSE Stop([typed EXCEPT !.search.loading = FALSE, !.search.shown = None], "search")

SearchStatus(s) ==
    LET previous == s.search.sources
        now == [s EXCEPT !.search.sources = s.status]
    IN IF s.status.up # s.search.supported
       THEN Then([now EXCEPT !.search.supported = s.status.up],
                 LAMBDA t : IF s.status.up THEN t ELSE ClearSearch(t))
       ELSE IF previous # None /\ previous # s.status THEN Invalidate(now) ELSE now

SearchLoaded(s, job, r) ==
    IF job.serial # s.search.serial THEN s
    ELSE IF ~r.ok /\ r.value = "busy"
    THEN IF s.search.retries < Retries THEN Start([s EXCEPT !.search.retries = @ + 1], "search")
         ELSE [s EXCEPT !.search.loading = FALSE, !.search.error = TRUE]
    ELSE [s EXCEPT !.search.loading = FALSE, !.search.error = ~r.ok,
                   !.search.shown = IF r.ok THEN [query |-> job.query, ver |-> r.value] ELSE @]

\* findContacts(): the recipients of a new message.
FindContacts(s, query) ==
    Then([s EXCEPT !.find = [query |-> query, serial |-> @.serial + 1, found |-> None]],
         LAMBDA t : IF query = 0 THEN t
                    ELSE Run(t, [do |-> "find", query |-> query, serial |-> t.find.serial]))

ContactsFound(s, job, r) == IF job.serial # s.find.serial THEN s ELSE [s EXCEPT !.find.found = job.query]

-----------------------------------------------------------------------------
(***************************************************************************)
(* Recent calls, muted apps, media and tethering.                          *)
(***************************************************************************)
LoadCallHistory(s) ==
    IF ~s.status.on \/ ~s.log.watched THEN s
    ELSE IF s.log.loading THEN [s EXCEPT !.log.again = TRUE]
    ELSE Run([s EXCEPT !.log.loading = TRUE], [do |-> "log"])

WatchCallHistory(s, watched) ==
    IF watched THEN LoadCallHistory([s EXCEPT !.log.watched = TRUE])
    ELSE Stop([s EXCEPT !.log.watched = FALSE, !.log.again = FALSE, !.log.rows = None, !.log.error = FALSE],
              "log")

\* syncWatches() of the window: the page is watched while it is shown and there is one.
SyncWatches(s) ==
    LET watched == s.log.tab /\ s.status.on
    IN IF watched = s.log.watched THEN s ELSE WatchCallHistory(s, watched)

CallHistoryLoaded(s, r) ==
    LET w == s.log.watched
    IN If(s.log.again,
          [s EXCEPT !.log.loading = FALSE, !.log.rows = IF w /\ r.ok THEN r.value ELSE @,
                    !.log.error = IF w THEN ~r.ok ELSE @],
          LAMBDA t : LoadCallHistory([t EXCEPT !.log.again = FALSE]))

ReadNotificationApps(s, keep) ==
    IF s.apps.watched /\ s.status.up THEN Run(s, [do |-> "apps", keep |-> keep]) ELSE s

WatchNotificationApps(s, watched) ==
    IF watched THEN ReadNotificationApps([s EXCEPT !.apps.watched = TRUE], FALSE)
    ELSE Stop([s EXCEPT !.apps = [watched |-> FALSE, rows |-> None, error |-> FALSE]], "apps")

NotificationAppsLoaded(s, job, r) ==
    IF ~s.apps.watched THEN s
    ELSE [s EXCEPT !.apps.rows = r.value, !.apps.error = ~r.ok \/ (job.keep /\ @)]

\* setNotificationAppMuted() is answered.
AppMuted(s, r) ==
    IF r.ok THEN Then(ReadNotificationApps([s EXCEPT !.apps.error = FALSE], FALSE), NotesInvalidated)
    ELSE ReadNotificationApps([s EXCEPT !.apps.error = TRUE], TRUE)

RefreshNowPlaying(s) == IF s.status.on THEN Run(s, [do |-> "media"]) ELSE [s EXCEPT !.media = None]

RefreshTether(s) == Run(s, [do |-> "tether"])

TetherCommand(s) ==
    IF s.tether.pending THEN s ELSE Run([s EXCEPT !.tether.pending = TRUE], [do |-> "command"])

\* _tether_result() and _tether_failed(): a failure is announced over the last known state.
TetherLoaded(s, r) ==
    [s EXCEPT !.tether = [pending |-> s.tether.pending, shown |-> IF r.ok THEN r.value ELSE s.tether.shown,
                          error |-> ~r.ok]]

\* completed() and failed(): without an answer, the state is asked for.
TetherAnswered(s, r) ==
    IF r.ok THEN [s EXCEPT !.tether = [pending |-> FALSE, shown |-> r.value, error |-> FALSE]]
    ELSE Start([s EXCEPT !.tether.pending = FALSE], "tether")

-----------------------------------------------------------------------------
(***************************************************************************)
(* Avatars.  The window asks again for all that it shows whenever one      *)
(* arrived or a slot became free.                                          *)
(***************************************************************************)
AvatarSource(s, a) ==
    IF \/ ~s.status.photos \/ s.faces.kept[a] # None
       \/ a \in s.faces.missing \cup s.faces.pending \cup s.faces.backoff
       \/ Cardinality(s.faces.pending) >= MaxPending
    THEN s
    ELSE Run([s EXCEPT !.faces.pending = @ \cup {a}], [do |-> "face", face |-> a, gen |-> s.faces.gen])

AvatarsChanged(s) == Then(AvatarSource(s, 1), LAMBDA t : AvatarSource(t, 2))

AvatarLoaded(s, job, r) ==
    LET a == job.face
        free == [s EXCEPT !.faces.pending = @ \ {a}]
    IN AvatarsChanged(
           IF job.gen # s.faces.gen THEN free
           ELSE IF ~r.ok THEN [free EXCEPT !.faces.backoff = @ \cup {a},
                                           !.faces.later = @ \cup {<<a, job.gen>>}]
           ELSE IF r.value = None THEN [free EXCEPT !.faces.missing = @ \cup {a}]
           ELSE [free EXCEPT !.faces.kept[a] = r.value])

\* release() of _schedule_avatar_retry()
AvatarRetry(s, a, gen) ==
    LET t == [s EXCEPT !.faces.later = @ \ {<<a, gen>>}]
    IN IF gen # s.faces.gen THEN t ELSE AvatarsChanged([t EXCEPT !.faces.backoff = @ \ {a}])

SyncAvatars(s) ==
    LET now == <<s.status.photos, s.status.rev>>
    IN IF ~Has("faces") \/ now = s.faces.known THEN s
       ELSE AvatarsChanged(
                [s EXCEPT !.faces = [known |-> now, gen |-> @.gen + 1, kept |-> [a \in Faces |-> None],
                                     missing |-> {}, pending |-> @.pending, backoff |-> {}, later |-> @.later]])

-----------------------------------------------------------------------------
(***************************************************************************)
(* Calls and KeypadTones.                                                  *)
(***************************************************************************)

\* Tones wait for the request before them; what waits goes out together.
Flush(s) ==
    IF s.keys.busy \/ s.keys.pending = <<>> THEN s
    ELSE Run([s EXCEPT !.keys.busy = TRUE, !.keys.pending = <<>>],
             [do |-> "tones", call |-> s.keys.call, tones |-> s.keys.pending])

\* A variant of Follow: what waits goes to the call that is now on screen.
FollowKeeping(s, call) == [s EXCEPT !.keys.call = call]

Follow(s, call) == IF call = s.keys.call THEN s ELSE [s EXCEPT !.keys.call = call, !.keys.pending = <<>>]

\* What waits is cut at the most a request may carry.
Waiting(pending, tone) == IF Len(pending) < MaxTones THEN Append(pending, tone) ELSE pending

Press(s, tone) ==
    Then(Follow(s, s.calls.list), LAMBDA t : Flush([t EXCEPT !.keys.pending = Waiting(@, tone)]))

TonesSent(s, job, r) ==
    Flush([s EXCEPT !.keys.busy = FALSE,
                    !.keys.pending = IF ~r.ok /\ job.call = s.keys.call THEN <<>> ELSE @])

CallsUnavailable(s) ==
    LET state == IF s.status.on THEN "unavailable" ELSE "disabled"
    IN IF s.calls.list = None /\ state = s.calls.state THEN s
       ELSE Follow([s EXCEPT !.calls.list = None, !.calls.state = state], None)

RefreshCalls(s) == IF s.status.on THEN Run(s, [do |-> "calls"]) ELSE CallsUnavailable(s)

CallsLoaded(s, r) ==
    IF ~r.ok THEN CallsUnavailable(s)
    ELSE Follow([s EXCEPT !.calls.list = r.value, !.calls.state = "ready"], r.value)

-----------------------------------------------------------------------------
(***************************************************************************)
(* Feature switches.                                                       *)
(***************************************************************************)
LoadFeatures(s) ==
    IF s.sets.saving # {} THEN s
    ELSE Run([s EXCEPT !.sets.rev = @ + 1], [do |-> "features", rev |-> s.sets.rev + 1])

FeaturesLoaded(s, job, r) == IF job.rev # s.sets.rev THEN s ELSE [s EXCEPT !.sets.items = r.value]

\* A switch is shown as chosen while it is saved, and as before if it could not be.
Toggled(sets, n) ==
    [sets EXCEPT !.rev = @ + 1, !.saving = @ \cup {n}, !.before[n] = sets.items[n], !.items[n] = ~@]
Saved(sets, n, ok) ==
    [sets EXCEPT !.saving = @ \ {n}, !.before[n] = None, !.items[n] = IF ok THEN @ ELSE sets.before[n]]

SetFeature(s, n) ==
    Run([s EXCEPT !.sets = Toggled(@, n)],
        [do |-> "feature", name |-> n, on |-> ~s.sets.items[n]])

FeatureSaved(s, job, r) ==
    LoadFeatures([s EXCEPT !.sets = Saved(@, job.name, r.ok)])

-----------------------------------------------------------------------------
(***************************************************************************)
(* The status, and what follows it.                                        *)
(***************************************************************************)

\* statusChanged: the models and the window are told.
StatusChanged(now) ==
    Then(If(Has("notes"), now, SyncStatus), LAMBDA s :
    Then(If(Has("book"), s, BookStatus), LAMBDA t :
    Then(If(Has("search"), t, SearchStatus), LAMBDA u :
    If(Has("log"), u, SyncWatches))))

Unlock(s) == Run([s EXCEPT !.asked = TRUE], [do |-> "unlock"])

\* _maybe_unlock_storage(): the wallet is asked once.
MaybeUnlockStorage(s) == IF s.asked \/ ~s.status.up \/ s.status.open THEN s ELSE Unlock(s)

\* A variant of Refresh: a signal during a refresh is thought to be covered by it.
RefreshOnce(s) == IF s.refreshing THEN s ELSE Run([s EXCEPT !.refreshing = TRUE], [do |-> "snapshot"])

Refresh(s) ==
    IF s.refreshing THEN [s EXCEPT !.again = TRUE]
    ELSE Run([s EXCEPT !.refreshing = TRUE], [do |-> "snapshot"])

\* ready() and failed() of start()
Started(s, r) ==
    IF ~r.ok THEN s
    ELSE Then(StatusChanged([s EXCEPT !.status = r.value]), LAMBDA t :
         Then(SyncAvatars(t), LAMBDA u :
         Then(Refresh(MaybeUnlockStorage(u)), LAMBDA v : IF Has("tether") THEN Start(v, "tether") ELSE v)))

\* Only a change of the calls' own status asks for the list.
FollowCalls(s) ==
    IF s.calls.key = s.status.on THEN s
    ELSE Then([s EXCEPT !.calls.key = s.status.on],
              LAMBDA t : IF t.status.on \/ t.calls.list # None THEN RefreshCalls(t) ELSE t)

\* Threads that could not be read leave the last ones, under an error that only a good read ends.
NextThreads(s, threads) ==
    IF threads = None THEN [at |-> s.threads.at, error |-> TRUE] ELSE [at |-> threads, error |-> FALSE]

\* _apply_snapshot(), and finished()
ApplySnapshot(s, r) ==
    Then(StatusChanged([s EXCEPT !.status = r.value.st, !.threads = NextThreads(s, r.value.threads)]), LAMBDA t :
    Then(MaybeUnlockStorage(SyncAvatars(t)), LAMBDA u :
    Then(IF Has("media") THEN Start(u, "media") ELSE u, LAMBDA v :
    Then(If(Has("calls"), v, FollowCalls), LAMBDA w :
    If(w.again, [w EXCEPT !.refreshing = FALSE], LAMBDA x : Refresh([x EXCEPT !.again = FALSE]))))))

\* completed() of a preference's setter: what it answers is the status from now on.
PreferenceSaved(s, r) ==
    IF ~r.ok THEN s
    ELSE Then(StatusChanged([s EXCEPT !.status.on = r.value]), LAMBDA t :
         Then(If(Has("media"), t, RefreshNowPlaying), LAMBDA u : If(Has("calls"), u, RefreshCalls)))

\* setContactPhotos() is answered.
PhotosSaved(s, r) ==
    IF ~r.ok THEN s
    ELSE SyncAvatars(StatusChanged([s EXCEPT !.status.photos = r.value.photos, !.status.rev = r.value.rev]))

\* _storage_updated()
StorageUpdated(s, r) ==
    IF ~r.ok THEN s ELSE Refresh(StatusChanged([s EXCEPT !.status.open = r.value]))

-----------------------------------------------------------------------------
(***************************************************************************)
(* The worker and the daemon.  A request is one job: the daemon answers it *)
(* as it is when the worker gets to it.                                    *)
(***************************************************************************)
Ok(v) == [ok |-> TRUE, value |-> v]
Failed == [ok |-> FALSE, value |-> None]

\* GetStatus() of a daemon: the photos' revision is only told while there are photos.
Status(d) == [d.st EXCEPT !.rev = IF d.st.photos THEN @ ELSE None]

Snapshot(st, threads) == Ok([st |-> st, threads |-> threads])

\* The ways a read can fail.  The status and the threads of a snapshot are read one after the
\* other, and each may fail alone: it is a status and threads even so.
Errors(job) ==
    IF job.do = "snapshot"
    THEN {Snapshot(Unavailable, None), Snapshot(Unavailable, dm.ver), Snapshot(Status(dm), None)}
    ELSE {Failed}

\* What a read returns.
Answer(job) ==
    LET st == Status(dm)
        When(p, v) == IF p THEN Ok(v) ELSE Failed
    IN CASE job.do = "start" -> Ok(st)
         [] job.do = "snapshot" -> Snapshot(st, dm.ver)
         [] job.do \in {"notes", "log"} -> When(st.on /\ st.open, dm.ver)
         [] job.do = "book" ->
                Ok([page |-> job.page, query |-> job.query, epoch |-> st.epoch, photo |-> st.photos])
         [] job.do = "card" ->
                Ok(IF job.id = st.epoch THEN [epoch |-> st.epoch, photo |-> st.photos] ELSE None)
         [] job.do \in {"search", "find", "apps", "tether"} -> Ok(dm.ver)
         [] job.do = "face" -> Ok(IF st.photos /\ job.face = 1 THEN st.rev ELSE None)
         [] job.do = "calls" -> When(st.on, dm.call)
         [] job.do = "media" -> When(st.on, dm.ver)
         [] job.do = "features" -> Ok(dm.stored)

\* What a request changes, the signals that follow, and its answer.
Did(d, signals, r) == [dm |-> d, signals |-> signals, answer |-> r]

Request(job) ==
    LET Newer(sig) == Did([dm EXCEPT !.ver = @ + 1], <<sig>>, Ok(dm.ver + 1))
    IN CASE job.do = "pin" -> Newer("notes")
         [] job.do = "act" -> Newer("history")
         [] job.do = "sync" -> Newer("log")
         [] job.do = "mute" -> Newer("apps")
         [] job.do = "command" -> Newer("tether")
         [] job.do = "tones" ->
                IF dm.call # job.call THEN Did(dm, <<>>, Failed)
                ELSE Did([dm EXCEPT !.got = Append(@, [call |-> job.call, tones |-> job.tones])],
                         <<>>, Ok(None))
         [] job.do = "hangup" ->
                IF dm.call # job.call THEN Did(dm, <<>>, Failed)
                ELSE Did([dm EXCEPT !.call = None], <<"calls">>, Ok(None))
         [] job.do = "feature" -> Did([dm EXCEPT !.stored[job.name] = job.on], <<>>, Ok(None))
         [] job.do = "save" -> Did([dm EXCEPT !.st.on = job.on], <<"status">>, Ok(job.on))
         [] job.do = "photos" ->
                LET d == [dm EXCEPT !.st.photos = job.on] IN Did(d, <<"status">>, Ok(Status(d)))
         [] job.do = "unlock" ->
                IF dm.st.open THEN Did(dm, <<>>, Ok(TRUE))
                ELSE Did([dm EXCEPT !.st.open = TRUE, !.st.epoch = @ + 1, !.st.rev = @ + 1],
                         <<"status">>, Ok(TRUE))

Requests ==
    {"pin", "act", "sync", "mute", "command", "tones", "hangup", "feature", "save", "photos", "unlock"}
Outcome(job) == IF job.do \in Requests THEN Request(job) ELSE Did(dm, <<>>, Answer(job))

Emitted(signals, ver) == [i \in DOMAIN signals |-> [sig |-> signals[i], at |-> ver]]

\* The job at the front of the queue is done, and answers r.
Answered(d, signals, r) ==
    /\ dm' = d
    /\ bus' = bus \o Emitted(signals, d.ver)
    /\ qt' = [qt EXCEPT !.jobs = Tail(@), !.done = Append(@, [job |-> Head(qt.jobs), answer |-> r])]

Work ==
    /\ qt.jobs # <<>>
    /\ LET o == Outcome(Head(qt.jobs)) IN Answered(o.dm, o.signals, o.answer)
    /\ UNCHANGED left

Busy == [ok |-> FALSE, value |-> "busy"]

\* A read fails: the daemon is away, or its search is busy.
ReadFails ==
    /\ qt.jobs # <<>> /\ Head(qt.jobs).do \notin Requests /\ Use("fail")
    /\ \E r \in Errors(Head(qt.jobs)) \cup (IF Head(qt.jobs).do = "search" THEN {Busy} ELSE {}) :
           Answered(dm, <<>>, r)

\* A request is refused, or its answer is lost.
RequestFails ==
    /\ qt.jobs # <<>> /\ Head(qt.jobs).do \in Requests /\ Use("lost")
    /\ \/ Answered(dm, <<>>, Failed)
       \/ LET o == Outcome(Head(qt.jobs)) IN Answered(o.dm, o.signals, Failed)

\* A callback on the GUI thread.
Callback(s, job, r) ==
    CASE job.do = "start" -> Started(s, r)
      [] job.do = "snapshot" -> ApplySnapshot(s, r)
      [] job.do = "notes" -> NotesLoaded(s, job, r)
      [] job.do = "book" -> PageLoaded(s, job, r)
      [] job.do = "card" -> CardLoaded(s, job, r)
      [] job.do = "search" -> SearchLoaded(s, job, r)
      [] job.do = "log" -> CallHistoryLoaded(s, r)
      [] job.do = "apps" -> NotificationAppsLoaded(s, job, r)
      [] job.do = "face" -> AvatarLoaded(s, job, r)
      [] job.do = "calls" -> CallsLoaded(s, r)
      [] job.do = "media" -> [s EXCEPT !.media = r.value]
      [] job.do = "tether" -> TetherLoaded(s, r)
      [] job.do = "features" -> FeaturesLoaded(s, job, r)
      [] job.do = "find" -> ContactsFound(s, job, r)
      [] job.do = "act" -> IF r.ok THEN Refresh(s) ELSE s
      [] job.do = "sync" ->
             IF r.ok THEN LoadCallHistory(s) ELSE [s EXCEPT !.log.error = @ \/ s.log.watched]
      [] job.do = "pin" -> NotesRefresh(s)
      [] job.do = "mute" -> AppMuted(s, r)
      [] job.do = "command" -> TetherAnswered(s, r)
      [] job.do = "tones" -> TonesSent(s, job, r)
      [] job.do = "hangup" -> IF r.ok THEN RefreshCalls(s) ELSE s
      [] job.do = "feature" -> FeatureSaved(s, job, r)
      [] job.do = "save" -> PreferenceSaved(s, r)
      [] job.do = "photos" -> PhotosSaved(s, r)
      [] job.do = "unlock" -> StorageUpdated(s, r)

Deliver ==
    /\ qt.done # <<>>
    /\ LET d == Head(qt.done) IN qt' = Callback([qt EXCEPT !.done = Tail(@)], d.job, d.answer)
    /\ UNCHANGED <<dm, bus, left>>

-----------------------------------------------------------------------------
(***************************************************************************)
(* Signals and timers.                                                     *)
(***************************************************************************)
Signalled(s, sig) ==
    CASE sig = "history" -> Invalidate(NotesInvalidated(Start(s, "refresh")))
      [] sig = "status" -> LET t == Start(s, "refresh") IN IF Has("tether") THEN Start(t, "tether") ELSE t
      [] sig = "notes" -> NotesInvalidated(s)
      [] sig = "apps" -> NotesInvalidated(IF s.apps.watched THEN Start(s, "apps") ELSE s)
      [] sig = "log" ->
             Then(Invalidate(s), LAMBDA t : IF t.status.on /\ t.log.watched THEN Start(t, "log") ELSE t)
      [] sig = "calls" -> RefreshCalls(s)
      [] sig \in {"media", "tether"} -> Start(s, sig)

\* search.since is the version the last signal about what is searched came with.
Dispatch ==
    /\ bus # <<>>
    /\ bus' = Tail(bus)
    /\ qt' = Then(Signalled(qt, Head(bus).sig), LAMBDA s :
               IF Head(bus).sig \in {"history", "log"} THEN [s EXCEPT !.search.since = Head(bus).at] ELSE s)
    /\ UNCHANGED <<dm, left>>

Expired(s, t) ==
    CASE t = "refresh" -> Refresh(s)
      [] t = "notes" -> NotesRefresh(s)
      [] t = "book" -> BookReload(s)
      [] t = "search" -> SearchRun(s)
      [] t = "log" -> LoadCallHistory(s)
      [] t = "apps" -> ReadNotificationApps(s, FALSE)
      [] t = "media" -> RefreshNowPlaying(s)
      [] t = "tether" -> RefreshTether(s)

TimerFires ==
    /\ \/ \E t \in qt.timers : qt' = Expired(Stop(qt, t), t)
       \/ \E t \in qt.faces.later : qt' = AvatarRetry(qt, t[1], t[2])
    /\ UNCHANGED <<dm, bus, left>>

-----------------------------------------------------------------------------
(***************************************************************************)
(* The user.                                                               *)
(***************************************************************************)
Acts(s) == qt' = s /\ UNCHANGED <<dm, bus>>

\* A page is opened or closed.
SwitchPage ==
    /\ Use("page")
    /\ \/ Has("notes") /\ Acts(WatchNotes(qt, ~qt.notes.watched))
       \/ Has("book") /\ Acts(WatchBook(qt, ~qt.book.watched))
       \/ Has("apps") /\ (qt.apps.watched \/ qt.status.up)
          /\ Acts(WatchNotificationApps(qt, ~qt.apps.watched))
       \/ Has("log") /\ Acts(SyncWatches([qt EXCEPT !.log.tab = ~@]))
       \/ Has("sets") /\ Acts(LoadFeatures(qt))

Type ==
    /\ Use("type")
    /\ \/ Has("search") /\ qt.search.supported
          /\ \E query \in 0 .. 2 : query # qt.search.query /\ Acts(SetQuery(qt, query))
       \/ Has("book") /\ Acts(SetContactQuery(qt, 1 - qt.book.query))
       \/ Has("find") /\ \E query \in 0 .. 2 : Acts(FindContacts(qt, query))

\* openContact() of a listed row, closeContact() and loadMoreContacts()
UseCard ==
    /\ Use("card")
    /\ \/ \E r \in qt.book.rows : Acts(OpenCard(qt, r.epoch))
       \/ qt.book.card # None /\ Acts(CloseCard(qt))
       \/ LoadMore(qt) # qt /\ Acts(LoadMore(qt))

\* pressCallTone(): tones are numbered as they are pressed.
PressTone ==
    /\ qt.calls.list # None /\ Use("press")
    /\ Acts(Press([qt EXCEPT !.keys.pressed = Append(@, qt.calls.list)], Len(qt.keys.pressed) + 1))

Hangup ==
    /\ qt.calls.list # None /\ Use("hangup")
    /\ Acts(Run(qt, [do |-> "hangup", call |-> qt.calls.list]))

ChooseFeature ==
    /\ Use("sets") /\ qt.sets.items # None
    /\ \E n \in Switches \ qt.sets.saving : Acts(SetFeature(qt, n))

Command == Use("command") /\ Acts(TetherCommand(qt))

SavePreference ==
    /\ qt.status.up
    /\ \/ Use("save") /\ Acts(Run(qt, [do |-> "save", on |-> ~qt.status.on]))
       \/ Use("photos") /\ Acts(Run(qt, [do |-> "photos", on |-> ~qt.status.photos]))

\* setNotificationPinned() and setNotificationAppMuted() of a listed row
Mark ==
    \/ qt.notes.rows # None /\ Use("pin") /\ Acts(Run(qt, [do |-> "pin"]))
    \/ qt.apps.rows # None /\ Use("mute") /\ Acts(Run(qt, [do |-> "mute"]))

\* A message is sent, a conversation starred or deleted, the history cleared; calls are synced.
ActOnData ==
    \/ Use("act") /\ Acts(Run(qt, [do |-> "act"]))
    \/ qt.status.on /\ Use("sync") /\ Acts(Run(qt, [do |-> "sync"]))

UnlockStorage == Use("unlock") /\ Acts(Unlock(qt))

-----------------------------------------------------------------------------
(***************************************************************************)
(* The daemon.                                                             *)
(***************************************************************************)
Happens(d, signals) == dm' = d /\ bus' = bus \o Emitted(signals, d.ver) /\ UNCHANGED qt

\* What a page shows changes; the contacts and the call are numbered themselves.
Changes ==
    \/ \E k \in {"history", "notes", "apps", "log", "media", "tether"} :
           Use(k) /\ Happens([dm EXCEPT !.ver = @ + 1], <<k>>)
    \/ Use("search") /\ \E k \in {"history", "log"} : Happens([dm EXCEPT !.ver = @ + 1], <<k>>)
    \/ (Use("book") \/ Use("faces"))
       /\ Happens([dm EXCEPT !.st.epoch = @ + 1, !.st.rev = @ + 1], <<"status">>)
    \/ Use("calls") /\ \E c \in {None, left.calls + 1} \ {dm.call} :
           Happens([dm EXCEPT !.call = c], <<"calls">>)

\* The wallet closes.
Locks ==
    /\ dm.st.open /\ Use("lock")
    /\ Happens([dm EXCEPT !.st.open = FALSE, !.st.epoch = @ + 1, !.st.rev = @ + 1], <<"status", "notes">>)

-----------------------------------------------------------------------------
Next ==
    \/ Work \/ ReadFails \/ RequestFails \/ Deliver \/ Dispatch \/ TimerFires
    \/ SwitchPage \/ Type \/ UseCard \/ PressTone \/ Hangup \/ ChooseFeature \/ Command
    \/ SavePreference \/ Mark \/ ActOnData \/ UnlockStorage
    \/ Changes \/ Locks

\* Both threads run, signals arrive and timers expire.
FairStep(k) ==
    \/ k = 1 /\ Work
    \/ k = 2 /\ Deliver
    \/ k = 3 /\ Dispatch
    \/ k = 4 /\ TimerFires

SafetySpec == Init /\ [][Next]_clientVars
Spec == SafetySpec /\ \A k \in 1 .. 4 : WF_clientVars(FairStep(k))

-----------------------------------------------------------------------------
(***************************************************************************)
(* Properties.                                                             *)
(***************************************************************************)

\* What was withdrawn is not shown: a closed page is empty; notifications go with the
\* storage; contacts are of the epoch the status names, their photos and the avatars only
\* while photos are on, and all answer one query; and search hits are no older than the
\* last change signalled.
Forgets ==
    LET b == qt.book f == qt.faces
    IN /\ ~(qt.notes.watched /\ Available(qt)) => qt.notes.rows = None
       /\ ~b.watched => b.rows = {} /\ b.card = None /\ b.photo = None
       /\ \A r \in b.rows : r.epoch >= b.epoch /\ (r.photo => b.photos) /\ r.query = b.about
       /\ b.card # None /\ b.card.at # None => b.card.at >= b.epoch
       /\ b.photo # None => b.photos /\ b.photo >= b.epoch
       /\ ~qt.log.watched => qt.log.rows = None
       /\ ~qt.apps.watched => qt.apps.rows = None
       /\ \A a \in Faces : f.kept[a] # None => f.known[1] /\ f.kept[a] >= f.known[2]
       /\ qt.search.shown # None => qt.search.shown.ver >= qt.search.since
       /\ qt.find.found # None => qt.find.found = qt.find.query

\* Tones reach the daemon in the order they were pressed, once, and only for the call on
\* screen when they were pressed.
TonesAsPressed ==
    \A i \in DOMAIN dm.got : \A j \in DOMAIN dm.got[i].tones :
        /\ qt.keys.pressed[dm.got[i].tones[j]] = dm.got[i].call
        /\ \A k \in 1 .. i : \A m \in DOMAIN dm.got[k].tones :
               (k < i \/ m < j) => dm.got[k].tones[m] < dm.got[i].tones[j]

Settled == qt.jobs = <<>> /\ qt.done = <<>> /\ bus = <<>> /\ qt.timers = {} /\ qt.faces.later = {}

\* When nothing is on its way, every page shows what the daemon has, or that it failed: the
\* threads and the tether keep their last state under the error.
SettlesCurrent ==
    Settled /\ qt.status.up =>
        LET b == qt.book c == qt.calls st == Status(dm)
        IN /\ qt.status = st
           /\ Has("history") => qt.threads.error \/ qt.threads.at = dm.ver
           /\ qt.notes.watched /\ Available(qt) => qt.notes.error \/ qt.notes.rows = dm.ver
           /\ b.watched =>
                  \/ b.error
                  \/ /\ b.rows # {}
                     /\ \A r \in b.rows : <<r.epoch, r.photo, r.query>> = <<st.epoch, st.photos, b.query>>
           /\ b.card # None =>
                  \/ b.card.error
                  \/ b.card.at = st.epoch /\ b.photo = IF st.photos THEN st.epoch ELSE None
           /\ qt.search.query # 0 =>
                  qt.search.error \/ qt.search.shown = [query |-> qt.search.query, ver |-> dm.ver]
           /\ qt.find.query # 0 => qt.find.found # None
           /\ qt.log.tab /\ st.on => qt.log.error \/ qt.log.rows = dm.ver
           /\ qt.apps.watched => qt.apps.error \/ qt.apps.rows = dm.ver
           /\ Has("faces") => qt.faces.kept = <<st.rev, None>>
           /\ Has("calls") => c.state = "unavailable" \/ c.list = IF st.on THEN dm.call ELSE None
           /\ Has("media") => qt.media \in {None, dm.ver}
           /\ Has("tether") => ~qt.tether.pending /\ (qt.tether.error \/ qt.tether.shown = dm.ver)
           /\ qt.sets.saving = {} /\ qt.sets.items \in {None, dm.stored}

=============================================================================
