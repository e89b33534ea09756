---------------------------- MODULE Conversations ----------------------------
(***************************************************************************)
(* Conversations in the backend: class ConversationIndex                   *)
(* (src/src/blueferry/threads.py), the replies, rosters, deletions and     *)
(* searches of class BackendOperations (backend_operations.py) behind      *)
(* MessagesService (dbus_service.py), the saved rosters (group_routes.py,  *)
(* named_groups.py) and the client's plan of a reply                       *)
(* (conversation_state.py).                                                *)
(*                                                                         *)
(* There are two conversations: the named group "g", whose addresses only  *)
(* a saved roster tells, and "d" with one person, some of whose messages   *)
(* may have been sent to a group.  A thread is projected from the rows of  *)
(* the archive on a worker; what is asked of it waits until the projection *)
(* is current.                                                             *)
(***************************************************************************)
EXTENDS Naturals, Sequences, FiniteSets, Handlers

CONSTANTS
    Mixes,          \* what happens, and how often: functions from "member", "outsider", "plain",
                    \* "maybe", "list", "reply", "save", "delete", "search", "mark", "clear",
                    \* "prune", "lock", "reload" and "fail" to numbers
    Rosters,        \* the sets of addresses a user may save
    None

VARIABLES
    cv,             \* the backend: see Init
    ui,             \* the client: what it lists, its dialog, what it agreed to
    left            \* how much of the mix is left

conversationVars == <<cv, ui, left>>

Groups == {"g"}
Threads == {"g", "d"}

\* rows, next: the archive and its AUTOINCREMENT; changes: meta.generation; keys: the storage's revision; route: the saved
\* roster; known: the confirmed roster; threads, sig, gen, loading, waiting: ConversationIndex;
\* check: _roster_check_pending; deleting: the retries left; jobs, results: the projection
\* worker; search: the search worker; obex: the OBEX worker.  open, calls, twice: the calls
\* not yet answered; approved: the tokens a user agreed to; alarm: someone outside the saved
\* roster wrote to the group, and the user has not saved it since; found: the last result;
\* pushed: how many messages were.
Init ==
    /\ cv = [rows |-> {}, next |-> 1, changes |-> 0, route |-> None, known |-> None, locked |-> FALSE, keys |-> 0,
             threads |-> None, sig |-> None, gen |-> 0, loading |-> FALSE, waiting |-> <<>>,
             check |-> FALSE, deleting |-> None, jobs |-> <<>>, results |-> <<>>, search |-> None,
             obex |-> <<>>, open |-> {}, calls |-> 0, twice |-> FALSE, approved |-> {},
             alarm |-> FALSE, saves |-> 0, found |-> {}, pushed |-> 0]
    /\ ui = [view |-> [t \in Threads |-> None], dialog |-> None, agreed |-> [t \in Threads |-> None]]
    /\ left \in Mixes

\* One of the mix's k is used up.
Use(k) == k \in DOMAIN left /\ left[k] > 0 /\ left' = [left EXCEPT ![k] = @ - 1]

-----------------------------------------------------------------------------
(***************************************************************************)
(* The projection: build_threads() over the group's rows and its roster.   *)
(***************************************************************************)

\* A received row of the group under the saved roster: the roster answers only if the sender
\* belongs to it, and a member's message does not answer a warning that is held.
Received(row, route) ==
    LET outside == route # None /\ row.from \notin route.to
        held == IF route = None THEN None ELSE route.warn
        ready == route # None /\ ~outside /\ held = None
    IN [to |-> (IF route = None THEN {} ELSE route.to) \cup (IF route = None \/ outside THEN {row.from} ELSE {}),
        ready |-> ready, required |-> ~ready,
        warn |-> IF outside THEN <<route.version, row.from>> ELSE held]

\* A sent row: the roster replaces what was recorded when it was sent.
ApplyStored(row, route) ==
    IF route = None THEN [to |-> row.to, ready |-> TRUE, required |-> FALSE, warn |-> None]
    ELSE [to |-> route.to, ready |-> route.warn = None, required |-> route.warn # None,
          warn |-> route.warn]

Annotated(row, route) == IF row.from = "me" THEN ApplyStored(row, route) ELSE Received(row, route)

Newest(rows) == CHOOSE r \in rows : \A q \in rows : q.id <= r.id

\* The group's thread: the addresses of all rows, and the warning of the last row that has one.
GroupThread(rows, route) ==
    LET of(r) == Annotated(r, route)
        warned == {r \in rows : of(r).warn # None}
        required == \E r \in rows : of(r).required
    IN [to |-> UNION {of(r).to : r \in rows},
        required |-> required,
        ready |-> ~required /\ \E r \in rows : of(r).ready,
        warn |-> IF warned = {} THEN None ELSE of(Newest(warned)).warn,
        observed |-> {r.from : r \in {q \in rows : q.from # "me"}},
        token |-> None, rows |-> {r.id : r \in rows}, unread |-> \E r \in rows : r.unread]

\* The other thread: it answers the last received row, and may not if that one may have been
\* sent to a group; sender_reply_token() stands for the messages the user would have to judge.
DirectThread(rows) ==
    LET incoming == {r \in rows : r.from # "me"}
        latest == Newest(IF incoming = {} THEN rows ELSE incoming)
        doubtful == latest.maybe
    IN [to |-> {IF latest.from = "me" THEN "d" ELSE latest.from}, required |-> FALSE, ready |-> ~doubtful,
        warn |-> None, observed |-> {}, rows |-> {r.id : r \in rows},
        token |-> IF doubtful THEN {r.id : r \in {q \in incoming : q.maybe}} ELSE None,
        unread |-> \E r \in rows : r.unread]

\* _project_conversations()
BuildThreads(rows, route) ==
    [t \in Threads |->
        LET own == {r \in rows : r.th = t}
        IN IF own = {} THEN None ELSE IF t \in Groups THEN GroupThread(own, route) ELSE DirectThread(own)]

\* group_confirmation_token(), or the sender's: what an approval is bound to.
Token(thread, t) == IF t \in Groups THEN <<thread.to, thread.warn>> ELSE <<"sender", thread.token>>

\* history_revision(), which tells nothing while storage is locked.
Revision(s) ==
    IF s.locked THEN <<0, 0, 0>>
    ELSE <<Cardinality(s.rows), IF s.rows = {} THEN 0 ELSE Newest(s.rows).id, s.changes>>

Readable(s) == IF s.locked THEN {} ELSE s.rows
GroupRoutes(s) == IF s.locked THEN None ELSE s.route

-----------------------------------------------------------------------------
(***************************************************************************)
(* ConversationIndex.                                                      *)
(***************************************************************************)

Invalidate(s) == [s EXCEPT !.gen = @ + 1, !.sig = None, !.threads = None]

Current(s) == s.threads # None /\ s.sig = Revision(s)

\* threads(): the cached projection, or a new one made on the spot.
Built(s) ==
    IF Current(s) THEN s
    ELSE [s EXCEPT !.threads = BuildThreads(Readable(s), GroupRoutes(s)), !.sig = Revision(s)]

\* What a projection is made from, but for the rows, is taken when it is asked for.
ProjectionJob(s) ==
    [type |-> "project", gen |-> s.gen, sig |-> Revision(s), route |-> GroupRoutes(s), blind |-> s.locked]

\* prepare_async() when the projection is not current: c is told when it is.
Wait(now, c) ==
    Then(now, LAMBDA s :
        IF s.loading THEN [s EXCEPT !.waiting = Append(@, c)]
        ELSE [s EXCEPT !.waiting = Append(@, c), !.loading = TRUE, !.jobs = Append(@, ProjectionJob(s))])

\* A call is answered, with a result or an error.
Answer(now, id) == Then(now, LAMBDA s : [s EXCEPT !.open = @ \ {id}, !.twice = @ \/ id \notin s.open])

-----------------------------------------------------------------------------
(***************************************************************************)
(* Rosters: what is saved, what is confirmed, and the warnings held.       *)
(***************************************************************************)

\* hold_roster_warnings() of the store: a warning names the save it was raised against.
HoldRosterWarnings(now) ==
    Then(now, LAMBDA s :
        IF s.locked \/ s.route = None \/ s.threads["g"] = None THEN s
        ELSE IF s.threads["g"].warn # None /\ s.threads["g"].warn[1] = s.route.version
        THEN [s EXCEPT !.route.warn = s.threads["g"].warn] ELSE s)

\* A variant of EmitHistoryChanged: the signal alone.
EmitSignalOnly(s) == s

\* emit_history_changed(): with the signal, the rosters are checked.
EmitHistoryChanged(now) ==
    Then(now, LAMBDA s :
        IF s.check \/ GroupRoutes(s) = None THEN s
        ELSE IF Current(s) THEN HoldRosterWarnings(s)
        ELSE Wait([s EXCEPT !.check = TRUE], [type |-> "check"]))

\* _group_roster_confirmed()
GroupRosterConfirmed(s, token) == s.known = token

\* _remember_confirmed_group(), _forget_confirmed_groups()
RememberConfirmedGroup(s, token) == [s EXCEPT !.known = token]
ForgetConfirmedGroups(s) == [s EXCEPT !.known = None]

\* _present_threads(): the threads as a client lists them; listing them holds their warnings.
Presented(s) ==
    [t \in Threads |->
        IF s.threads[t] = None THEN None
        ELSE [thread |-> s.threads[t], token |-> Token(s.threads[t], t),
              confirmed |-> t \in Groups /\ GroupRosterConfirmed(s, Token(s.threads[t], t))]]

-----------------------------------------------------------------------------
(***************************************************************************)
(* Replies.                                                                *)
(***************************************************************************)

\* _thread_route(): whom a reply to thread t goes to now, or None if it is refused.
ThreadRoute(s, t, confirm, expected) ==
    LET thread == s.threads[t]
        sender == expected # None /\ expected[1] = "sender"
    IN IF thread = None THEN None
       ELSE IF t \notin Groups /\ confirm /\ sender
            THEN IF expected = Token(thread, t) /\ thread.token # None THEN thread.to ELSE None
       ELSE IF ~thread.ready \/ thread.to = {} THEN None
       ELSE IF t \notin Groups THEN thread.to
       ELSE IF /\ Cardinality(thread.to) >= 2
               /\ expected = Token(thread, t)
               /\ confirm \/ GroupRosterConfirmed(s, expected)
            THEN thread.to ELSE None

\* send_to_thread(): the reply takes its place in the queue of the OBEX worker.
SendToThread(s, c) ==
    LET accepted == ThreadRoute(s, c.t, c.confirm, c.token)
    IN IF accepted = None THEN Answer(s, c.id)
       ELSE [s EXCEPT !.obex = Append(@, [c EXCEPT !.type = "place", !.accepted = accepted])]

\* send(), when its turn came and the projection is current again.
SendNow(s, c) ==
    LET to == ThreadRoute(s, c.t, c.confirm, c.token)
    IN IF to = None \/ to # c.accepted THEN Answer(s, c.id)
       ELSE [s EXCEPT !.obex = Append(@, [c EXCEPT !.type = "send"])]

\* EventDispatcher.message(): the row is stored, if it may be, and clients are told.
Store(s, row) ==
    IF s.locked THEN EmitHistoryChanged(s)
    ELSE EmitHistoryChanged(
             [s EXCEPT !.rows = @ \cup {[row EXCEPT !.id = s.next]}, !.next = @ + 1,
                       !.alarm = @ \/ (row.th = "g" /\ s.route # None /\ row.from # "me"
                                       /\ row.from \notin s.route.to)])

Row(t, from, to, maybe) ==
    [id |-> 0, th |-> t, from |-> from, to |-> to, maybe |-> maybe, unread |-> from # "me"]

\* succeeded() of either kind of send.
Sent(s, c) ==
    Then(IF c.t \in Groups THEN RememberConfirmedGroup(s, c.token) ELSE s, LAMBDA told :
        Answer(Store(told, Row(c.t, "me", c.accepted, FALSE)), c.id))

-----------------------------------------------------------------------------
(***************************************************************************)
(* Rosters, deletion and search.                                           *)
(***************************************************************************)

\* _save_group_participants(): a new save, under a version of its own, with nothing confirmed.
SaveGroupParticipants(s, c) ==
    LET thread == s.threads["g"]
    IN IF thread = None \/ s.locked \/ ~(thread.observed \subseteq c.to) THEN Answer(s, c.id)
       ELSE Wait(Invalidate(ForgetConfirmedGroups(
                     [s EXCEPT !.route = [to |-> c.to, version |-> s.saves + 1, warn |-> None],
                               !.saves = @ + 1, !.alarm = FALSE])),
                 [c EXCEPT !.type = "saved"])

\* set_group_participants_async(): the rebuilt thread is the answer.
GroupThreadSaved(s, c) == Answer(EmitHistoryChanged(HoldRosterWarnings(s)), c.id)

\* failed() of a deletion
DeletionFailed(s, c) == Answer([s EXCEPT !.deleting = None], c.id)

\* attempt(): _plan_deletion() against the projection, then the archive is read.
Attempt(s, c) ==
    IF s.threads[c.t] = None \/ s.locked THEN DeletionFailed(s, c)
    ELSE [s EXCEPT !.jobs = Append(@, [type |-> "resolve", gen |-> s.gen, sig |-> Revision(s), c |-> c])]

\* delete_threads_async()
DeleteThreads(s, c) ==
    IF s.deleting # None THEN Answer(s, c.id)
    ELSE Then([s EXCEPT !.deleting = 2], LAMBDA b : Attempt(b, [c EXCEPT !.type = "again"]))

\* _commit_deletion(), and what the service does with its result.
CommitDeletion(s, c, ids) ==
    IF ids = {} THEN DeletionFailed(s, c)
    ELSE LET erased == [s EXCEPT !.rows = {r \in @ : r.id \notin ids}, !.deleting = None,
                                 !.route = IF c.t \in Groups THEN None ELSE @,
                                 !.known = IF c.t \in Groups THEN None ELSE @,
                                 !.alarm = @ /\ c.t \notin Groups]
         IN Answer(EmitHistoryChanged(Invalidate(erased)), c.id)

\* A variant of Resolved: what was read is erased.
ResolvedBlindly(s, job, ids, ok) ==
    IF ~ok THEN DeletionFailed(s, job.c) ELSE CommitDeletion(s, job.c, ids)

\* resolved(): only what is still current is erased; otherwise the deletion starts again.
Resolved(s, job, ids, ok) ==
    IF <<job.gen, job.sig>> # <<s.gen, Revision(s)>>
    THEN IF s.deleting = 0 THEN DeletionFailed(s, job.c)
         ELSE Then([s EXCEPT !.deleting = @ - 1], LAMBDA again :
                  IF Current(again) THEN Attempt(again, job.c) ELSE Wait(again, job.c))
    ELSE IF ~ok THEN DeletionFailed(s, job.c)
    ELSE CommitDeletion(s, job.c, ids)

\* search_async(): matched on a worker of its own, over a copy of the projection.
SearchAsync(s, c) ==
    IF s.search # None THEN Answer(s, c.id)
    ELSE [s EXCEPT !.search = [id |-> c.id, gen |-> s.gen, key |-> s.keys, sig |-> Revision(s),
                               rows |-> UNION {s.threads[t].rows : t \in {u \in Threads : s.threads[u] # None}}]]

\* _only_appended()
OnlyAppended(job, s) ==
    LET now == Revision(s)
    IN /\ job.gen = s.gen /\ job.key = s.keys /\ job.sig[3] = now[3]
       /\ now[2] >= job.sig[2] /\ now[1] + job.sig[2] = job.sig[1] + now[2]

\* _finish_search()
FinishSearch(s) ==
    Answer([s EXCEPT !.search = None,
                     !.found = IF ~s.locked /\ OnlyAppended(s.search, s) THEN s.search.rows ELSE {}],
           s.search.id)

\* mark_thread_read()
MarkThreadRead(s, c) ==
    IF s.threads[c.t] = None \/ ~s.threads[c.t].unread \/ s.locked THEN Answer(s, c.id)
    ELSE Answer(EmitHistoryChanged(Invalidate(
             [s EXCEPT !.rows = {IF r.id \in s.threads[c.t].rows THEN [r EXCEPT !.unread = FALSE] ELSE r : r \in @},
                       !.changes = @ + 1])), c.id)

\* clear_history()
ClearHistory(s) ==
    EmitHistoryChanged(Invalidate([s EXCEPT !.rows = {}, !.route = None, !.known = None, !.alarm = FALSE]))

-----------------------------------------------------------------------------
(***************************************************************************)
(* What waited is told: on_ready and on_error of prepare_async().          *)
(***************************************************************************)

\* The projection is current, or is made so by the first look at it.
Ready(s, c) ==
    Then(Built(s), LAMBDA b :
        CASE c.type = "list" -> Answer(HoldRosterWarnings(b), c.id)
          [] c.type = "send" -> SendToThread(b, c)
          [] c.type = "place" -> SendNow(b, c)
          [] c.type = "save" -> SaveGroupParticipants(b, c)
          [] c.type = "saved" -> GroupThreadSaved(b, c)
          [] c.type = "delete" -> DeleteThreads(b, c)
          [] c.type = "again" -> Attempt(b, c)
          [] c.type = "search" -> SearchAsync(b, c)
          [] c.type = "mark" -> MarkThreadRead(b, c)
          [] OTHER -> HoldRosterWarnings([b EXCEPT !.check = FALSE]))

Refused(s, c) ==
    CASE c.type = "check" -> [s EXCEPT !.check = FALSE]
      [] c.type = "again" -> DeletionFailed(s, c)
      [] OTHER -> Answer(s, c.id)

Prepare(now, c) == Then(now, LAMBDA s : IF Current(s) THEN Ready(s, c) ELSE Wait(s, c))

\* What each of those that wait does, one after another.
Each(Step(_, _), s, waiting) ==
    LET told[i \in 0 .. Len(waiting)] ==
            IF i = 0 THEN s ELSE Then(told[i - 1], LAMBDA now : Step(now, waiting[i]))
    IN told[Len(waiting)]

\* A waiter of a projection that is out of date waits again, a deletion only so often.
Rewait(s, c) ==
    IF c.type # "again" THEN Prepare(s, c)
    ELSE IF s.deleting = 0 THEN Refused(s, c)
    ELSE Prepare([s EXCEPT !.deleting = @ - 1], c)

\* loaded(): published only if nothing changed since it was asked for.
Loaded(s, job, threads) ==
    LET current == job.gen = s.gen /\ job.sig = Revision(s)
        published == [s EXCEPT !.loading = FALSE, !.waiting = <<>>,
                               !.threads = IF current THEN threads ELSE @,
                               !.sig = IF current THEN job.sig ELSE @]
    IN IF current THEN Each(Prepare, published, s.waiting) ELSE Each(Rewait, published, s.waiting)

\* failed() of a projection
LoadFailed(s, job) ==
    IF job.gen # s.gen \/ job.sig # Revision(s) THEN Loaded(s, job, None)
    ELSE Each(Refused, [s EXCEPT !.loading = FALSE, !.waiting = <<>>], s.waiting)

-----------------------------------------------------------------------------
(***************************************************************************)
(* The client.                                                             *)
(***************************************************************************)

\* ListThreads was answered: apply_snapshot() takes what the backend confirmed.  A list that
\* waits is answered in the step that publishes the projection.
Listed(s, u, view) ==
    [u EXCEPT !.view = view,
              !.agreed = [t \in Threads |->
                  IF view[t] # None /\ view[t].confirmed THEN view[t].token ELSE u.agreed[t]]]

\* The answers of this step, as far as the client keeps something of them: a list, the thread
\* of a saved roster, and the roster of a reply that was sent.
Lists(s, step) == \E i \in DOMAIN s.waiting : s.waiting[i].type = "list" /\ s.waiting[i].id \notin step.open
Done(step) ==
    \E next \in {step} :
        /\ cv' = next
        /\ ui' = IF Lists(cv, next) /\ next.threads # None THEN Listed(next, ui, Presented(next)) ELSE ui

\* A method of the service is called.
Call(c) ==
    Prepare([cv EXCEPT !.calls = @ + 1, !.open = @ \cup {cv.calls + 1}], [c EXCEPT !.id = cv.calls + 1])

Asking(type, t, to, confirm, token) ==
    [type |-> type, id |-> 0, t |-> t, to |-> to, confirm |-> confirm, token |-> token, accepted |-> {},
     after |-> cv.pushed]

ListThreads ==
    /\ Use("list")
    /\ \E next \in {Call(Asking("list", None, {}, FALSE, None))} :
          /\ cv' = next
          /\ ui' = IF next.calls \in next.open THEN ui ELSE Listed(next, ui, Presented(next))

\* plan_reply(): what becomes of a reply to the thread as it is shown.
Disposition(t) ==
    LET shown == ui.view[t]
    IN IF shown = None THEN "no-thread"
       ELSE IF t \in Groups /\ shown.thread.required THEN "needs-participants"
       ELSE IF t \notin Groups /\ shown.thread.token # None
            THEN IF ui.agreed[t] = shown.token THEN "ready" ELSE "confirm"
       ELSE IF ~shown.thread.ready THEN "read-only"
       ELSE IF t \in Groups /\ ~shown.confirmed /\ ui.agreed[t] # shown.token THEN "confirm"
       ELSE "ready"

\* SendToThreadChecked with the token of what is shown.
Send(t, confirm) == Call(Asking("send", t, {}, confirm, ui.view[t].token))

Reply ==
    \E t \in Threads :
        /\ ui.dialog = None
        /\ \/ /\ Disposition(t) = "ready" /\ Use("reply")
              /\ Done(Send(t, t \notin Groups /\ ui.view[t].thread.token # None))
           \/ /\ Disposition(t) = "confirm" /\ Use("reply")
              /\ ui' = [ui EXCEPT !.dialog = [t |-> t, token |-> ui.view[t].token]] /\ UNCHANGED cv

\* The user agrees to what the dialog showed: if that is no longer what is listed, the reply
\* is not sent.
Confirm ==
    LET d == ui.dialog
    IN /\ d # None /\ UNCHANGED left
       /\ IF ui.view[d.t] # None /\ ui.view[d.t].token = d.token
          THEN \E next \in {Send(d.t, TRUE)} :
                  /\ cv' = [next EXCEPT !.approved = @ \cup {d.token}]
                  /\ ui' = [ui EXCEPT !.dialog = None, !.agreed[d.t] = d.token]
          ELSE ui' = [ui EXCEPT !.dialog = None] /\ UNCHANGED cv

\* SetGroupParticipants, for a group whose members the client has to ask for.
Participants ==
    /\ Disposition("g") = "needs-participants" /\ Use("save")
    /\ \E to \in Rosters :
           /\ ui.view["g"].thread.observed \subseteq to
           /\ cv' = Call(Asking("save", "g", to, FALSE, None))
           /\ ui' = [ui EXCEPT !.agreed["g"] = None]

Ask ==
    \/ Use("delete") /\ \E t \in Threads : Done(Call(Asking("delete", t, {}, FALSE, None)))
    \/ Use("search") /\ Done(Call(Asking("search", None, {}, FALSE, None)))
    \/ Use("mark") /\ \E t \in Threads : Done(Call(Asking("mark", t, {}, FALSE, None)))

-----------------------------------------------------------------------------
(***************************************************************************)
(* Workers, the phone and the disk.                                        *)
(***************************************************************************)

\* A message is pushed: its fetch is queued behind what the worker has to do.
Fetch(row) ==
    /\ cv' = [cv EXCEPT !.pushed = @ + 1,
                        !.obex = Append(@, [type |-> "fetch", row |-> row, n |-> cv.pushed + 1])]
    /\ UNCHANGED ui

Push ==
    \/ Use("member") /\ Fetch(Row("g", "a", {}, FALSE))
    \/ Use("outsider") /\ Fetch(Row("g", "x", {}, FALSE))
    \/ Use("plain") /\ Fetch(Row("d", "d", {}, FALSE))
    \/ Use("maybe") /\ Fetch(Row("d", "d", {}, TRUE))

\* The OBEX worker is done with the oldest operation, and its callback runs.
ObexDone ==
    /\ cv.obex # <<>> /\ UNCHANGED left
    /\ LET item == Head(cv.obex)
       IN Done(Then([cv EXCEPT !.obex = Tail(@)], LAMBDA s :
                   CASE item.type = "fetch" -> Store(s, item.row)
                     [] item.type = "place" -> Prepare(s, item)
                     [] item.type = "send" -> Sent(s, item)))

SendFails ==
    /\ cv.obex # <<>> /\ Head(cv.obex).type = "send" /\ Use("fail")
    /\ Done(Answer([cv EXCEPT !.obex = Tail(@)], Head(cv.obex).id))

\* The projection worker reads the archive: for a projection with the key it was given, for
\* a deletion all rows of the conversation (_resolve_deletion()).
Run(ok) ==
    LET job == Head(cv.jobs)
        rows == IF ~ok THEN {} ELSE cv.rows
    IN cv' = [cv EXCEPT !.jobs = Tail(@),
                        !.results = Append(@, [job |-> job, ok |-> ok,
                            ids |-> IF job.type = "project" THEN {}
                                    ELSE {r.id : r \in {q \in rows : q.th = job.c.t}},
                            threads |-> IF job.type = "project"
                                        THEN BuildThreads(IF job.blind THEN {} ELSE rows, job.route)
                                        ELSE None])]

Work == cv.jobs # <<>> /\ Run(TRUE) /\ UNCHANGED <<ui, left>>
WorkFails == cv.jobs # <<>> /\ Use("fail") /\ Run(FALSE) /\ UNCHANGED ui

\* deliver() of the projection worker
Deliver ==
    /\ cv.results # <<>> /\ UNCHANGED left
    /\ LET r == Head(cv.results)
       IN Done(Then([cv EXCEPT !.results = Tail(@)], LAMBDA s :
                   IF r.job.type = "resolve" THEN Resolved(s, r.job, r.ids, r.ok)
                   ELSE IF r.ok THEN Loaded(s, r.job, r.threads)
                   \* The check of the roster that waited for it is not made again.
                   ELSE Then([s EXCEPT !.alarm = FALSE], LAMBDA t : LoadFailed(t, r.job))))

SearchDone == cv.search # None /\ Done(FinishSearch(cv)) /\ UNCHANGED left

\* prune_events(), long after a message came: not before its own check.
Prune ==
    /\ ~cv.locked /\ ~cv.check /\ cv.jobs = <<>> /\ cv.results = <<>> /\ Use("prune")
    /\ \E old \in cv.rows : cv' = [cv EXCEPT !.rows = {r \in @ : r.id > old.id}]
    /\ UNCHANGED ui

\* The wallet is locked, and unlocked again (retry_storage_unlock()).
Lock == ~cv.locked /\ Use("lock") /\ cv' = [cv EXCEPT !.locked = TRUE, !.keys = @ + 1] /\ UNCHANGED ui
Unlock == cv.locked /\ Done(EmitHistoryChanged([cv EXCEPT !.locked = FALSE, !.keys = @ + 1])) /\ UNCHANGED left

\* ClearHistory, and contacts that were loaded again (_contacts_refreshed()).
Clear == Use("clear") /\ Done(ClearHistory(cv))
Reload == Use("reload") /\ Done(EmitHistoryChanged(Invalidate(cv)))

-----------------------------------------------------------------------------
Next ==
    \/ ListThreads \/ Reply \/ Confirm \/ Participants \/ Ask
    \/ Push \/ ObexDone \/ SendFails \/ Work \/ WorkFails \/ Deliver \/ SearchDone
    \/ Prune \/ Lock \/ Unlock \/ Clear \/ Reload

\* The workers' calls end and the main loop dispatches what is ready.
FairStep(k) ==
    CASE k = 1 -> ObexDone [] k = 2 -> Work [] k = 3 -> Deliver [] k = 4 -> SearchDone [] OTHER -> FALSE

Spec == Init /\ [][Next]_conversationVars /\ \A k \in 1 .. 4 : WF_conversationVars(FairStep(k))

-----------------------------------------------------------------------------
Rows(s, t) == {r \in s.rows : r.th = t}
Senders(s, t) == {r.from : r \in Rows(s, t)} \ {"me"}

\* The reply that this step hands to the worker to be sent, if there is one.
Handed == {i \in DOMAIN cv'.obex : cv'.obex[i].type = "send" /\ i > Len(cv.obex) - 1
                                    /\ (i > Len(cv.obex) \/ cv.obex[i].type # "send")}

(* A reply to a group goes to the roster a user approved, which holds everyone whose message
   is in the archive, and to nobody once somebody outside the saved roster wrote, even after
   that message expired, until the roster is saved again.  The last is excepted after a
   projection that failed: the warning is then held when the conversations are next listed,
   if the message is still there.  A doubtful message is answered only after the user judged
   exactly the messages there are.  All messages pushed before the reply was asked for are
   stored by then (send_to_thread(), _thread_route(), hold_roster_warnings()). *)
ReplyStep ==
    \A i \in Handed :
        LET c == cv'.obex[i] IN
        /\ \A j \in 1 .. i : cv'.obex[j].type = "fetch" => cv'.obex[j].n > c.after
        /\ c.t \in Groups =>
               /\ c.token \in cv'.approved /\ c.token = <<c.accepted, None>>
               /\ Senders(cv, c.t) \subseteq c.accepted
               /\ ~cv'.alarm
        /\ c.t \notin Groups =>
               LET incoming == {r \in Rows(cv, c.t) : r.from # "me"}
               IN incoming # {} /\ Newest(incoming).maybe =>
                      <<"sender", {r.id : r \in {q \in incoming : q.maybe}}>> \in cv'.approved

(* A deletion erases a conversation wholly and nothing else, whatever arrived while its
   archive was read (resolved()); and the answer of a search names nothing that is gone
   (_finish_search()). *)
EraseStep ==
    /\ cv.deleting # None /\ cv'.rows # cv.rows /\ cv'.deleting = None =>
           \E t \in Threads : cv'.rows = cv.rows \ Rows(cv, t)
    /\ cv.search # None /\ cv'.search = None => cv'.found \subseteq {r.id : r \in cv'.rows}

(* No call is answered twice, the projection worker, which takes two jobs, is never asked for
   a third, and the roster check is pending only while it waits. *)
Orderly ==
    /\ ~cv.twice
    /\ Len(cv.jobs) + Len(cv.results) <= 2
    /\ cv.check <=> \E i \in DOMAIN cv.waiting : cv.waiting[i].type = "check"
    /\ cv.waiting # <<>> => cv.loading

(* Every call is answered. *)
CallsAnswered == []<>(cv.open = {})

RequestsKept == []Orderly /\ [][EraseStep]_conversationVars /\ CallsAnswered
RepliesAsApproved == [][ReplyStep]_conversationVars
=============================================================================
