--------------------------- MODULE MessageBackfill ---------------------------
(***************************************************************************)
(* Live and missed messages on their way to history: the MNS listener      *)
(* (src/src/blueferry/obex/map_events.py), the backfill of missed messages *)
(* (message_backfill.py), the history it shares with the live path         *)
(* (history.py, sinks/sqlite.py) and the daemon's wiring (daemon.py).      *)
(*                                                                         *)
(* Fetches, listings and stores are operations of the OBEX worker, whose   *)
(* FIFO order is all that matters of it here (ObexWorker); a listing is    *)
(* cut between its history scan and its listing of the phone.  Callbacks,  *)
(* signals, timers, and the user's erasures are steps of the main loop.    *)
(*                                                                         *)
(* Messages are numbered in the order the phone receives them.  Matching a *)
(* listed message with a stored one (match_listing) is exact; read flags   *)
(* and the ceiling of one listing are left out.  Every connection has the  *)
(* same session path, as after a restart of obexd.                         *)
(***************************************************************************)
EXTENDS Naturals, Sequences, FiniteSetsExt

CONSTANTS
    MaxMessages,    \* bound of the messages the phone receives
    MaxTime,        \* bound of the clock, in seconds of a message's timestamp
    MaxTrouble,     \* bound of losses, failures, erasures and locked storage
    Margin,         \* SAFETY_MARGIN
    None

\* None is neither a time nor a set of messages.
ASSUME BackfillAssumption ==
    /\ MaxMessages \in Nat /\ Margin \in Nat
    /\ None \notin Nat /\ \A ms \in SUBSET (1 .. MaxMessages) : ms # None

VARIABLES
    now,
    stamp,          \* the phone's inbox: when message i arrived
    connected,      \* sessions.map, and with it the listener
    mns,            \* the phone's MNS connection is up
    pushes,         \* announced messages the main loop has not seen
    queue,          \* the worker's operations; the first is being executed
    scan,           \* the listing's scan of history, or None
    done,           \* finished operations whose callback is pending
    timer, busy, rerun, generation,
    liveAfter, live, remembered,    \* of MessageBackfill
    enabled,        \* history_enabled(storage)
    history,        \* stored messages: number, seen_at, and whether delivered live
    copies,         \* how often message i is in history
    floor,          \* the backfill floor; 0 while nothing was erased
    owing,          \* history: no listing began since the connection, a lock
                    \* or a failure
    gapped,         \* history: an earlier connection left a gap (PassedOver), or a
                    \* store of its failed; or a plan leaves out a live message
                    \* that was not written
    trouble

Message == 1 .. MaxMessages

phoneVars == <<now, stamp, mns>>
workVars == <<queue, scan, done>>
backfillVars == <<timer, busy, rerun, generation, liveAfter, live, remembered>>
storeVars == <<enabled, history, copies, floor>>
vars == <<phoneVars, connected, pushes, workVars, backfillVars, storeVars,
          owing, gapped, trouble>>

Init ==
    /\ now = 1 /\ stamp = <<>> /\ connected = FALSE /\ mns = FALSE
    /\ pushes = <<>> /\ queue = <<>> /\ scan = None /\ done = <<>>
    /\ timer = FALSE /\ busy = FALSE /\ rerun = FALSE /\ generation = 0
    /\ liveAfter = None /\ live = None /\ remembered = {}
    /\ enabled = TRUE /\ history = {} /\ floor = 0
    /\ copies = [m \in Message |-> 0]
    /\ owing = TRUE /\ gapped = FALSE /\ trouble = 0

Disturb == trouble < MaxTrouble /\ trouble' = trouble + 1

\* A step that may fail: success is free, failures are bounded.
Fate(ok) == IF ok THEN UNCHANGED trouble ELSE Disturb

Inbox == DOMAIN stamp
Stored == {r.msg : r \in history}

Fetch(m) == [kind |-> "fetch", gen |-> generation, msgs |-> {m}, floor |-> 0, after |-> None]
Listing == [kind |-> "list", gen |-> generation, msgs |-> {}, floor |-> 0, after |-> liveAfter]
Storing(ms, below) ==
    [kind |-> "store", gen |-> generation, msgs |-> ms, floor |-> below, after |-> None]

-----------------------------------------------------------------------------
(***************************************************************************)
(* MessageBackfill on the main loop.                                       *)
(***************************************************************************)

\* request(), when history is enabled and the session open; while a listing is
\* in flight it is done again afterwards.  Without a busy backfill rerun is
\* FALSE, or _finish has just reset it.
Schedule(inFlight) ==
    /\ liveAfter' = IF liveAfter = None THEN now ELSE liveAfter
    /\ rerun' = inFlight
    /\ timer' = (timer \/ ~inFlight)

Request(able) ==
    IF able THEN Schedule(busy) ELSE UNCHANGED <<liveAfter, rerun, timer>>

\* _finish()
Finish(gen) ==
    IF gen # generation
      THEN UNCHANGED <<busy, live, rerun, timer, liveAfter>>
      ELSE /\ busy' = FALSE /\ live' = None
           /\ IF rerun /\ enabled /\ connected
                THEN Schedule(FALSE)
                ELSE rerun' = FALSE /\ UNCHANGED <<timer, liveAfter>>

\* stop()
Reset ==
    /\ generation' = generation + 1
    /\ timer' = FALSE /\ busy' = FALSE /\ rerun' = FALSE
    /\ liveAfter' = None /\ live' = None /\ remembered' = {}

\* _fire(); ok says whether the worker accepts the listing.
Fire(ok) ==
    /\ timer /\ timer' = FALSE
    /\ ok \/ enabled
    /\ IF enabled /\ ok
         THEN /\ busy' = TRUE /\ live' = {}
              /\ queue' = Append(queue, Listing)
              /\ owing' = FALSE
         ELSE /\ owing' = TRUE
              /\ UNCHANGED <<busy, live, queue>>
    /\ Fate(ok)
    /\ UNCHANGED <<phoneVars, connected, pushes, scan, done, rerun, generation,
                   liveAfter, remembered, storeVars, gapped>>

-----------------------------------------------------------------------------
(***************************************************************************)
(* The worker.  Each operation may fail.                                   *)
(***************************************************************************)

Running(kind) == queue # <<>> /\ Head(queue).kind = kind

\* The operation ends; its callback gets the outcome and, of a listing, the plan.
Ends(outcome, plan) ==
    /\ queue' = Tail(queue)
    /\ done' = Append(done, [job |-> Head(queue), outcome |-> outcome, plan |-> plan])
    /\ UNCHANGED <<phoneVars, connected, pushes, backfillVars, enabled, owing, gapped>>

\* _fetch_bmessage()
RunFetch(ok) ==
    /\ Running("fetch")
    /\ ok => connected
    /\ Fate(ok \/ ~connected)
    /\ Ends(IF ok THEN "ok" ELSE "failed", {})
    /\ UNCHANGED <<scan, history, copies, floor>>

\* Mutant: live deliveries of this connection count as the newest message.
CountingLive(after) == {stamp[r.msg] : r \in history}

\* The times of the stored messages that did not arrive live in this connection.
CountingOld(after) == {stamp[r.msg] : r \in {q \in history : q.seen < after}}

\* backfill_since(): a margin before the newest, and not below the erase floor.
BackfillSince(after) ==
    Max({floor} \cup {t - Margin : t \in {u \in CountingOld(after) : u > Margin}})

\* The first half of the listing: collect_history() and backfill_since().
Collect ==
    /\ Running("list") /\ scan = None
    /\ IF enabled
         THEN /\ scan' = [stored |-> Stored, floor |-> floor,
                          since |-> BackfillSince(Head(queue).after)]
              /\ UNCHANGED <<queue, done>>
         ELSE /\ queue' = Tail(queue)
              /\ done' = Append(done, [job |-> Head(queue), outcome |-> "failed", plan |-> {}])
              /\ UNCHANGED scan
    /\ UNCHANGED <<phoneVars, connected, pushes, backfillVars, storeVars, owing, gapped, trouble>>

\* plan_backfill(): listed and not matched with a stored message.
Unmatched == {m \in Inbox : stamp[m] >= scan.since /\ m \notin scan.stored}

\* The second half: list_inbox() and plan_backfill().  The plan's floor is the
\* one of the scan; the callback finds it in the job.
ListInbox(ok) ==
    /\ Running("list") /\ scan # None
    /\ ok => connected
    /\ Fate(ok \/ ~connected)
    /\ scan' = None
    /\ queue' = Tail(queue)
    /\ done' = Append(done,
         [job |-> [Head(queue) EXCEPT !.floor = scan.floor],
          outcome |-> IF ok THEN "ok" ELSE "failed",
          plan |-> IF ok THEN Unmatched ELSE {}])
    /\ UNCHANGED <<phoneVars, connected, pushes, backfillVars, storeVars, owing, gapped>>

\* Mutant: the store does not look at the floor again.
RefusesNothing(job) == FALSE

\* append_events(): history was erased since the scan (HistoryErasedError).
Refuses(job) == floor # job.floor

\* store_backfill(): all or nothing; seen_at is the message's own time.
RunStore(ok) ==
    LET job == Head(queue)
        outcome == IF ~enabled \/ ~ok THEN "failed" ELSE IF Refuses(job) THEN "erased" ELSE "ok"
    IN  /\ Running("store")
        /\ ok \/ enabled
        /\ Fate(ok)
        /\ Ends(outcome, {})
        /\ IF outcome = "ok"
             THEN /\ history' = history \cup
                        {[msg |-> m, seen |-> stamp[m], live |-> FALSE] : m \in job.msgs}
                  /\ copies' = [m \in Message |->
                                    IF m \in job.msgs THEN copies[m] + 1 ELSE copies[m]]
             ELSE UNCHANGED <<history, copies>>
        /\ UNCHANGED <<scan, floor>>

-----------------------------------------------------------------------------
(***************************************************************************)
(* Completion callbacks.                                                   *)
(***************************************************************************)

Answer == Head(done)
Answers(kind) == done # <<>> /\ Answer.job.kind = kind /\ done' = Tail(done)
Current == Answer.job.gen = generation

\* live_message(): FALSE for a message the backfill stores.
Persists(m) == m \notin remembered

\* MapEventListener._fetched() of a running listener, live_message() and the
\* history sink, whose write may fail (ok).
LiveMessage(m, ok) ==
    /\ remembered' = remembered \ {m}
    /\ live' = IF live # None /\ m \notin remembered THEN live \cup {m} ELSE live
    /\ IF Persists(m) /\ enabled /\ ok
         THEN /\ history' = history \cup {[msg |-> m, seen |-> now, live |-> TRUE]}
              /\ copies' = [copies EXCEPT ![m] = @ + 1]
         ELSE UNCHANGED <<history, copies>>
    /\ owing' = (owing \/ ~ok)
    /\ gapped' = (gapped \/ (live # None /\ Persists(m) /\ ~(enabled /\ ok)))

\* _fetched() and _fetch_failed(); the listener of an earlier connection is
\* stopped and drops both.
Fetched(ok) ==
    /\ Answers("fetch")
    /\ ok \/ (Current /\ Answer.outcome = "ok" /\ enabled)
    /\ Fate(ok)
    /\ IF Current /\ Answer.outcome = "ok"
         THEN \E m \in Answer.job.msgs : LiveMessage(m, ok)
         ELSE /\ owing' = (owing \/ Current)
              /\ UNCHANGED <<remembered, live, history, copies, gapped>>
    /\ UNCHANGED <<phoneVars, connected, pushes, queue, scan, timer, busy, rerun,
                   generation, liveAfter, enabled, floor>>

\* Mutant: live messages that came during the listing are planned again.
MissingAll == Answer.plan

\* What the plan lacks on arrival at the main loop.
Missing == Answer.plan \ (IF live = None THEN {} ELSE live)

\* Mutant: a plan that came too late leaves the backfill busy.
PlannedLateForgotten(ok) ==
    /\ Answers("list") /\ Answer.outcome = "ok"
    /\ ok \/ (Current /\ connected /\ enabled /\ Missing # {})
    /\ Fate(ok)
    /\ IF ~(Current /\ connected /\ enabled)
         THEN UNCHANGED <<busy, live, rerun, timer, liveAfter, remembered, queue>>
       ELSE IF Missing = {} \/ ~ok
         THEN Finish(generation) /\ UNCHANGED <<remembered, queue>>
       ELSE /\ live' = None
            /\ remembered' = remembered \cup Missing
            /\ queue' = Append(queue, Storing(Missing, Answer.job.floor))
            /\ UNCHANGED <<busy, rerun, timer, liveAfter>>
    /\ owing' = (owing \/ ~ok)
    /\ UNCHANGED <<phoneVars, connected, pushes, scan, generation, storeVars, gapped>>

\* _planned(): ok says whether the worker accepts the store; a refused one is
\* forgotten again at once.
Planned(ok) ==
    /\ Answers("list") /\ Answer.outcome = "ok"
    /\ ok \/ (Current /\ connected /\ enabled /\ Missing # {})
    /\ Fate(ok)
    /\ IF ~(Current /\ connected /\ enabled) \/ Missing = {} \/ ~ok
         THEN Finish(Answer.job.gen) /\ UNCHANGED <<remembered, queue>>
         ELSE /\ live' = None
              /\ remembered' = remembered \cup Missing
              /\ queue' = Append(queue, Storing(Missing, Answer.job.floor))
              /\ UNCHANGED <<busy, rerun, timer, liveAfter>>
    /\ owing' = (owing \/ ~ok)
    /\ UNCHANGED <<phoneVars, connected, pushes, scan, generation, storeVars, gapped>>

\* _failed() of a listing.
ListingFailed ==
    /\ Answers("list") /\ Answer.outcome = "failed"
    /\ Finish(Answer.job.gen)
    /\ owing' = (owing \/ Current)
    /\ UNCHANGED <<phoneVars, connected, pushes, queue, scan, generation, remembered,
                   storeVars, gapped, trouble>>

\* stored() and failed() of a store; failed() does not look at the generation
\* before it forgets the messages.
StoreEnded ==
    /\ Answers("store")
    /\ remembered' = IF Answer.outcome = "ok" THEN remembered
                     ELSE remembered \ Answer.job.msgs
    /\ Finish(Answer.job.gen)
    /\ owing' = (owing \/ (Current /\ Answer.outcome # "ok"))
    /\ gapped' = (gapped \/ (~Current /\ Answer.outcome # "ok"))
    /\ UNCHANGED <<phoneVars, connected, pushes, queue, scan, generation, storeVars,
                   trouble>>

-----------------------------------------------------------------------------
(***************************************************************************)
(* The daemon, the phone and the user.                                     *)
(***************************************************************************)

\* A missing message older than one that is stored, or about to be: its gap was
\* left open by an earlier connection.
UnderWay == UNION {queue[i].msgs : i \in {k \in DOMAIN queue : queue[k].kind = "store"}}
PassedOver ==
    \E m \in Inbox \ (Stored \cup UnderWay), n \in Stored \cup UnderWay :
        stamp[m] > floor /\ stamp[m] + Margin < stamp[n]

\* _post_available_sessions_setup() with a MAP session.
Connect ==
    /\ ~connected /\ connected' = TRUE
    /\ Request(enabled)
    /\ owing' = TRUE /\ gapped' = PassedOver
    /\ UNCHANGED <<phoneVars, pushes, workVars, busy, generation, live, remembered,
                   storeVars, trouble>>

\* _profiles_lost(): the session is gone, the listener is stopped.
Disconnect ==
    /\ connected /\ connected' = FALSE /\ mns' = FALSE /\ pushes' = <<>>
    /\ Disturb
    /\ Reset
    /\ UNCHANGED <<now, stamp, workVars, storeVars, owing, gapped>>

\* The phone opens MNS: _mns_present().
MnsUp ==
    /\ connected /\ ~mns /\ mns' = TRUE
    /\ Request(enabled)
    /\ UNCHANGED <<now, stamp, connected, pushes, workVars, busy, generation, live,
                   remembered, storeVars, owing, gapped, trouble>>

\* The phone drops MNS alone.
MnsDown ==
    /\ mns /\ mns' = FALSE
    /\ Disturb
    /\ UNCHANGED <<now, stamp, connected, pushes, workVars, backfillVars, storeVars,
                   owing, gapped>>

\* The phone receives a message, and pushes it if MNS is up.
Arrive ==
    /\ Len(stamp) < MaxMessages
    /\ stamp' = Append(stamp, now)
    /\ pushes' = IF mns THEN Append(pushes, Len(stamp) + 1) ELSE pushes
    /\ UNCHANGED <<now, mns, connected, workVars, backfillVars, storeVars, owing, gapped, trouble>>

\* _on_interfaces_added(); a worker that refuses the fetch loses it (ok).
Pushed(ok) ==
    /\ pushes # <<>> /\ pushes' = Tail(pushes)
    /\ Fate(ok)
    /\ queue' = IF ok THEN Append(queue, Fetch(Head(pushes))) ELSE queue
    /\ owing' = (owing \/ ~ok)
    /\ UNCHANGED <<phoneVars, connected, scan, done, backfillVars, storeVars, gapped>>

\* The storage is locked, or unlocked again: _on_storage_changed().
StorageChanged ==
    /\ enabled' = ~enabled
    /\ IF enabled THEN Disturb ELSE UNCHANGED trouble
    /\ Request(connected /\ ~enabled)
    /\ owing' = (owing \/ enabled)
    /\ UNCHANGED <<phoneVars, connected, pushes, workVars, busy, generation, live,
                   remembered, history, copies, floor, gapped>>

\* clear_events() of everything, or delete_event_rows() of a conversation; both
\* raise the floor in the same transaction.
Erase(gone) ==
    /\ gone = Stored \/ (gone # {} /\ enabled)
    /\ Disturb
    /\ history' = {r \in history : r.msg \notin gone}
    /\ copies' = [m \in Message |-> IF m \in gone THEN 0 ELSE copies[m]]
    /\ floor' = Max({floor, now})
    /\ UNCHANGED <<phoneVars, connected, pushes, workVars, backfillVars, enabled, owing, gapped>>

Tick ==
    /\ now < MaxTime /\ now' = now + 1
    /\ UNCHANGED <<stamp, mns, connected, pushes, workVars, backfillVars, storeVars,
                   owing, gapped, trouble>>

\* Nothing is under way.
Quiet == pushes = <<>> /\ queue = <<>> /\ done = <<>> /\ ~timer /\ ~busy
Rest == Quiet /\ UNCHANGED vars

-----------------------------------------------------------------------------
Worker ==
    Collect \/ \E ok \in BOOLEAN : RunFetch(ok) \/ ListInbox(ok) \/ RunStore(ok)

MainLoop ==
    \/ ListingFailed \/ StoreEnded
    \/ \E ok \in BOOLEAN : Fire(ok) \/ Pushed(ok) \/ Fetched(ok) \/ Planned(ok)

World ==
    \/ Connect \/ Disconnect \/ MnsUp \/ MnsDown
    \/ Arrive \/ StorageChanged \/ Tick
    \/ \E gone \in SUBSET Message : Erase(gone)

Next == Worker \/ MainLoop \/ World \/ Rest

SafetySpec == Init /\ [][Next]_vars

\* The worker's calls time out and GLib dispatches what is ready.
FairStep(k) == CASE k = 1 -> Worker [] k = 2 -> MainLoop [] OTHER -> FALSE

Spec == SafetySpec /\ \A k \in 1 .. 2 : WF_vars(FairStep(k))

-----------------------------------------------------------------------------
(***************************************************************************)
(* Properties.                                                             *)
(***************************************************************************)

\* The backfill's and the history's state is well formed.
TypeOK ==
    /\ stamp \in Seq(Nat) /\ Len(stamp) <= MaxMessages
    /\ {connected, mns, timer, busy, rerun, enabled, owing, gapped} \subseteq BOOLEAN
    /\ {now, generation, floor, trouble} \subseteq Nat
    /\ liveAfter \in Nat \cup {None}
    /\ live = None \/ live \subseteq Inbox
    /\ remembered \subseteq Inbox /\ Stored \subseteq Inbox
    /\ timer \/ busy => liveAfter # None
    /\ live # None \/ rerun => busy
    /\ timer => ~busy

\* A message that arrives both live and through a listing is stored once, however
\* its fetch, the listing, the plan, the store and a reconnect interleave
\* (_live, _remembered, and the FIFO of the worker).
StoredOnce == \A m \in Message : copies[m] <= 1

\* A backfill adds nothing older than the last erasure, not even with a plan made
\* before it (backfill_floor, HistoryErasedError).  A message of the very second
\* of the erasure is not older.
ErasedStaysErased ==
    [][\A r \in history' \ history : ~r.live => stamp[r.msg] >= floor]_vars

\* When all is quiet again after a connection, a new MNS or an unlock, and no
\* call failed since the last listing began, history has every message of the
\* phone that is newer than the last erasure: a live message delivered before
\* the listing does not hide the gap before it (live_after), and a request
\* during a listing is not lost (_rerun).  gapped excepts what an earlier
\* connection left behind, and a live message that could not be written during
\* a listing: it is in _live all the same.
CaughtUp ==
    Quiet /\ connected /\ mns /\ enabled /\ ~owing /\ ~gapped =>
        \A m \in Inbox : stamp[m] > floor => m \in Stored

\* "After each MAP or MNS (re)connect the backend lists the phone's inbox once and
\* stores the messages history does not have": CaughtUp without its exception.
EveryGapFilled ==
    Quiet /\ connected /\ mns /\ enabled /\ ~owing =>
        \A m \in Inbox : stamp[m] > floor => m \in Stored

\* A requested backfill ends: no failure, stale answer or late plan leaves it
\* busy, which would turn every later request into a rerun that never comes.
BackfillEnds == []<>(~busy /\ ~timer)
=============================================================================
