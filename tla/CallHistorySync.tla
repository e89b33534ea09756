--------------------------- MODULE CallHistorySync ---------------------------
(***************************************************************************)
(* The synchronization of the phone's call lists: class CallHistorySync of *)
(* src/src/blueferry/call_history_sync.py, the daemon's switch and erasure *)
(* of it, and the preparation of local storage that hands it the records   *)
(* on disk (storage_preparation.py, StorageSecurity.change_async).         *)
(*                                                                         *)
(* One list is pulled per job of the OBEX worker, then a last job stores   *)
(* them.  Jobs and their callbacks are FIFO, so jobs is a queue whose head *)
(* is executed and then delivered.  Records are told apart by age alone:   *)
(* "old" ones were pulled before the user last erased them.  A generation  *)
(* is compared for equality only, so a job says whether it is current.     *)
(***************************************************************************)
EXTENDS Naturals, Sequences

CONSTANTS
    Lists,          \* how many phonebooks a full pull lists (PHONEBOOKS)
    MaxBackoff,     \* CALL_HISTORY_MAX_BACKOFF_TICKS
    MaxAsks,        \* bound of the clients' syncs and of ANCS's requests
    MaxFaults,      \* bound of losses, erasures, switches and failures
    None

VARIABLES
    ch,             \* the sync, its jobs, and local storage
    net,            \* the sessions, and the preparation of storage
    faults, asks

historyVars == <<ch, net, faults, asks>>

\* The sync of a feature just switched on.  job: a pull is under way (_pending), and full
\* or not; wait, waited: _map_wait_id and _map_wait_finished; ask: _request_id.
NewSync ==
    [job |-> None, waiters |-> 0, queued |-> 0, records |-> "none", synced |-> FALSE,
     deferred |-> FALSE, seen |-> FALSE, wait |-> FALSE, waited |-> FALSE,
     periodic |-> FALSE, initial |-> FALSE, ask |-> FALSE, askFull |-> FALSE,
     again |-> FALSE, againFull |-> FALSE, failed |-> 0, skip |-> 0]

\* on: the current sync, or None; off: callers of one switched off whose job is under way;
\* can: storage can be read and written; owed: a request that no pull has followed (history);
\* readopted: a preparation brought back what was erased after it was read (history).
Init ==
    /\ \E on \in {NewSync, None}, disk \in {"none", "new"} :
           /\ on = None => disk = "none"
           /\ ch = [on |-> on, off |-> 0, jobs |-> <<>>, disk |-> disk, owed |-> FALSE,
                    can |-> FALSE, readopted |-> FALSE]
    /\ net = [pbap |-> FALSE, map |-> FALSE, prep |-> "loading"]
    /\ faults = 0 /\ asks = 0

-----------------------------------------------------------------------------
Pending(s) == s.on.job # None

Mine(s, field) ==
    [i \in DOMAIN s.jobs |-> IF s.jobs[i].own THEN [s.jobs[i] EXCEPT ![field] = FALSE]
                             ELSE s.jobs[i]]

\* clear_call_history().
ClearFile(s) == [s EXCEPT !.disk = "none"]

\* clear_call_history() for the user: what was pulled before is old.
EraseDisk(s) ==
    [ClearFile(s) EXCEPT !.jobs = [i \in DOMAIN @ |-> [@[i] EXCEPT !.age = "old"]]]

DiscardCache(s) ==
    IF s.on = None THEN s
    ELSE [s EXCEPT !.jobs = Mine(s, "cache"), !.on.records = "none"]

\* Mutant: an erasure does not invalidate a pull that is under way.
ClearDiskOnly(s) ==
    IF s.on = None THEN EraseDisk(s)
    ELSE [EraseDisk(s) EXCEPT !.on.records = "none", !.on.synced = FALSE, !.owed = FALSE]

\* clear() of the sync, or of the file alone while the feature is off.
Clear(s) ==
    IF s.on = None THEN EraseDisk(s)
    ELSE LET erased == EraseDisk([s EXCEPT !.jobs = Mine(s, "cache")])
         IN [erased EXCEPT !.jobs = Mine(erased, "clear"),
                           !.on = [@ EXCEPT !.synced = FALSE, !.again = FALSE,
                                            !.againFull = FALSE, !.ask = FALSE,
                                            !.askFull = FALSE, !.queued = 0,
                                            !.records = "none"],
                           !.owed = FALSE]

-----------------------------------------------------------------------------
(* Pulls.  refused: the worker takes no job, as during a recovery. *)

Power2(n) == IF n = 0 THEN 1 ELSE IF n = 1 THEN 2 ELSE 4

Least(a, b) == IF a < b THEN a ELSE b

\* _finished() up to the callers; ok, or else whether it was the phone that failed.
Answered(s, ok, transport) ==
    LET count == Least(s.on.failed + 1, MaxBackoff)
        over == [s EXCEPT !.on.waiters = 0, !.on.job = None]
    IN CASE ok -> [over EXCEPT !.on.failed = 0, !.on.skip = 0]
         [] ~ok /\ transport ->
                [over EXCEPT !.on.failed = count,
                             !.on.skip = Least(Power2(count) - 1, MaxBackoff)]
         [] OTHER -> over

Submit(s, kind, left, full) ==
    [s EXCEPT !.jobs = Append(@, [kind |-> kind, left |-> left, full |-> full, own |-> TRUE,
                                  cache |-> TRUE, clear |-> TRUE, rev |-> TRUE,
                                  age |-> "new", done |-> None])]

\* _start(): nothing is queued yet, so a pull that cannot start only has its callers.
StartPull(s, full, refused) ==
    IF ~s.can \/ refused THEN Answered(s, FALSE, FALSE)
    ELSE [Submit(s, "list", IF full THEN Lists ELSE 1, full)
              EXCEPT !.on.job = IF full THEN "full" ELSE "missed", !.owed = FALSE]

Defer(s) == [s EXCEPT !.on.deferred = TRUE]

Refresh(s, reason, full, refused) ==
    LET seen == [s EXCEPT !.on.seen = @ \/ net.map]
        go == StartPull([seen EXCEPT !.on.deferred = FALSE], full \/ ~s.on.synced, refused)
    IN CASE Pending(s) ->
                IF reason = "request"
                THEN [s EXCEPT !.on.again = TRUE, !.on.againFull = @ \/ full] ELSE s
         [] ~Pending(s) /\ (~net.pbap \/ ~s.can) ->
                IF reason \in {"request", "deferred"} THEN Defer(s) ELSE s
         [] ~Pending(s) /\ net.pbap /\ s.can /\ net.map -> go
         [] OTHER ->
                CASE s.on.seen -> Defer(s)
                  [] ~s.on.seen /\ ~s.on.waited -> [Defer(s) EXCEPT !.on.wait = TRUE]
                  [] OTHER -> IF reason = "periodic" THEN s ELSE go

\* Mutant: callers that wait for a full pull are not taken up.
FinishedOnce(s, ok, transport, refused) ==
    LET over == Answered(s, ok, transport)
    IN IF over.on.again
       THEN Refresh([over EXCEPT !.on.again = FALSE, !.on.againFull = FALSE],
                    "request", over.on.againFull, refused)
       ELSE over

Finished(s, ok, transport, refused) ==
    LET over == Answered(s, ok, transport)
    IN CASE over.on.queued > 0 ->
                StartPull([over EXCEPT !.on.waiters = over.on.queued, !.on.queued = 0,
                                       !.on.again = FALSE], TRUE, refused)
         [] over.on.queued = 0 /\ over.on.again ->
                Refresh([over EXCEPT !.on.again = FALSE, !.on.againFull = FALSE],
                        "request", over.on.againFull, refused)
         [] OTHER -> over

\* sync(): a caller joins a full pull, waits for the end of another, or starts one.
Sync(s, refused) ==
    CASE s.on.job = "missed" -> [s EXCEPT !.on.queued = @ + 1]
      [] s.on.job = "full" -> [s EXCEPT !.on.waiters = @ + 1]
      [] OTHER -> StartPull([s EXCEPT !.on.waiters = @ + 1], TRUE, refused)

ProfilesAvailable(s, refused) ==
    IF s.on = None \/ ~net.pbap THEN s
    ELSE LET timed == [s EXCEPT !.on.seen = @ \/ net.map, !.on.periodic = TRUE,
                                !.on.initial = TRUE]
         IN IF s.on.deferred /\ net.map THEN Refresh(timed, "deferred", TRUE, refused)
            ELSE timed

StorageChanged(s, refused) ==
    CASE s.on = None -> s
      [] s.on # None /\ ~s.can -> DiscardCache(s)
      [] OTHER -> IF ~s.on.synced \/ s.on.deferred THEN Refresh(s, "storage", TRUE, refused)
                  ELSE s

-----------------------------------------------------------------------------
(* The callbacks of a job, the first of jobs; rest is s without it. *)

\* pull_next() and pulled(), within a pull.
Pulled(rest, j, refused) ==
    CASE j.left > 1 /\ ~j.cache -> Finished(rest, FALSE, FALSE, refused)
      [] refused /\ (j.left = 1 \/ j.cache) -> Finished(rest, FALSE, FALSE, FALSE)
      [] OTHER ->
             [rest EXCEPT !.jobs = Append(@, [j EXCEPT !.done = None, !.left = j.left - 1,
                                              !.kind = IF j.left = 1 THEN "store" ELSE "list"])]

\* stored() and _stored().
Stored(rest, j, refused) ==
    CASE ~j.clear -> Finished(rest, FALSE, FALSE, refused)
      [] j.clear /\ ~j.rev -> Finished(DiscardCache(ClearFile(rest)), FALSE, FALSE, refused)
      [] j.clear /\ j.rev /\ ~j.cache -> Finished(rest, FALSE, FALSE, refused)
      [] OTHER -> Finished([rest EXCEPT !.on.records = rest.disk, !.on.synced = @ \/ j.full],
                           TRUE, FALSE, refused)

\* The sync was switched off: disable() has a late write erased.
Late(rest, j) ==
    [(IF j.kind = "store" /\ j.done = "ok" THEN ClearFile(rest) ELSE rest) EXCEPT !.off = 0]

JobFinished(s, refused) ==
    LET j == Head(s.jobs)
        rest == [s EXCEPT !.jobs = Tail(@)]
    IN CASE ~j.own -> Late(rest, j)
         [] j.own /\ j.done = "error" -> Finished(rest, FALSE, j.kind = "list", refused)
         [] j.own /\ j.done = "ok" /\ j.kind = "list" -> Pulled(rest, j, refused)
         [] OTHER -> Stored(rest, j, refused)

-----------------------------------------------------------------------------
Fault == faults < MaxFaults /\ faults' = faults + 1
NoFault == UNCHANGED faults
Ask == asks < MaxAsks /\ asks' = asks + 1

\* A handler Step(s, refused) of the main loop; only a fault has the worker refuse a job.
Handler(Step(_, _)) ==
    \/ ch' = Step(ch, FALSE) /\ NoFault
    \/ ch' = Step(ch, TRUE) /\ ch' # Step(ch, FALSE) /\ Fault

\* The worker executes the first job.
Listing ==
    /\ ch.jobs # <<>> /\ Head(ch.jobs).done = None /\ Head(ch.jobs).kind = "list"
    /\ \/ ch' = [ch EXCEPT !.jobs[1].done = "ok"] /\ net.pbap /\ NoFault
       \/ ch' = [ch EXCEPT !.jobs[1].done = "error"] /\ ~net.pbap /\ NoFault
       \/ ch' = [ch EXCEPT !.jobs[1].done = "error"] /\ net.pbap /\ Fault
    /\ UNCHANGED <<net, asks>>

\* store(): what has not changed is not sealed again, and needs no key.
Store ==
    /\ ch.jobs # <<>> /\ Head(ch.jobs).done = None /\ Head(ch.jobs).kind = "store"
    /\ LET j == Head(ch.jobs)
           failed == [ch EXCEPT !.jobs[1].done = "error"]
           done == [ch EXCEPT !.jobs[1].done = "ok"]
       IN \/ ~j.cache /\ ch' = failed /\ NoFault
          \/ j.cache /\ ch' = failed /\ Fault
          \/ j.cache /\ ~j.rev /\ ch' \in {failed, done} /\ NoFault
          \/ j.cache /\ j.rev /\ NoFault
             /\ ch' = [done EXCEPT !.disk = IF j.age = "new" /\ (j.full \/ @ # "old")
                                            THEN "new" ELSE "old"]
    /\ UNCHANGED <<net, asks>>

Callback ==
    /\ ch.jobs # <<>> /\ Head(ch.jobs).done # None
    /\ Handler(JobFinished)
    /\ UNCHANGED <<net, asks>>

\* A client's SyncCallHistory.
ClientSync ==
    /\ ch.on # None /\ net.pbap /\ ch.can /\ Ask
    /\ Handler(Sync)
    /\ UNCHANGED net

\* request_sync(), for a call that ANCS reports.
RequestSync ==
    /\ ch.on # None /\ Ask
    /\ \E full \in BOOLEAN :
           ch' = [ch EXCEPT !.on.ask = TRUE, !.on.askFull = @ \/ full, !.owed = TRUE]
    /\ NoFault /\ UNCHANGED net

SessionUp ==
    /\ \E kind \in {"pbap", "map"} :
           /\ ~net[kind] /\ (kind = "map" => net.pbap)
           /\ net' = [net EXCEPT ![kind] = TRUE]
    /\ NoFault /\ UNCHANGED <<ch, asks>>

\* The daemon's consumers are told after sessions came up.
Available ==
    /\ ch.on # None /\ net.pbap /\ (~ch.on.initial \/ (net.map /\ ch.on.deferred))
    /\ Handler(ProfilesAvailable)
    /\ UNCHANGED <<net, asks>>

SessionDown ==
    /\ Fault
    /\ \E kind \in {"pbap", "map"} : net[kind] /\ net' = [net EXCEPT ![kind] = FALSE]
    /\ UNCHANGED <<ch, asks>>

InitialTimer ==
    /\ ch.on # None /\ ch.on.initial
    /\ LET Step(s, refused) ==
               Refresh([s EXCEPT !.on.initial = FALSE], "initial", TRUE, refused)
       IN Handler(Step)
    /\ UNCHANGED <<net, asks>>

MapWaitTimer ==
    /\ ch.on # None /\ ch.on.wait
    /\ LET Step(s, refused) ==
               LET over == [s EXCEPT !.on.wait = FALSE, !.on.waited = TRUE]
               IN IF s.on.deferred THEN Refresh(over, "grace", TRUE, refused) ELSE over
       IN Handler(Step)
    /\ UNCHANGED <<net, asks>>

RequestTimer ==
    /\ ch.on # None /\ ch.on.ask
    /\ LET Step(s, refused) ==
               Refresh([s EXCEPT !.on.ask = FALSE, !.on.askFull = FALSE], "request",
                       s.on.askFull, refused)
       IN Handler(Step)
    /\ UNCHANGED <<net, asks>>

PeriodicTimer ==
    /\ ch.on # None /\ ch.on.periodic
    /\ IF ch.on.skip > 0 THEN ch' = [ch EXCEPT !.on.skip = @ - 1] /\ NoFault
       ELSE LET Step(s, refused) == Refresh(s, "periodic", FALSE, refused) IN Handler(Step)
    /\ UNCHANGED <<net, asks>>

\* ClearHistory.
ClearHistory ==
    /\ Fault
    /\ ch' = Clear(ch)
    /\ net' = [net EXCEPT !.prep = IF @ = "new" THEN "old" ELSE @]
    /\ UNCHANGED asks

\* _set_call_history(False): the sync stops, its callers wait for the job under way.
SwitchOff ==
    /\ Fault /\ ch.on # None
    /\ ch' = EraseDisk([ch EXCEPT !.on = None, !.off = ch.on.waiters + ch.on.queued + ch.off,
                                  !.jobs = [i \in DOMAIN @ |-> [@[i] EXCEPT !.own = FALSE]],
                                  !.owed = FALSE])
    /\ net' = [net EXCEPT !.prep = IF @ = "new" THEN "old" ELSE @]
    /\ UNCHANGED asks

SwitchOn ==
    /\ ch.on = None
    /\ LET Step(s, refused) == ProfilesAvailable([s EXCEPT !.on = NewSync], refused)
       IN Handler(Step)
    /\ UNCHANGED <<net, asks>>

-----------------------------------------------------------------------------
(* The preparation of local storage: prep is None, "loading", or the records it read. *)

\* Storage is prepared again at an unlock, for which it is locked, or for another policy or
\* key, which first erases the records and outdates the jobs under way.
PrepareBegins ==
    /\ net.prep = None
    /\ LET locked == [ch EXCEPT !.can = FALSE]
           erased == Clear(locked)
       IN \/ ~ch.can /\ NoFault /\ UNCHANGED ch
          \/ ch.can /\ Fault /\ ch' = locked
          \/ Fault /\ ch' = DiscardCache([erased EXCEPT !.jobs = Mine(erased, "rev")])
    /\ net' = [net EXCEPT !.prep = "loading"]
    /\ UNCHANGED asks

\* prepare_storage() on its worker; a mirror of a feature that is off is erased.
PrepareLoads ==
    /\ net.prep = "loading"
    /\ net' = [net EXCEPT !.prep = IF ch.on = None THEN "none" ELSE ch.disk]
    /\ ch' = IF ch.on = None THEN ClearFile(ch) ELSE ch
    /\ NoFault /\ UNCHANGED asks

\* The wallet stays locked: the request ends, and is made again.
PrepareFails ==
    /\ net.prep # None /\ Fault
    /\ net' = [net EXCEPT !.prep = None]
    /\ ch' = StorageChanged(ch, FALSE)
    /\ UNCHANGED asks

\* finish(): the key is accepted, and outdates the jobs under way if it is another one than
\* before (_accept_key()); the records read are adopted, and the daemon is told.
PrepareFinishes ==
    /\ net.prep \notin {None, "loading"}
    /\ net' = [net EXCEPT !.prep = None]
    /\ \E same \in BOOLEAN :
           LET Step(s, refused) ==
                   LET keyed == [s EXCEPT !.can = TRUE, !.jobs = IF same THEN @ ELSE Mine(s, "rev")]
                   IN IF s.on = None THEN keyed
                      ELSE StorageChanged([keyed EXCEPT !.on.records = net.prep,
                                                        !.readopted = @ \/ net.prep = "old"],
                                          refused)
           IN Handler(Step)
    /\ UNCHANGED asks

-----------------------------------------------------------------------------
Next ==
    \/ Listing \/ Store \/ Callback
    \/ ClientSync \/ RequestSync \/ ClearHistory \/ SwitchOff \/ SwitchOn
    \/ SessionUp \/ SessionDown \/ Available
    \/ InitialTimer \/ MapWaitTimer \/ RequestTimer \/ PeriodicTimer
    \/ PrepareBegins \/ PrepareLoads \/ PrepareFails \/ PrepareFinishes

\* The worker, the main loop and the timers run; sessions and the wallet come back.
FairStep(k) ==
    CASE k = 1 -> Listing \/ Store
      [] k = 2 -> Callback
      [] k = 3 -> SessionUp
      [] k = 4 -> Available
      [] k = 5 -> InitialTimer
      [] k = 6 -> MapWaitTimer
      [] k = 7 -> RequestTimer
      [] k = 8 -> PeriodicTimer
      [] k = 9 -> PrepareBegins /\ NoFault
      [] k = 10 -> PrepareLoads
      [] k = 11 -> PrepareFinishes
      [] OTHER -> FALSE

Fairness == \A k \in 1 .. 11 : WF_historyVars(FairStep(k))

SafetySpec == Init /\ [][Next]_historyVars

Spec == SafetySpec /\ Fairness

-----------------------------------------------------------------------------
\* Clear history, another storage policy and switching the feature off erase the calls for
\* good (clear(), disable(), _stored()): once the pulls and writes of before are over,
\* neither the file nor the list shown has a record pulled earlier, and never does the file
\* of a feature that is off have one.
ForgottenStays ==
    ch.jobs = <<>> =>
        /\ ch.disk # "old"
        /\ ch.on = None => ch.disk = "none"
        /\ ch.on # None /\ ~ch.readopted => ch.on.records # "old"

\* "Clear history, changing the storage mode, and turning the option off erase it
\* immediately" (README.md): the list shown has no record pulled before the last erasure.
ErasedCallsGone == ch.on = None \/ ch.on.records # "old"

\* What a caller can wait for.
Waiting == ch.off > 0 \/ (ch.on # None /\ ch.on.waiters + ch.on.queued > 0)
\* The feature is on, the phone is there and storage can be written.
Able == ch.on # None /\ net.pbap /\ net.map /\ ch.can

\* Every SyncCallHistory is answered, whatever ends its pull (_finished()), and a request
\* made for a call is followed by a pull once sessions and storage last (refresh()).
SyncsAnswered ==
    /\ []<>~Waiting
    /\ <>[]Able => []<>~ch.owed
=============================================================================
