---------------------------- MODULE ContactStore ----------------------------
(***************************************************************************)
(* The contacts kept on disk: class ContactSync of                         *)
(* src/src/blueferry/contact_sync.py pulls them from the phone, class      *)
(* StorageSecurity of storage_security.py says under which policy and key  *)
(* they are kept, and the daemon erases their photos.                      *)
(*                                                                         *)
(* Three threads meet here.  The main loop changes policy, key and photo   *)
(* choice; the OBEX worker downloads, and commits under _STORE_LOCK; the   *)
(* wallet worker asks the desktop keyring and reads what is on disk before *)
(* storage is used (preparation).  Revisions and generations are compared  *)
(* for equality only, so what they guard says whether it is current.       *)
(* The settings file is readable, and the phone has contacts.              *)
(***************************************************************************)
EXTENDS Naturals, Sequences, Handlers

CONSTANTS
    Policies,       \* of "encrypted", "plaintext" and "none"
    MaxKeys,        \* bound of the keys the keyring ever makes
    MaxWishes,      \* bound of the user's requests
    MaxFaults,      \* bound of failures, losses, crashes and the keyring's changes
    None

VARIABLES
    ct,             \* the daemon, its workers, and what is on disk
    env,            \* the desktop keyring and the phone's sessions
    wishes, faults

contactVars == <<ct, env, wishes, faults>>

\* What seals a record under the unencrypted policy; keys are 1, 2, ...
Plain == 0

\* Of the state on disk: the policy, the key check, the seal of the rows, whether there are
\* photos, and the choice of photos.
Saved(s) == [policy |-> s.policy, check |-> s.check, rows |-> s.rows, pics |-> s.pics,
             photos |-> s.photos]

\* A request to the wallet worker; chosen: it is for a new policy; at: "wallet", "preparing"
\* or "done" with a result; live: it was not cancelled; failed: storage failed meanwhile.
Job(policy, chosen, reset, prompt) ==
    [policy |-> policy, chosen |-> chosen, reset |-> reset, prompt |-> prompt, live |-> TRUE,
     failed |-> FALSE, at |-> "wallet", key |-> None, result |-> None, any |-> FALSE,
     joined |-> FALSE]

\* A daemon that has just started: require_preparation(), the erasure of unwanted photos, and
\* the first, passive request.  main: a policy or a reset whose erasure is done; mem: the
\* cache in memory has contacts; obex: the worker's jobs in order; owed: photo_refresh_pending;
\* daily: the timer of the daily refresh runs; failed: the last pull did, and not for a change
\* of storage (history).
Started(disk, erased) ==
    [up |-> TRUE, main |-> None,
     policy |-> disk.policy, check |-> disk.check, rows |-> disk.rows,
     pics |-> disk.pics /\ ~(erased /\ ~disk.photos), photos |-> disk.photos,
     key |-> None, state |-> IF disk.policy = "none" THEN "disabled" ELSE "locked",
     jobs |-> <<Job(disk.policy, FALSE, FALSE, FALSE)>>,
     mem |-> FALSE, pull |-> None, obex |-> <<>>,
     initial |-> FALSE, deferred |-> FALSE, wait |-> FALSE, waited |-> FALSE, waiters |-> 0,
     owed |-> FALSE, daily |-> FALSE, failed |-> FALSE,
     erase |-> [pending |-> ~disk.photos /\ ~erased, running |-> FALSE, cur |-> FALSE]]

Init ==
    /\ \E policy \in Policies, photos \in BOOLEAN, key \in {None, 1}, locked \in BOOLEAN :
           /\ key # None => policy = "encrypted"
           /\ ct = Started([policy |-> policy, check |-> key, rows |-> key, pics |-> FALSE,
                            photos |-> photos], TRUE)
           /\ env = [key |-> key, locked |-> locked, keys |-> IF key = None THEN 0 ELSE 1,
                     pbap |-> FALSE, map |-> FALSE, news |-> FALSE]
    /\ wishes = 0 /\ faults = 0

-----------------------------------------------------------------------------
(* StorageSecurity. *)

\* can_read, can_write
CanUse(s) == s.policy # "none" /\ s.state = "ready"
Seal(s) == IF s.policy = "plaintext" THEN Plain ELSE s.key

\* The revision changes.
Bump(s) == IF s.pull = None THEN s ELSE [s EXCEPT !.pull.cur = FALSE]
ForgetKey(s) == IF s.key = None THEN s ELSE Bump([s EXCEPT !.key = None])

\* _fail(), by fail_closed()
FailClosed(s) ==
    [ForgetKey(s) EXCEPT !.state = "error",
                         !.jobs = [i \in DOMAIN @ |-> [@[i] EXCEPT !.failed = TRUE]]]

AcceptKey(s, key) ==
    [IF s.key = key THEN s ELSE Bump([ForgetKey(s) EXCEPT !.key = key]) EXCEPT !.state = "ready"]

\* _select_policy()
SelectPolicy(s, policy) ==
    LET saved == IF s.policy = policy THEN s
                 ELSE Bump([s EXCEPT !.policy = policy, !.check = None])
    IN CASE policy = "none" -> [ForgetKey(saved) EXCEPT !.state = "disabled"]
         [] policy = "plaintext" -> [ForgetKey(saved) EXCEPT !.state = "ready"]
         [] policy = "encrypted" /\ s.policy # policy -> [ForgetKey(saved) EXCEPT !.state = "locked"]
         [] OTHER -> saved

\* change_async(); the wallet worker takes two requests.
ChangeAsync(s, policy, reset, prompt) ==
    LET chosen == IF policy = None THEN s ELSE SelectPolicy(s, policy)
        anew == IF reset THEN [Bump(ForgetKey(chosen)) EXCEPT !.check = None] ELSE chosen
        barred == IF anew.policy = "none" THEN anew ELSE [anew EXCEPT !.state = "locked"]
    IN IF Len(s.jobs) = 2 THEN barred
       ELSE [barred EXCEPT !.jobs = Append(@, Job(anew.policy, policy # None, reset, prompt))]

\* cancel_passive_request()
Passive(job) == job.live /\ job.at = "wallet" /\ ~job.prompt /\ ~job.chosen
CancelPassive(s) ==
    [s EXCEPT !.jobs = [i \in DOMAIN @ |-> [@[i] EXCEPT !.live = @ /\ ~Passive(s.jobs[i])]]]

-----------------------------------------------------------------------------
(* ContactsResolver and ContactSync. *)

\* refresh() of the resolver: rows of another policy or key fail storage.
Load(s) ==
    CASE ~CanUse(s) \/ s.rows = None -> [s EXCEPT !.mem = FALSE]
      [] CanUse(s) /\ s.rows # None /\ s.rows = Seal(s) -> [s EXCEPT !.mem = TRUE]
      [] OTHER -> FailClosed([s EXCEPT !.mem = FALSE])

Needed(s) == s.deferred \/ s.owed \/ (~s.initial /\ ~s.mem)

FinishMapWait(s) == [s EXCEPT !.waited = TRUE, !.deferred = FALSE, !.wait = FALSE]

\* sync(): the snapshot follows the live policy and key.
Sync(s) ==
    IF s.pull # None THEN s
    ELSE [s EXCEPT !.obex = Append(@, [kind |-> "pull", done |-> FALSE]),
                   !.pull = [can |-> CanUse(s), seal |-> Seal(s), photos |-> s.photos, cur |-> TRUE,
                             gen |-> TRUE, fresh |-> TRUE, at |-> "queued"]]

Refresh(s) ==
    CASE s.pull # None \/ ~env.pbap \/ ~CanUse(s) -> s
      [] s.pull = None /\ env.pbap /\ CanUse(s) /\ ~env.map /\ ~s.waited ->
             [s EXCEPT !.deferred = TRUE, !.wait = TRUE]
      [] OTHER -> Sync(FinishMapWait(s))

PhotosChanged(s) ==
    Refresh([s EXCEPT !.owed = TRUE,
                      !.pull = IF @ = None THEN None ELSE [@ EXCEPT !.fresh = FALSE]])

\* _storage_changed() and the daemon's _on_storage_changed().
StorageChanged(s) ==
    Then(IF CanUse(s) THEN s ELSE Load(s),
         LAMBDA t : IF CanUse(t) /\ Needed(t) THEN Refresh(t) ELSE t)

\* _apply_storage_preparation()
Prepared(s, any) ==
    [s EXCEPT !.mem = any, !.initial = FALSE,
              !.pull = IF @ = None THEN None ELSE [@ EXCEPT !.gen = FALSE]]

\* Mutant: a pull that storage overtook is not followed by another one.
FinishedForGood(s, outcome) ==
    LET over == [s EXCEPT !.waiters = 0, !.pull = None,
                          !.failed = outcome = "failed" /\ s.pull.gen,
                          !.initial = @ \/ (outcome = "ok" /\ s.pull.gen)]
    IN IF outcome = "ok" /\ over.owed THEN Refresh(over) ELSE over

\* _finished(); outcome: "ok", "stale" or "failed".
Finished(s, outcome) ==
    LET p == s.pull
        over == [s EXCEPT !.waiters = 0, !.pull = None,
                          !.failed = outcome = "failed" /\ p.gen,
                          !.initial = @ \/ (outcome = "ok" /\ p.gen)]
    IN IF \/ outcome # "ok" /\ over.deferred /\ over.waited
          \/ (outcome = "stale" \/ ~p.gen) /\ Needed(over)
          \/ outcome = "ok" /\ over.owed
       THEN Refresh(over) ELSE over

\* Mutant: a commit that a change of policy or key overtook is believed.
PulledBlindly(s) ==
    Then(Load(FinishMapWait(s)),
         LAMBDA t : Finished([t EXCEPT !.owed = ~t.pull.fresh], "ok"))

\* succeeded() and _pulled(): what was committed under an earlier revision is erased.
Pulled(s) ==
    IF s.pull.cur
    THEN Then(Load(FinishMapWait(s)),
              LAMBDA t : Finished([t EXCEPT !.owed = ~t.pull.fresh], "ok"))
    ELSE Then(Load([s EXCEPT !.rows = None, !.pics = FALSE]),
              LAMBDA t : Finished([t EXCEPT !.initial = FALSE], "stale"))

-----------------------------------------------------------------------------
(* The photos, in the daemon. *)

QueueErase(s) ==
    IF ~s.erase.pending \/ s.erase.running THEN s
    ELSE [s EXCEPT !.erase.running = TRUE, !.erase.cur = TRUE,
                   !.obex = Append(@, [kind |-> "erase", done |-> FALSE])]

\* _set_contact_photos()
SetPhotos(s, on) ==
    LET set == [s EXCEPT !.photos = on]
    IN CASE on /\ ~s.photos -> IF s.erase.pending THEN set ELSE PhotosChanged(set)
         [] ~on -> QueueErase([set EXCEPT !.erase.pending = TRUE, !.erase.cur = FALSE])
         [] OTHER -> set

\* completed() of an erasure.
Erased(s) ==
    Then(Load([s EXCEPT !.erase.pending = @ /\ ~s.erase.cur]),
         LAMBDA t : CASE t.erase.pending -> QueueErase(t)
                      [] ~t.erase.pending /\ t.photos -> PhotosChanged(t)
                      [] OTHER -> t)

-----------------------------------------------------------------------------
Fault == faults < MaxFaults /\ faults' = faults + 1
NoFault == UNCHANGED faults
Wish == wishes < MaxWishes /\ wishes' = wishes + 1
NoWish == UNCHANGED wishes

\* The main loop is between two handlers; the store lock is not held by a commit.
Loop == ct.up /\ ct.main = None
Unlocked == ct.pull # None => ct.pull.at # "checked"

\* What change_storage_async() and reset_storage_async() begin with.
Accepted == \A i \in DOMAIN ct.jobs : ct.jobs[i].live => Passive(ct.jobs[i])

\* Of a policy change or a reset: _erase_retained_data(), before anything else is changed.
BeginChange ==
    /\ Loop /\ Accepted /\ Unlocked /\ Wish
    /\ \E main \in [policy : Policies \ {ct.policy}, reset : {FALSE}]
                   \cup [policy : {None}, reset : {TRUE}] :
           ct' = [CancelPassive(ct) EXCEPT !.main = main, !.rows = None, !.pics = FALSE]
    /\ NoFault /\ UNCHANGED env

\* ... and change_async(), whose changes are published at once.
EndChange ==
    /\ ct.up /\ ct.main # None
    /\ LET s == [ct EXCEPT !.main = None]
       IN ct' = StorageChanged(ChangeAsync(s, ct.main.policy, ct.main.reset, TRUE))
    /\ NoFault /\ NoWish /\ UNCHANGED env

\* UnlockStorage, or the present policy chosen again.  An unlock joins a preparation.
Unlock ==
    /\ Loop /\ Wish
    /\ \/ /\ Accepted
          /\ ct' = ChangeAsync(CancelPassive(ct), None, FALSE, TRUE)
       \/ /\ Accepted
          /\ ct' = StorageChanged(ChangeAsync(CancelPassive(ct), ct.policy, FALSE, TRUE))
       \/ \E i \in DOMAIN ct.jobs :
              /\ ct.jobs[i].live /\ ct.jobs[i].at # "wallet"
              /\ ct' = [ct EXCEPT !.jobs[i].joined = TRUE]
    /\ NoFault /\ UNCHANGED env

SetContactPhotos ==
    /\ Loop /\ Wish
    /\ \E on \in BOOLEAN : ct' = SetPhotos(ct, on)
    /\ NoFault /\ UNCHANGED env

\* A client's sync().
SyncContacts ==
    /\ Loop /\ Wish
    /\ ct' = Sync([ct EXCEPT !.waiters = @ + 1])
    /\ NoFault /\ UNCHANGED env

\* _retry_storage(), every five seconds; retry_storage_unlock() asks the wallet only when its
\* worker has no job, not even one that timed out.
RetryTick ==
    /\ Loop
    /\ LET asked == IF ct.jobs = <<>> /\ ct.state = "locked"
                    THEN ChangeAsync(ct, None, FALSE, FALSE) ELSE ct
           queued == QueueErase(asked)
       IN ct' = IF queued.photos /\ ~queued.erase.pending /\ queued.owed
                THEN Refresh(queued) ELSE queued
    /\ NoFault /\ NoWish /\ UNCHANGED env

\* _periodic(), once a day.
Periodic ==
    /\ Loop /\ ct.daily /\ ct' = Refresh(ct)
    /\ NoFault /\ NoWish /\ UNCHANGED env

MapWaitExpired ==
    /\ Loop /\ ct.wait
    /\ ct' = Refresh([ct EXCEPT !.wait = FALSE, !.waited = TRUE])
    /\ NoFault /\ NoWish /\ UNCHANGED env

\* Another reader of retained data fails to authenticate it.
OtherReaderFails ==
    /\ Loop /\ CanUse(ct) /\ Fault
    /\ ct' = FailClosed(ct)
    /\ NoWish /\ UNCHANGED env

-----------------------------------------------------------------------------
(* finish() of a request. *)

Settled(s, job) ==
    CASE job.failed -> s
      [] ~job.failed /\ job.result = "retry" -> [ForgetKey(s) EXCEPT !.state = "locked"]
      [] ~job.failed /\ job.result = "corrupt" -> FailClosed(s)
      [] ~job.failed /\ job.result \in {"ok", "unavailable"} /\ job.policy = "none" ->
             [s EXCEPT !.state = "disabled"]
      [] ~job.failed /\ job.result = "unavailable" /\ job.policy # "none" ->
             [ForgetKey(s) EXCEPT !.state = "locked"]
      [] OTHER -> IF job.policy = "plaintext" THEN [ForgetKey(s) EXCEPT !.state = "ready"]
                  ELSE AcceptKey(s, job.key)

\* The caller is told; a passive retry that leaves storage locked tells nobody, and a joined
\* unlock of what is still locked asks with a prompt.
Reported(s, job) ==
    Then(IF ~job.prompt /\ s.state = "locked" THEN s ELSE StorageChanged(s),
         LAMBDA t : CASE ~job.joined -> t
                      [] job.joined /\ t.state = "locked" -> ChangeAsync(t, None, FALSE, TRUE)
                      [] OTHER -> StorageChanged(t))

Finish(s, job) ==
    IF ~job.live THEN s
    ELSE Then(Settled(s, job), LAMBDA t :
              Reported(IF job.result = "ok" /\ ~job.failed THEN Prepared(t, job.any) ELSE t, job))

JobDelivered ==
    /\ Loop /\ ct.jobs # <<>> /\ Head(ct.jobs).at = "done"
    /\ ct' = Finish([ct EXCEPT !.jobs = Tail(@)], Head(ct.jobs))
    /\ NoFault /\ NoWish /\ UNCHANGED env

\* A request for which the keyring is asked; the others only prepare.
AsksKeyring(job) == job.policy = "encrypted" \/ (job.policy = "none" /\ job.chosen)

\* timed_out(): the call to the keyring is still under way.
WalletTimeout ==
    /\ Loop
    /\ \E i \in DOMAIN ct.jobs :
           /\ ct.jobs[i].live /\ ct.jobs[i].at = "wallet"
           /\ \E j \in 1 .. i : AsksKeyring(ct.jobs[j])
           /\ ct' = Finish([ct EXCEPT !.jobs[i].live = FALSE],
                           [ct.jobs[i] EXCEPT !.result = "unavailable"])
    /\ Fault /\ NoWish /\ UNCHANGED env

-----------------------------------------------------------------------------
(* The wallet worker. *)

\* The keyring has the key that sealed what is kept, as far as that is known.
Holds(key) == key # None /\ ct.check \in {None, key}

\* What get_or_create(), after the deletion of a reset, leaves in the keyring and returns.
Opened(job) ==
    LET key == IF job.reset THEN None ELSE env.key
    IN CASE key # None /\ (~env.locked \/ job.prompt) ->
                [env |-> [env EXCEPT !.locked = FALSE], key |-> IF Holds(key) THEN key ELSE None]
         [] key = None /\ job.prompt /\ ct.check = None /\ env.keys < MaxKeys ->
                [env |-> [env EXCEPT !.locked = FALSE, !.key = env.keys + 1, !.keys = @ + 1],
                 key |-> env.keys + 1]
         [] OTHER -> [env |-> [env EXCEPT !.key = key], key |-> None]

\* request(), up to the preparation; a refused prompt is a fault.
WalletAnswers ==
    /\ ct.up /\ ct.jobs # <<>> /\ Head(ct.jobs).at = "wallet"
    /\ LET job == Head(ct.jobs)
           To(key, result) ==
               ct' = [ct EXCEPT !.jobs[1] = [@ EXCEPT !.at = IF job.live THEN "preparing" ELSE "done",
                                                      !.key = key, !.result = result]]
       IN \/ /\ job.policy = "encrypted" /\ NoFault
             /\ LET opened == Opened(job)
                IN /\ env' = opened.env
                   /\ To(opened.key, IF opened.key = None THEN "unavailable" ELSE "ok")
          \/ /\ job.policy = "none" /\ job.chosen /\ NoFault
             /\ env' = [env EXCEPT !.key = None] /\ To(None, "ok")
          \/ ~AsksKeyring(job) /\ NoFault /\ UNCHANGED env /\ To(None, "ok")
          \/ /\ AsksKeyring(job) /\ Fault /\ UNCHANGED env /\ To(None, "unavailable")
    /\ NoWish

\* prepare_storage() with the candidate key, and _record_key_check().
Prepares ==
    /\ ct.up /\ ct.jobs # <<>> /\ Head(ct.jobs).at = "preparing"
    /\ LET job == Head(ct.jobs)
           seal == IF job.policy = "plaintext" THEN Plain ELSE job.key
           To(s, result) ==
               ct' = [s EXCEPT !.jobs[1] = [@ EXCEPT !.at = "done", !.result = result,
                                                     !.any = result = "ok" /\ s.rows # None]]
       IN \/ /\ job.policy = "none" /\ Unlocked /\ NoFault
             /\ To([ct EXCEPT !.rows = None, !.pics = FALSE], job.result)
          \/ /\ job.policy # "none" /\ NoFault
             /\ CASE job.result = "unavailable" -> To(ct, "unavailable")
                  [] job.result = "ok" /\ ct.rows \notin {None, seal} -> To(ct, "corrupt")
                  [] OTHER -> To(IF job.policy = "encrypted" /\ ct.check = None
                                 THEN [ct EXCEPT !.check = job.key] ELSE ct, "ok")
          \/ Fault /\ To(ct, "retry")
    /\ NoWish /\ UNCHANGED env

-----------------------------------------------------------------------------
(* The OBEX worker's thread, on its first job that is not done. *)

AtWork(kind) ==
    {i \in DOMAIN ct.obex : /\ ct.obex[i].kind = kind /\ ~ct.obex[i].done
                            /\ \A j \in 1 .. i - 1 : ct.obex[j].done}

\* pull_phonebook(): downloaded, or failed; then replace() up to ensure_current().
PullEnds(i, at) == [ct EXCEPT !.pull.at = at, !.obex[i].done = TRUE]
PullLooks ==
    /\ ct.up /\ ct.pull # None /\ ct.pull.at = "queued"
    /\ \E i \in AtWork("pull") :
           \/ /\ ct.pull.can /\ env.pbap /\ NoFault
              /\ ct' = IF ct.pull.cur THEN [ct EXCEPT !.pull.at = "checked"]
                       ELSE PullEnds(i, "stale")
           \/ ~(ct.pull.can /\ env.pbap) /\ ct' = PullEnds(i, "failed") /\ NoFault
           \/ ct' = PullEnds(i, "failed") /\ Fault
    /\ NoWish /\ UNCHANGED env

PullCommits ==
    /\ ct.up /\ ct.pull # None /\ ct.pull.at = "checked"
    /\ \E i \in AtWork("pull") :
           ct' = [PullEnds(i, "ok") EXCEPT !.rows = ct.pull.seal, !.pics = ct.pull.photos]
    /\ NoFault /\ NoWish /\ UNCHANGED env

\* clear_photos()
EraseRuns ==
    /\ ct.up
    /\ \E i \in AtWork("erase") :
           \/ ct' = [ct EXCEPT !.obex[i] = [@ EXCEPT !.done = TRUE, !.kind = "erased"],
                               !.pics = FALSE] /\ NoFault
           \/ ct' = [ct EXCEPT !.obex[i].done = TRUE] /\ Fault
    /\ NoWish /\ UNCHANGED env

\* A completed job's callback.
ObexDelivered ==
    /\ Loop /\ ct.obex # <<>> /\ Head(ct.obex).done
    /\ LET s == [ct EXCEPT !.obex = Tail(@)]
           kind == Head(ct.obex).kind
       IN ct' = CASE kind = "erase" -> [s EXCEPT !.erase.running = FALSE]
                  [] kind = "erased" -> Erased([s EXCEPT !.erase.running = FALSE])
                  [] kind = "pull" /\ s.pull.at = "ok" -> Pulled(s)
                  [] kind = "pull" /\ s.pull.at = "stale" ->
                         Finished([s EXCEPT !.deferred = TRUE], "stale")
                  [] OTHER -> Finished(s, "failed")
    /\ NoFault /\ NoWish /\ UNCHANGED env

-----------------------------------------------------------------------------
(* The process, the keyring and the phone. *)

Crash ==
    /\ ct.up /\ Fault
    /\ ct' = [Started(Saved(ct), FALSE) EXCEPT !.up = FALSE, !.jobs = <<>>]
    /\ env' = [env EXCEPT !.pbap = FALSE, !.map = FALSE, !.news = FALSE]
    /\ NoWish

Restart ==
    /\ ~ct.up
    /\ \/ ct' = Started(Saved(ct), TRUE) /\ NoFault
       \/ ~ct.photos /\ ct' = Started(Saved(ct), FALSE) /\ Fault
    /\ NoWish /\ UNCHANGED env

\* The keyring is locked or unlocked, or its key is lost or replaced.
KeyringChanges ==
    /\ \/ env.locked /\ env' = [env EXCEPT !.locked = FALSE] /\ NoFault
       \/ ~env.locked /\ env' = [env EXCEPT !.locked = TRUE] /\ Fault
       \/ env.key # None /\ env' = [env EXCEPT !.key = None] /\ Fault
       \/ env.keys < MaxKeys /\ env' = [env EXCEPT !.key = env.keys + 1, !.keys = @ + 1] /\ Fault
    /\ NoWish /\ UNCHANGED ct

\* Sessions are lost and come up, of which the daemon is told (news).
SessionsMove ==
    /\ \/ /\ ct.up /\ ~env.map /\ NoFault
          /\ env' = [env EXCEPT !.map = TRUE, !.pbap = TRUE, !.news = TRUE]
       \/ ct.up /\ ~env.pbap /\ env' = [env EXCEPT !.pbap = TRUE, !.news = TRUE] /\ NoFault
       \/ env.pbap /\ env' = [env EXCEPT !.map = FALSE, !.pbap = FALSE, !.news = FALSE] /\ Fault
    /\ NoWish /\ UNCHANGED ct

\* profiles_available()
ProfilesAvailable ==
    /\ Loop /\ env.news
    /\ ct' = [IF Needed(ct) THEN Refresh(ct) ELSE ct EXCEPT !.daily = TRUE]
    /\ env' = [env EXCEPT !.news = FALSE]
    /\ NoFault /\ NoWish

-----------------------------------------------------------------------------
Next ==
    \/ BeginChange \/ EndChange \/ Unlock \/ SetContactPhotos \/ SyncContacts \/ RetryTick
    \/ Periodic \/ MapWaitExpired \/ OtherReaderFails \/ JobDelivered \/ WalletTimeout
    \/ WalletAnswers \/ Prepares \/ PullLooks \/ PullCommits \/ EraseRuns \/ ObexDelivered
    \/ Crash \/ Restart \/ KeyringChanges \/ SessionsMove \/ ProfilesAvailable

\* The main loop and its timers run, the workers end what they do, and systemd restarts.  The
\* daily refresh is only relied on after a pull that failed.
FairStep(k) ==
    CASE k = 1 -> EndChange \/ MapWaitExpired \/ (NoFault /\ Restart)
      [] k = 2 -> RetryTick
      [] k = 3 -> ProfilesAvailable \/ (ct.failed /\ Periodic)
      [] k = 4 -> ObexDelivered
      [] k = 5 -> NoFault /\ (WalletAnswers \/ Prepares)
      [] k = 7 -> JobDelivered
      [] k = 6 -> NoFault /\ (PullLooks \/ PullCommits \/ EraseRuns)
      [] OTHER -> FALSE

Spec == Init /\ [][Next]_contactVars /\ \A k \in 1 .. 7 : WF_contactVars(FairStep(k))

-----------------------------------------------------------------------------
\* A commit of an earlier policy or key, whose callback erases it.
Overtaken == ct.pull # None /\ ct.pull.at = "ok" /\ ~ct.pull.cur

\* Storage that is in use can read what it keeps: no pull, crash, reset, change of policy or
\* key, lost or replaced key leaves rows of another policy or key under it, but for a commit
\* that was overtaken, until its callback erases it (_pulled(), ensure_current()).  Under the
\* policy that retains nothing there is nothing, and once the photos are off and their
\* erasure is no longer owed there is none, whatever pull was under way (_queue_photo_erase()).
ContactsKept ==
    /\ CanUse(ct) /\ ct.rows # None => ct.rows = Seal(ct) \/ Overtaken
    /\ ct.up /\ ct.policy = "none" /\ ct.jobs = <<>> /\ ct.rows # None => Overtaken \/ ct.state = "locked"
    /\ ct.up /\ ~ct.photos /\ ~ct.erase.pending => ~ct.pics

\* Storage can be used: it has failed for no reader, and the keyring gives the key.
Usable ==
    /\ ct.up /\ ct.policy # "none" /\ ct.state # "error" /\ env.pbap
    /\ ct.policy = "encrypted" => Holds(env.key) /\ ~env.locked

\* Contacts arrive: while storage can be used and PBAP is up, no automatic pull stays owed,
\* whatever pull was overtaken, failed or discarded (_finished()); a client's sync is
\* answered; and once the photos are off they go.
ContactsArrive ==
    /\ <>[]Usable => <>[](~Needed(ct) /\ ct.mem)
    /\ []<>(ct.waiters = 0)
    /\ <>[](~ct.photos) => <>[](~ct.pics)

\* What a comment of the code says (_prepare_storage_policy()): a crash never leaves private
\* data under the wrong policy.
NoWrongPolicyAfterCrash ==
    ~ct.up /\ ct.rows # None =>
        CASE ct.policy = "none" -> FALSE
          [] ct.policy = "plaintext" -> ct.rows = Plain
          [] OTHER -> ct.rows # Plain /\ ct.check \in {None, ct.rows}
=============================================================================
