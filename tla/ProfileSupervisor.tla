------------------------- MODULE ProfileSupervisor -------------------------
(***************************************************************************)
(* Supervision of the MAP/PBAP session pair                                *)
(* (src/src/blueferry/profile_supervisor.py), composed with the OBEX       *)
(* worker (ObexWorker) and the session manager (SessionManager), with the  *)
(* connectivity status (connectivity.py) and with the callers and          *)
(* callbacks the daemon (daemon.py) wires to it: bluetoothd restarts,      *)
(* system resume, the missing-MNS reconnect, Bluetooth recovery's pause    *)
(* and resume, other consumers of the worker, the MAP listener, the        *)
(* outbound-LE hold, and the daemon's shutdown.                            *)
(*                                                                         *)
(* Every action is one main-loop handler or one step of the worker thread. *)
(* Retry delays are abstracted to "the timer is armed"; the failure        *)
(* counter to whether it is positive.                                      *)
(***************************************************************************)
EXTENDS Naturals, Sequences, FiniteSets

CONSTANTS
    MaxPending,     \* bound of the worker's pending operations
    MaxTrouble,     \* bound of the environment's disturbances
    Cleanup, None

Kinds == {"open", "close", "other", "recover"}

\* An operation and the generation its callbacks carry; remote is close_all's
\* remove_remote.
Job == [kind : Kinds, gen : Nat, remote : BOOLEAN]

\* ConnectivityState; DEGRADED stands for AUTHORIZATION_REQUIRED too, which
\* differs from it in what the user reads.
Statuses == {"INITIALIZING", "CONNECTING", "READY", "DEGRADED", "RECONNECTING",
             "MAP_CONNECTION_REFUSED", "STOPPING"}

\* Model values are no operations, sessions or profiles.
ASSUME SupervisorAssumption ==
    /\ MaxPending \in Nat
    /\ Cleanup \notin Job /\ None \notin Job /\ Cleanup # None
    /\ None \notin [path : Nat, inc : Nat] /\ None \notin {"MAP", "PBAP"}

VARIABLES
    queue, running, done, futures, reserved, phase, toCancel,   \* ObexWorker
    session, smClosing, removed, exited, owner, op,             \* SessionManager
    live, nextPath, incarnation, signals,                       \* obexd
    retry,          \* _retry_id: None, TryOpen, or the close job it submits again
    opening, closing, ready, stopping, paused, generation,
    consumers,      \* _consumers_active
    attempted,      \* _first_attempt_completed
    status,         \* Connectivity.state
    failing,        \* Connectivity.failure_count > 0
    leHeld,         \* BearerSupervisor: outbound LE is held back
    listener,       \* the MAP session the daemon's MapEventListener serves
    recovery,       \* Bluetooth recovery: "idle", "active", or "resumable" after
                    \* an operation that ended while the system was suspended
    openFailed,     \* the failure open_all() raised: its target, or None
    trouble         \* disturbances so far

W == INSTANCE ObexWorker WITH
        Jobs <- Job, ReservedJobs <- [kind : {"recover"}, gen : Nat, remote : BOOLEAN]
S == INSTANCE SessionManager

workerVars == <<queue, running, done, futures, reserved, phase, toCancel>>
sessionVars == <<session, smClosing, removed, exited, owner, op,
                 live, nextPath, incarnation, signals>>
supervisorVars == <<retry, opening, closing, ready, stopping, paused, generation,
                    consumers, attempted, status, failing, leHeld, listener>>
vars == <<workerVars, sessionVars, supervisorVars, recovery, openFailed, trouble>>

OpenJob == [kind |-> "open", gen |-> generation, remote |-> FALSE]
CloseJob(remote) == [kind |-> "close", gen |-> generation + 1, remote |-> remote]
TryOpen == [kind |-> "open", gen |-> 0, remote |-> FALSE]
OtherJob == [kind |-> "other", gen |-> 0, remote |-> FALSE]
RecoverJob == [kind |-> "recover", gen |-> 0, remote |-> FALSE]

Init ==
    /\ W!WorkerInit /\ S!SessionInit
    /\ retry = None
    /\ opening = FALSE /\ closing = FALSE /\ ready = FALSE
    /\ stopping = FALSE /\ paused = FALSE /\ generation = 0
    /\ consumers = FALSE /\ attempted = FALSE
    /\ status = "INITIALIZING" /\ failing = FALSE
    /\ leHeld = TRUE
    /\ listener = None
    /\ recovery = "idle" /\ openFailed = None /\ trouble = 0

Started == status # "INITIALIZING" /\ ~stopping

\* The environment disturbs the daemon a bounded number of times.
Disturb == trouble < MaxTrouble /\ trouble' = trouble + 1

-----------------------------------------------------------------------------
(***************************************************************************)
(* The supervisor's methods, as their effect on its own state.             *)
(***************************************************************************)

\* Connectivity.connecting(): a refusal stays visible during the next attempt.
Connecting ==
    IF failing THEN IF status = "MAP_CONNECTION_REFUSED" THEN status ELSE "RECONNECTING"
    ELSE "CONNECTING"

\* Submit at most one operation outside a completion callback.
SubmitAll(jobs) ==
    IF jobs = {} THEN UNCHANGED workerVars ELSE \E j \in jobs : W!Submit(j)

\* _post_available_sessions_setup(): a listener is made only when there is none.
Listening == IF listener = None THEN session["MAP"] ELSE listener

\* _mark_ready()
MarkReady ==
    /\ retry' = None
    /\ status' = "READY" /\ failing' = FALSE
    /\ ready' = TRUE
    /\ consumers' = (consumers \/ ~ready)
    /\ listener' = IF ready THEN listener ELSE Listening

\* What open() submits.
BothOpen == \A t \in S!Target : session[t] # None
OpenIgnored == stopping \/ paused \/ opening \/ closing
OpenSubmits ==
    IF OpenIgnored \/ BothOpen \/ ~W!Accepts(OpenJob, reserved) THEN {} ELSE {OpenJob}

\* open(), called with the retry timer gone or never armed.
Open ==
    /\ SubmitAll(OpenSubmits)
    /\ IF OpenIgnored
         THEN retry' = None /\ UNCHANGED <<opening, ready, consumers, status, failing, listener>>
       ELSE IF BothOpen THEN MarkReady /\ UNCHANGED opening
       ELSE IF OpenSubmits = {}
         THEN /\ retry' = TryOpen
              /\ status' = "DEGRADED" /\ failing' = TRUE
              /\ UNCHANGED <<opening, ready, consumers, listener>>
       ELSE /\ retry' = None
            /\ opening' = TRUE
            /\ status' = Connecting
            /\ UNCHANGED <<ready, consumers, failing, listener>>

\* _begin_attempt_cycle(): hold outbound LE until MAP/PBAP had its attempt.
\* held says whether it is held already.
BeginAttemptCycle(held) ==
    /\ attempted' = FALSE
    /\ leHeld' = (held \/ attempted \/ ~opening)

\* _complete_first_attempt(force): counts when BR/EDR was reachable.
CompleteFirstAttempt(counts) ==
    IF attempted \/ ~counts THEN UNCHANGED <<attempted, leHeld>>
    ELSE attempted' = TRUE /\ leHeld' = FALSE

ReconnectIgnored == stopping \/ paused \/ closing

\* What reconnect() submits while the worker's reservation is res.
ReconnectSubmits(remote, res) ==
    IF ReconnectIgnored \/ ~W!Accepts(CloseJob(remote), res) THEN {} ELSE {CloseJob(remote)}

\* The body of reconnect() after its early returns.  A worker that refuses the
\* close leaves a timer that submits it again.
DiscardState(remote, res) ==
    /\ generation' = generation + 1
    /\ status' = "RECONNECTING"
    /\ ready' = FALSE /\ opening' = FALSE /\ closing' = TRUE
    /\ consumers' = FALSE
    /\ retry' = IF W!Accepts(CloseJob(remote), res) THEN None ELSE CloseJob(remote)
    /\ UNCHANGED <<stopping, failing>>

\* reconnect() proper: consumers first, then the sessions.
Discard(remote, res, held) ==
    /\ BeginAttemptCycle(held)
    /\ listener' = IF consumers THEN None ELSE listener
    /\ DiscardState(remote, res)

\* reconnect() with LE held or not before the call.
Reconnect(remote, res, held) ==
    IF ReconnectIgnored
      THEN /\ leHeld' = held
           /\ UNCHANGED <<retry, opening, closing, ready, stopping, paused, generation,
                          consumers, attempted, status, failing, listener>>
      ELSE Discard(remote, res, held) /\ UNCHANGED paused

\* reconnect() outside a completion callback.
ReconnectNow(remote, held) ==
    Reconnect(remote, reserved, held) /\ SubmitAll(ReconnectSubmits(remote, reserved))

-----------------------------------------------------------------------------
(***************************************************************************)
(* Main-loop handlers.                                                     *)
(***************************************************************************)

Start ==
    /\ status = "INITIALIZING"
    /\ BeginAttemptCycle(leHeld)
    /\ Open
    /\ UNCHANGED <<closing, stopping, paused, generation>>
    /\ UNCHANGED <<sessionVars, recovery, openFailed, trouble>>

\* The retry timer fires: another open().  Signals that wait are dispatched
\* before it (the delay is 5 s at least); as the timer does not look at obexd,
\* a signal dispatched after it is one of a later loss.
Retry ==
    /\ Started /\ retry = TryOpen /\ signals = <<>>
    /\ Open
    /\ UNCHANGED <<closing, stopping, paused, generation, attempted, leHeld>>
    /\ UNCHANGED <<sessionVars, recovery, openFailed, trouble>>

\* retry_close(): submit the cleanup the worker refused before.
RetryClose ==
    /\ Started /\ retry # None /\ retry # TryOpen
    /\ IF retry.gen = generation /\ W!Accepts(retry, reserved)
         THEN W!Submit(retry) /\ retry' = None
         ELSE /\ UNCHANGED workerVars
              /\ retry' = IF retry.gen = generation THEN retry ELSE None
    /\ UNCHANGED <<opening, closing, ready, stopping, paused, generation, consumers,
                   attempted, status, failing, leHeld, listener>>
    /\ UNCHANGED <<sessionVars, recovery, openFailed, trouble>>

\* GLib dispatches a signal of obexd; a loss goes to session_lost().
Signal ==
    /\ Started
    /\ S!OnSignal
    /\ IF S!Notifies THEN ReconnectNow(FALSE, leHeld)
       ELSE UNCHANGED <<supervisorVars, workerVars>>
    /\ UNCHANGED <<recovery, openFailed, trouble>>

\* Another consumer submits an operation of its own.
OtherSubmit ==
    /\ Started /\ W!Submit(OtherJob)
    /\ UNCHANGED <<supervisorVars, sessionVars, recovery, openFailed, trouble>>

\* _on_prepare_for_sleep(False), and _mns_missing()
Refresh ==
    /\ Started /\ recovery = "idle"
    /\ Disturb
    /\ ReconnectNow(TRUE, leHeld)
    /\ UNCHANGED <<sessionVars, recovery, openFailed>>

\* _on_bluez_restart(): hold LE, then discard sessions without touching obexd.
BluezRestart ==
    /\ Started /\ recovery # "active"
    /\ Disturb
    /\ ReconnectNow(FALSE, TRUE)
    /\ UNCHANGED <<sessionVars, recovery, openFailed>>

\* Recovery's _after_probe(): reserve the worker, pause the supervisor, forget
\* the sessions and start the power cycle.
RecoveryPause ==
    /\ Started /\ recovery = "idle" /\ ready
    /\ Disturb
    /\ W!ReserveAndSubmit(RecoverJob)
    /\ S!CloseLocally
    /\ recovery' = "active"
    /\ paused' = TRUE
    /\ generation' = generation + 1
    /\ opening' = FALSE /\ closing' = FALSE /\ ready' = FALSE
    /\ retry' = None
    /\ consumers' = FALSE
    /\ listener' = IF consumers THEN None ELSE listener
    /\ status' = "RECONNECTING"
    /\ UNCHANGED <<stopping, attempted, failing, leHeld, openFailed>>

\* Recovery's _tick(): the radio is not back yet, try the power-on again.
RecoveryRetry ==
    /\ Started /\ recovery = "active"
    /\ W!Submit(RecoverJob)
    /\ UNCHANGED <<supervisorVars, sessionVars, recovery, openFailed, trouble>>

\* _resume_after_recovery(): hold LE and resume(), which reconnects.
Resume(res) ==
    /\ recovery' = "idle"
    /\ paused' = FALSE
    /\ IF closing
         THEN /\ leHeld' = TRUE
              /\ UNCHANGED <<retry, opening, closing, ready, stopping, generation,
                             consumers, attempted, status, failing, listener>>
         ELSE Discard(FALSE, res, TRUE)

ResumeSubmits(res) ==
    IF closing \/ ~W!Accepts(CloseJob(FALSE), res) THEN {} ELSE {CloseJob(FALSE)}

\* The system wakes up after recovery ended in its sleep.
ResumeLate ==
    /\ Started /\ recovery = "resumable"
    /\ Resume(reserved)
    /\ SubmitAll(ResumeSubmits(reserved))
    /\ UNCHANGED <<sessionVars, openFailed, trouble>>

-----------------------------------------------------------------------------
(***************************************************************************)
(* Completion callbacks, dispatched by the main loop.                      *)
(***************************************************************************)

Delivers(kind) == Started /\ done # <<>> /\ Head(done).kind = kind
Current == Head(done).gen = generation

\* _opened()
Opened ==
    /\ Delivers("open") /\ openFailed = None
    /\ W!Deliver(FALSE, {})
    /\ IF Current /\ ~closing
         THEN /\ opening' = FALSE
              /\ CompleteFirstAttempt(TRUE)
              /\ MarkReady
              /\ UNCHANGED <<closing, stopping, paused, generation>>
         ELSE UNCHANGED supervisorVars
    /\ UNCHANGED <<sessionVars, recovery, openFailed, trouble>>

\* Connectivity.failed(): a refusal is one of MAP.
Failures ==
    IF openFailed = "MAP" THEN {"DEGRADED", "MAP_CONNECTION_REFUSED"} ELSE {"DEGRADED"}

\* _open_failed(): partial availability starts consumers; retry later.
OpenFailed(reachable, failure) ==
    LET partial == \E t \in S!Target : session[t] # None IN
    /\ Delivers("open") /\ openFailed # None
    /\ failure \in Failures
    /\ W!Deliver(FALSE, {})
    /\ IF Current
         THEN /\ opening' = FALSE
              /\ CompleteFirstAttempt(reachable \/ partial)
              /\ consumers' = (consumers \/ partial)
              /\ listener' = IF partial THEN Listening ELSE listener
              /\ status' = failure /\ failing' = TRUE
              /\ retry' = IF retry = None THEN TryOpen ELSE retry
              /\ UNCHANGED <<closing, ready, stopping, paused, generation>>
         ELSE UNCHANGED supervisorVars
    /\ UNCHANGED <<sessionVars, recovery, openFailed, trouble>>

\* Mutant: the retry after a cleanup is forgotten.
ClosedNoRetry ==
    /\ Delivers("close")
    /\ W!Deliver(FALSE, {})
    /\ closing' = IF Current THEN FALSE ELSE closing
    /\ UNCHANGED <<opening, ready, stopping, paused, generation, consumers,
                   attempted, status, failing, leHeld, listener, retry>>
    /\ UNCHANGED <<sessionVars, recovery, openFailed, trouble>>

\* _closed() and _close_failed()
Closed ==
    /\ Delivers("close")
    /\ W!Deliver(FALSE, {})
    /\ closing' = IF Current THEN FALSE ELSE closing
    /\ retry' = IF Current /\ retry = None THEN TryOpen ELSE retry
    /\ UNCHANGED <<opening, ready, stopping, paused, generation, consumers,
                   attempted, status, failing, leHeld, listener>>
    /\ UNCHANGED <<sessionVars, recovery, openFailed, trouble>>

OtherDone ==
    /\ Delivers("other")
    /\ W!Deliver(FALSE, {})
    /\ UNCHANGED <<supervisorVars, sessionVars, recovery, openFailed, trouble>>

\* report_error() from the failure callback of another consumer's operation.
OtherFailed ==
    /\ Delivers("other")
    /\ Disturb
    /\ S!Forget
    /\ Reconnect(FALSE, reserved, leHeld)
    /\ W!Deliver(FALSE, ReconnectSubmits(FALSE, reserved))
    /\ UNCHANGED <<recovery, openFailed>>

\* Recovery's _finished() while the radio's restoration is still pending.
RecoveryPending ==
    /\ Delivers("recover")
    /\ W!Deliver(FALSE, {})
    /\ UNCHANGED <<supervisorVars, sessionVars, recovery, openFailed, trouble>>

\* _finished() during suspend: release the worker, resume after the sleep.
RecoverySuspended ==
    /\ Delivers("recover")
    /\ W!Deliver(TRUE, {})
    /\ recovery' = "resumable"
    /\ UNCHANGED <<supervisorVars, sessionVars, openFailed, trouble>>

\* _finished(): release the worker and resume at once.
RecoveryFinished ==
    /\ Delivers("recover")
    /\ Resume(FALSE)
    /\ W!Deliver(TRUE, ResumeSubmits(FALSE))
    /\ UNCHANGED <<sessionVars, openFailed, trouble>>

-----------------------------------------------------------------------------
(***************************************************************************)
(* The worker thread.                                                      *)
(***************************************************************************)

Takes(kind) == queue # <<>> /\ Head(queue) \in futures /\ Head(queue).kind = kind
Runs(kind) == running \notin {None, Cleanup} /\ running.kind = kind

StartOpen ==
    /\ Takes("open") /\ W!Start /\ S!OpenBegin
    /\ UNCHANGED <<supervisorVars, recovery, openFailed, trouble>>

StepOpen ==
    /\ Runs("open")
    /\ S!KeepSession \/ (\E ok \in BOOLEAN : S!CreateSession(ok)) \/ S!Publish
    /\ UNCHANGED <<supervisorVars, workerVars, recovery, openFailed, trouble>>

FinishOpen ==
    /\ Runs("open")
    /\ S!OpenEnd /\ W!Finish
    /\ openFailed' = op.failed
    /\ UNCHANGED <<supervisorVars, recovery, trouble>>

StartClose ==
    /\ Takes("close") /\ W!Start /\ S!CloseBegin(Head(queue).remote)
    /\ UNCHANGED <<supervisorVars, recovery, openFailed, trouble>>

FinishClose ==
    /\ Runs("close")
    /\ S!CloseEnd /\ W!Finish
    /\ UNCHANGED <<supervisorVars, recovery, openFailed, trouble>>

StartOther ==
    /\ Takes("other") \/ Takes("recover")
    /\ W!Start
    /\ UNCHANGED <<supervisorVars, sessionVars, recovery, openFailed, trouble>>

DropCancelled ==
    /\ W!Skip
    /\ UNCHANGED <<supervisorVars, sessionVars, recovery, openFailed, trouble>>

FinishOther ==
    /\ Runs("other") \/ Runs("recover")
    /\ W!Finish
    /\ UNCHANGED <<supervisorVars, sessionVars, recovery, openFailed, trouble>>

-----------------------------------------------------------------------------
(***************************************************************************)
(* Shutdown: stop() of the supervisor and shutdown() of the worker.        *)
(***************************************************************************)

Stop ==
    /\ ~stopping
    /\ W!Shutdown
    /\ stopping' = TRUE
    /\ generation' = generation + 1
    /\ ready' = FALSE /\ consumers' = FALSE /\ opening' = FALSE /\ closing' = FALSE
    /\ status' = "STOPPING"
    /\ retry' = None
    /\ listener' = None
    /\ UNCHANGED <<paused, attempted, failing, leHeld>>
    /\ UNCHANGED <<sessionVars, recovery, openFailed, trouble>>

CancelPending ==
    /\ (\E j \in toCancel : W!Cancel(j)) \/ W!SubmitCleanup
    /\ UNCHANGED <<supervisorVars, sessionVars, recovery, openFailed, trouble>>

\* _cleanup_bluetooth_worker()
StartCleanup ==
    /\ queue # <<>> /\ Head(queue) = Cleanup
    /\ W!Start /\ S!CloseBegin(FALSE)
    /\ UNCHANGED <<supervisorVars, recovery, openFailed, trouble>>

FinishCleanup ==
    /\ running = Cleanup
    /\ S!CloseEnd
    /\ UNCHANGED <<workerVars, supervisorVars, recovery, openFailed, trouble>>

\* close_obex_worker_bus(), the thread's last operation.
CloseBus ==
    /\ running = Cleanup /\ op.at = "idle"
    /\ S!CloseWorkerBus /\ W!Stopped
    /\ UNCHANGED <<supervisorVars, recovery, openFailed, trouble>>

Exited == phase = "stopped" /\ UNCHANGED vars

-----------------------------------------------------------------------------
\* The phone drops a session, or obexd exits.
Outage ==
    /\ Started
    /\ Disturb
    /\ (\E s \in live : S!LoseSession(s)) \/ S!ObexdExit
    /\ UNCHANGED <<supervisorVars, workerVars, recovery, openFailed>>

Callback ==
    \/ Opened
    \/ \E reachable \in BOOLEAN, failure \in Statuses : OpenFailed(reachable, failure)
    \/ Closed \/ OtherDone \/ OtherFailed
    \/ RecoveryPending \/ RecoverySuspended \/ RecoveryFinished

MainLoop ==
    \/ Start \/ Retry \/ RetryClose \/ Signal
    \/ OtherSubmit \/ Refresh \/ BluezRestart
    \/ RecoveryPause \/ RecoveryRetry \/ ResumeLate
    \/ Callback
    \/ Stop \/ CancelPending

Thread ==
    \/ StartOpen \/ StepOpen \/ FinishOpen
    \/ StartClose \/ FinishClose
    \/ StartOther \/ FinishOther \/ DropCancelled
    \/ StartCleanup \/ FinishCleanup \/ CloseBus

Next == MainLoop \/ Thread \/ Outage \/ Exited

SafetySpec == Init /\ [][Next]_vars

\* GLib dispatches timers, signals and callbacks; the thread keeps running and
\* D-Bus calls time out; the radio comes back in the end; and a phone that is
\* asked again and again accepts a session again and again.
FairStep(n) ==
    CASE n = 1 -> Start
      [] n = 2 -> Retry
      [] n = 3 -> RetryClose
      [] n = 4 -> Signal
      [] n = 5 -> Callback
      [] n = 6 -> RecoveryRetry
      [] n = 7 -> ResumeLate
      [] n = 8 -> CancelPending
      [] n = 9 -> Thread
      [] OTHER -> FALSE

RadioReturns == RecoveryFinished \/ RecoverySuspended
PhoneAccepts == StepOpen /\ S!CreateSession(TRUE)

Fairness ==
    /\ \A n \in 1 .. 9 : WF_vars(FairStep(n))
    /\ SF_vars(RadioReturns) /\ SF_vars(PhoneAccepts)

Spec == SafetySpec /\ Fairness

-----------------------------------------------------------------------------
(***************************************************************************)
(* Properties.                                                             *)
(***************************************************************************)

\* The composed state is well formed.
TypeOK ==
    /\ W!WorkerTypeOK /\ S!SessionTypeOK
    /\ retry \in Job \cup {None}
    /\ opening \in BOOLEAN /\ closing \in BOOLEAN /\ ready \in BOOLEAN
    /\ stopping \in BOOLEAN /\ paused \in BOOLEAN /\ consumers \in BOOLEAN
    /\ attempted \in BOOLEAN /\ failing \in BOOLEAN /\ leHeld \in BOOLEAN
    /\ generation \in Nat /\ trouble \in Nat
    /\ status \in Statuses
    /\ listener \in S!Session \cup {None}
    /\ recovery \in {"idle", "active", "resumable"}
    /\ openFailed \in S!Target \cup {None}

InFlight(kind) == \E j \in futures : j.kind = kind /\ j.gen = generation

\* Unless paused or stopping, the supervisor is ready, has a timer, or waits for
\* a callback of its current generation: no order of losses, refused
\* submissions, stale callbacks and recoveries leaves it with nothing to do, and
\* none puts two opens or two closes in flight, which the phone would refuse.
NeverStuck ==
    /\ Started /\ ~paused => ready \/ retry # None \/ InFlight("open") \/ InFlight("close")
    /\ opening => InFlight("open")
    /\ closing => InFlight("close") \/ retry \notin {None, TryOpen}
    /\ \A j, k \in futures : j.kind = k.kind => j = k

\* A session obexd no longer has is forgotten, or the signal that will make the
\* daemon forget it is still to be dispatched: a removal that overtakes the
\* publication of its path is not missed (_publish, _removed_while_opening).
NoMissedLoss ==
    \A t \in S!Target :
        session[t] # None /\ session[t] \notin live /\ ~stopping =>
            \E i \in DOMAIN signals : signals[i] \in {S!Exit, session[t].path}

\* What the supervisor shows and has told others is true: READY and STOPPING are
\* shown exactly when it is ready or stopping, ready only with both sessions in
\* hand; the MAP listener serves the current MAP session, whichever path forgot
\* the last one; outbound LE is held exactly while the current cycle's first
\* attempt is owed, so that the attempt that completes releases it; and during recovery's
\* power cycle no session is believed open and no other operation is in flight.
StatusHonest ==
    /\ ready => BothOpen
    /\ (status = "READY") = ready
    /\ (status = "STOPPING") = stopping
    /\ listener # None => consumers /\ session["MAP"] = listener
    /\ Started /\ ~paused => leHeld = ~attempted
    /\ recovery = "active" /\ ~stopping =>
           /\ paused /\ reserved /\ session = S!Nothing
           /\ \A j \in futures : j.kind = "recover"

\* Once the disturbances end, the pair comes up and outbound LE is released (or
\* the daemon is stopped): neither is lost in a race of reconnect() with
\* recovery, a bluetoothd restart or a refused submission.
Recovers == []<>((ready /\ ~leHeld) \/ stopping)
=============================================================================
