----------------------------- MODULE ObexWorker -----------------------------
(***************************************************************************)
(* The serialized executor of blocking OBEX operations                     *)
(* (src/src/blueferry/obex/worker.py).                                     *)
(*                                                                         *)
(* One worker thread takes operations from a FIFO queue.  A finished       *)
(* operation posts its future to the GLib main loop, which later runs the  *)
(* completion callback.  Bluetooth recovery may reserve the worker, and    *)
(* the daemon's shutdown cancels what is queued, runs a cleanup operation  *)
(* and joins the thread.                                                   *)
(*                                                                         *)
(* A job stands for one submitted operation together with its future and   *)
(* its callbacks.  ReservedJobs are the ones submitted with reserved=True. *)
(***************************************************************************)
EXTENDS Naturals, Sequences, FiniteSets

CONSTANTS
    Jobs,           \* operations that may be submitted
    ReservedJobs,   \* the ones recovery submits with reserved=True
    MaxPending,     \* MAX_OBEX_PENDING_OPERATIONS (256 in limits.py)
    Cleanup,        \* the operation shutdown runs last
    None

ASSUME WorkerAssumption ==
    /\ ReservedJobs \subseteq Jobs
    /\ MaxPending \in Nat
    /\ Cleanup \notin Jobs /\ None \notin Jobs /\ Cleanup # None

VARIABLES
    queue,      \* operations waiting for the thread, oldest first
    running,    \* the operation the thread executes, or None
    done,       \* finished operations whose callback GLib has not run yet
    futures,    \* _futures: accepted and not yet delivered or cancelled
    reserved,   \* _reserved
    phase,      \* "open", then through shutdown() to "stopped"
    toCancel    \* the futures shutdown() has still to cancel

workerVars == <<queue, running, done, futures, reserved, phase, toCancel>>

WorkerInit ==
    /\ queue = <<>> /\ running = None /\ done = <<>>
    /\ futures = {} /\ toCancel = {}
    /\ reserved = FALSE
    /\ phase = "open"

-----------------------------------------------------------------------------
(***************************************************************************)
(* The main loop's side.                                                   *)
(***************************************************************************)

\* Mutant: the closed flag is not tested.
AcceptsClosed(j, res) ==
    (j \in ReservedJobs) = res /\ Cardinality(futures) < MaxPending

\* submit() accepts j while the reservation flag is res; otherwise it raises.
Accepts(j, res) ==
    /\ phase = "open"
    /\ (j \in ReservedJobs) = res
    /\ Cardinality(futures) < MaxPending

\* submit() outside a completion callback.
Submit(j) ==
    /\ j \notin futures
    /\ Accepts(j, reserved)
    /\ queue' = Append(queue, j)
    /\ futures' = futures \cup {j}
    /\ UNCHANGED <<running, done, reserved, phase, toCancel>>

\* Mutant: a finished operation whose callback is pending does not count.
ReserveIgnoringCallbacks ==
    /\ phase = "open" /\ ~reserved /\ queue = <<>> /\ running = None
    /\ reserved' = TRUE
    /\ UNCHANGED <<queue, running, done, futures, phase, toCancel>>

\* Exclude new transfers; refused while any future, delivered or not, is left.
ReserveIfIdle ==
    /\ phase = "open" /\ ~reserved /\ futures = {}
    /\ reserved' = TRUE
    /\ UNCHANGED <<queue, running, done, futures, phase, toCancel>>

\* Recovery's handler reserves the worker and hands it its operation at once.
ReserveAndSubmit(j) ==
    /\ phase = "open" /\ ~reserved /\ futures = {}
    /\ j \in ReservedJobs /\ MaxPending > 0
    /\ reserved' = TRUE
    /\ queue' = Append(queue, j)
    /\ futures' = {j}
    /\ UNCHANGED <<running, done, phase, toCancel>>

\* Recovery gives the reservation back when it has no operation of its own left
\* (a budget that could not be saved, or a pause that failed).
Release ==
    /\ reserved /\ futures = {}
    /\ reserved' = FALSE
    /\ UNCHANGED <<queue, running, done, futures, phase, toCancel>>

\* Mutant: the delivered future stays in _futures when its callback submits.
DeliverLeaking(release, next) ==
    /\ phase = "open" /\ done # <<>>
    /\ reserved' = (reserved /\ ~release)
    /\ \A j \in next : j \notin futures /\ Accepts(j, reserved')
    /\ futures' = IF next = {} THEN futures \ {Head(done)} ELSE futures \cup next
    /\ queue' = IF next = {} THEN queue ELSE Append(queue, CHOOSE j \in next : TRUE)
    /\ done' = Tail(done)
    /\ UNCHANGED <<running, phase, toCancel>>

\* GLib runs the oldest pending completion callback.  The callback may give the
\* reservation back and submit a follow-up operation; its own future still
\* counts while it runs and is discarded afterwards.
Deliver(release, next) ==
    /\ phase = "open" /\ done # <<>>
    /\ reserved' = (reserved /\ ~release)
    /\ \A j \in next : j \notin futures /\ Accepts(j, reserved')
    /\ futures' = (futures \ {Head(done)}) \cup next
    /\ queue' = IF next = {} THEN queue ELSE Append(queue, CHOOSE j \in next : TRUE)
    /\ done' = Tail(done)
    /\ UNCHANGED <<running, phase, toCancel>>

\* shutdown() closes the worker; the main loop does nothing else from here on.
Shutdown ==
    /\ phase = "open"
    /\ phase' = "cancelling"
    /\ toCancel' = futures
    /\ UNCHANGED <<queue, running, done, futures, reserved>>

\* One future.cancel() of the loop over the snapshot: it takes an operation that
\* has not started and leaves a running or finished one alone.  The thread
\* keeps working meanwhile, so an operation may start before its turn.
Cancel(j) ==
    /\ phase = "cancelling" /\ j \in toCancel
    /\ toCancel' = toCancel \ {j}
    /\ futures' = IF j = running \/ \E i \in DOMAIN done : done[i] = j
                    THEN futures ELSE futures \ {j}
    /\ UNCHANGED <<queue, running, done, reserved, phase>>

\* Every future has had its cancel(): queue the cleanup and wait for the thread.
SubmitCleanup ==
    /\ phase = "cancelling" /\ toCancel = {}
    /\ queue' = Append(queue, Cleanup)
    /\ phase' = "draining"
    /\ UNCHANGED <<running, done, futures, reserved, toCancel>>

-----------------------------------------------------------------------------
(***************************************************************************)
(* The worker thread's side.                                               *)
(***************************************************************************)

\* Mutant: the thread takes no further operation once one is waiting for GLib.
StartAfterDelivery ==
    /\ running = None /\ queue # <<>> /\ done = <<>>
    /\ Head(queue) \in futures \cup {Cleanup}
    /\ running' = Head(queue)
    /\ queue' = Tail(queue)
    /\ UNCHANGED <<done, futures, reserved, phase, toCancel>>

\* The thread takes the oldest operation.
Start ==
    /\ running = None /\ queue # <<>>
    /\ Head(queue) \in futures \cup {Cleanup}
    /\ running' = Head(queue)
    /\ queue' = Tail(queue)
    /\ UNCHANGED <<done, futures, reserved, phase, toCancel>>

\* The thread drops an operation that was cancelled in the queue.
Skip ==
    /\ running = None /\ queue # <<>>
    /\ Head(queue) \notin futures \cup {Cleanup}
    /\ queue' = Tail(queue)
    /\ UNCHANGED <<running, done, futures, reserved, phase, toCancel>>

\* The operation returned or raised: post its completion to the main loop.
Finish ==
    /\ running \in Jobs
    /\ running' = None
    /\ done' = Append(done, running)
    /\ UNCHANGED <<queue, futures, reserved, phase, toCancel>>

\* The cleanup and close_obex_worker_bus() ran; shutdown(wait=True) returns.
Stopped ==
    /\ running = Cleanup
    /\ running' = None
    /\ phase' = "stopped"
    /\ UNCHANGED <<queue, done, futures, reserved, toCancel>>

\* The process exits; nothing is left to happen.
Exited == phase = "stopped" /\ UNCHANGED workerVars

-----------------------------------------------------------------------------
\* A callback of recovery's own operation may end the reservation: it is then
\* the only operation left.
Callback ==
    \E release \in BOOLEAN, next \in {{}} \cup {{j} : j \in Jobs} :
        /\ release => reserved /\ Len(done) = 1 /\ futures = {Head(done)}
        /\ Deliver(release, next)

WorkerNext ==
    \/ \E j \in Jobs : Submit(j) \/ Cancel(j)
    \/ \E j \in Jobs : ReserveAndSubmit(j)
    \/ ReserveIfIdle \/ Release
    \/ Callback
    \/ Shutdown \/ SubmitCleanup
    \/ Start \/ Skip \/ Finish \/ Stopped
    \/ Exited

\* The thread runs what it is given, D-Bus calls have timeouts, GLib dispatches
\* idle sources, and shutdown() runs straight through.
WorkerFairStep(k) ==
    CASE k = 1 -> Start \/ Skip [] k = 2 -> Finish [] k = 3 -> Stopped [] k = 4 -> Callback
      [] k = 5 -> (\E j \in Jobs : Cancel(j)) [] k = 6 -> SubmitCleanup [] OTHER -> FALSE

WorkerFairness == \A k \in 1 .. 6 : WF_workerVars(WorkerFairStep(k))

WorkerSpec == WorkerInit /\ [][WorkerNext]_workerVars /\ WorkerFairness

-----------------------------------------------------------------------------
Queued == {queue[i] : i \in DOMAIN queue}
Finished == {done[i] : i \in DOMAIN done}

\* The state of the executor is well formed.
WorkerTypeOK ==
    /\ queue \in Seq(Jobs \cup {Cleanup})
    /\ running \in Jobs \cup {Cleanup, None}
    /\ done \in Seq(Jobs)
    /\ futures \subseteq Jobs /\ toCancel \subseteq Jobs
    /\ reserved \in BOOLEAN
    /\ phase \in {"open", "cancelling", "draining", "stopped"}

\* _futures is the set of operations that are queued, running or waiting for
\* their callback, less the ones shutdown cancelled in the queue: neither
\* delivery, cancellation nor a callback that submits again loses or leaks one
\* (a leak would refuse work for ever), and none is run or delivered twice.
FuturesExact ==
    /\ futures \subseteq Queued \cup {running} \cup Finished
    /\ ({running} \cup Finished) \ {Cleanup, None} \subseteq futures
    /\ phase = "open" => Queued \subseteq futures
    /\ running \notin Finished
    /\ Queued \cap ({running} \cup Finished) = {}

\* While Bluetooth recovery holds the worker, only its own operations are in
\* flight, pending callbacks included, and without the reservation none is.
ReservationExclusive ==
    \A j \in futures : (j \in ReservedJobs) = reserved

\* shutdown(): once its cleanup starts, no operation touches the phone again.
CleanupIsLast ==
    [][running = Cleanup \/ phase = "stopped" => running' \notin Jobs]_workerVars

\* Every accepted operation is delivered or cancelled, and a shutdown ends with
\* the active call and the cleanup done (what ran when it began is then left
\* without delivery).
EveryJobSettles ==
    /\ \A j \in Jobs : []<>(j \notin futures \/ phase = "stopped")
    /\ []<>(phase \notin {"cancelling", "draining"})
=============================================================================
