-------------------------- MODULE ObexWorkerProofs --------------------------
(***************************************************************************)
(* Proofs about the OBEX worker, for every set of operations and every     *)
(* bound of pending ones: the bookkeeping of _futures is exact, recovery's *)
(* reservation is exclusive, and shutdown's cleanup is the last operation. *)
(***************************************************************************)
EXTENDS ObexWorker, TLAPS

\* The safety part of the specification.
WorkerSafety == WorkerInit /\ [][WorkerNext]_workerVars

-----------------------------------------------------------------------------
(***************************************************************************)
(* The inductive invariant: the properties, no operation twice in a        *)
(* sequence, and how far shutdown() has come.                              *)
(***************************************************************************)

Elems(s) == {s[i] : i \in DOMAIN s}
Distinct(s) == \A i, k \in DOMAIN s : s[i] = s[k] => i = k

\* Shutdown cancels what is queued before it queues the cleanup.
ShutdownOrder ==
    /\ phase \in {"open", "cancelling"} => Cleanup \notin Queued /\ running # Cleanup
    /\ phase = "cancelling" => Queued \cap futures \subseteq toCancel
    /\ phase \in {"draining", "stopped"} => Queued \cap futures = {}
    /\ phase = "stopped" => running \notin Jobs

WorkerInv ==
    /\ WorkerTypeOK /\ FuturesExact /\ ReservationExclusive
    /\ Distinct(queue) /\ Distinct(done)
    /\ ShutdownOrder

-----------------------------------------------------------------------------
(***************************************************************************)
(* Facts about the sequences the worker keeps.                             *)
(***************************************************************************)

\* Appending adds one element, and keeps a sequence without duplicates so when
\* the element is new.
LEMMA AppendElems ==
    ASSUME NEW T, NEW s \in Seq(T), NEW e \in T
    PROVE  /\ Append(s, e) \in Seq(T)
           /\ Elems(Append(s, e)) = Elems(s) \cup {e}
           /\ Distinct(s) /\ e \notin Elems(s) => Distinct(Append(s, e))
<1>1. Append(s, e) \in Seq(T) OBVIOUS
<1>2. /\ DOMAIN Append(s, e) = DOMAIN s \cup {Len(s) + 1}
      /\ \A i \in DOMAIN s : Append(s, e)[i] = s[i]
      /\ Append(s, e)[Len(s) + 1] = e
      /\ Len(s) + 1 \notin DOMAIN s
  OBVIOUS
<1>3. Elems(Append(s, e)) = Elems(s) \cup {e}
  BY <1>2, Zenon DEF Elems
<1>4. Distinct(s) /\ e \notin Elems(s) => Distinct(Append(s, e))
  BY <1>2 DEF Distinct, Elems
<1> QED BY <1>1, <1>3, <1>4

\* Taking the head removes exactly one element of a sequence without duplicates.
LEMMA HeadTailElems ==
    ASSUME NEW T, NEW s \in Seq(T), s # <<>>
    PROVE  /\ Head(s) \in T /\ Tail(s) \in Seq(T)
           /\ Elems(s) = Elems(Tail(s)) \cup {Head(s)}
           /\ Distinct(s) => Distinct(Tail(s)) /\ Head(s) \notin Elems(Tail(s))
<1>1. Head(s) \in T /\ Tail(s) \in Seq(T) OBVIOUS
<1>2. /\ \A i \in DOMAIN Tail(s) : i + 1 \in DOMAIN s /\ Tail(s)[i] = s[i + 1]
      /\ \A i \in DOMAIN s : i # 1 => i - 1 \in DOMAIN Tail(s) /\ Tail(s)[i - 1] = s[i]
      /\ 1 \in DOMAIN s /\ Head(s) = s[1]
      /\ DOMAIN Tail(s) \subseteq Nat \ {0}
  OBVIOUS
<1>3. Elems(s) \subseteq Elems(Tail(s)) \cup {Head(s)}
  BY <1>2 DEF Elems
<1>4. Elems(Tail(s)) \cup {Head(s)} \subseteq Elems(s)
  BY <1>2 DEF Elems
<1>5. ASSUME Distinct(s)
      PROVE  Distinct(Tail(s)) /\ Head(s) \notin Elems(Tail(s))
  BY <1>2, <1>5 DEF Distinct, Elems
<1> QED BY <1>1, <1>3, <1>4, <1>5

-----------------------------------------------------------------------------
(***************************************************************************)
(* The invariant holds initially and is preserved by every action.         *)
(***************************************************************************)

LEMMA WorkerInvInit == WorkerInit => WorkerInv
<1> SUFFICES ASSUME WorkerInit PROVE WorkerInv OBVIOUS
<1> USE DEF WorkerInit
<1>1. Queued = {} /\ Finished = {} BY DEF Queued, Finished
<1>2. Distinct(queue) /\ Distinct(done) BY DEF Distinct
<1>3. WorkerTypeOK
  <2>1. queue \in Seq(Jobs \cup {Cleanup}) /\ done \in Seq(Jobs) OBVIOUS
  <2> QED BY <2>1 DEF WorkerTypeOK
<1>4. FuturesExact BY <1>1 DEF FuturesExact
<1>5. ReservationExclusive BY DEF ReservationExclusive
<1>6. ShutdownOrder BY <1>1, WorkerAssumption DEF ShutdownOrder
<1> QED BY <1>2, <1>3, <1>4, <1>5, <1>6 DEF WorkerInv

\* The defined sets and the sequences they come from.
LEMMA SetsOfSequences ==
    Queued = Elems(queue) /\ Finished = Elems(done)
BY DEF Queued, Finished, Elems

LEMMA SubmitPreserves ==
    ASSUME WorkerInv, NEW j \in Jobs, Submit(j) PROVE WorkerInv'
<1> USE WorkerAssumption DEF WorkerInv
<1>1. /\ queue' \in Seq(Jobs \cup {Cleanup})
      /\ Queued' = Queued \cup {j}
  BY AppendElems DEF Submit, WorkerTypeOK, Queued, Elems
<1>2. j \notin Queued /\ Finished' = Finished /\ j \notin Finished /\ j # running
  BY DEF Submit, Accepts, FuturesExact, Finished
<1>3. Distinct(queue') /\ Distinct(done')
  BY <1>2, AppendElems, SetsOfSequences DEF Submit, WorkerTypeOK
<1>4. WorkerTypeOK' BY <1>1 DEF Submit, WorkerTypeOK
<1>5. FuturesExact' BY <1>1, <1>2 DEF Submit, Accepts, FuturesExact
<1>6. ReservationExclusive' BY DEF Submit, Accepts, ReservationExclusive
<1>7. ShutdownOrder' BY <1>1 DEF Submit, Accepts, ShutdownOrder
<1> QED BY <1>3, <1>4, <1>5, <1>6, <1>7

\* Only operations, never the cleanup, wait for their callback.
LEMMA FinishedAreJobs == WorkerTypeOK => Finished \subseteq Jobs
BY DEF WorkerTypeOK, Finished

LEMMA ReservePreserves ==
    ASSUME WorkerInv, ReserveIfIdle \/ Release PROVE WorkerInv'
<1> USE DEF WorkerInv
<1>1. /\ UNCHANGED <<queue, running, done, futures, phase, toCancel>>
      /\ futures = {} /\ reserved' \in BOOLEAN
  BY DEF ReserveIfIdle, Release
<1>2. Queued' = Queued /\ Finished' = Finished BY <1>1 DEF Queued, Finished
<1>3. WorkerTypeOK' BY <1>1 DEF WorkerTypeOK
<1>4. FuturesExact' BY <1>1, <1>2 DEF FuturesExact
<1>5. ReservationExclusive' BY <1>1 DEF ReservationExclusive
<1>6. ShutdownOrder' BY <1>1, <1>2 DEF ShutdownOrder
<1> QED BY <1>1, <1>3, <1>4, <1>5, <1>6

LEMMA ReserveAndSubmitPreserves ==
    ASSUME WorkerInv, NEW j \in Jobs, ReserveAndSubmit(j) PROVE WorkerInv'
<1> USE WorkerAssumption DEF WorkerInv
<1>1. /\ queue' \in Seq(Jobs \cup {Cleanup})
      /\ Queued' = Queued \cup {j} /\ Finished' = Finished
  BY AppendElems DEF ReserveAndSubmit, WorkerTypeOK, Queued, Finished, Elems
<1>2. Queued = {} /\ Finished = {} /\ running # j
  <2>1. futures = {} /\ phase = "open" BY DEF ReserveAndSubmit
  <2>2. Finished \subseteq Jobs BY FinishedAreJobs
  <2> QED BY <2>1, <2>2 DEF FuturesExact
<1>3. Distinct(queue') /\ Distinct(done')
  BY <1>2, AppendElems, SetsOfSequences DEF ReserveAndSubmit, WorkerTypeOK
<1>4. WorkerTypeOK' BY <1>1 DEF ReserveAndSubmit, WorkerTypeOK
<1>5. FuturesExact' BY <1>1, <1>2 DEF ReserveAndSubmit, FuturesExact
<1>6. ReservationExclusive' BY DEF ReserveAndSubmit, ReservationExclusive
<1>7. ShutdownOrder' BY <1>1 DEF ReserveAndSubmit, ShutdownOrder
<1> QED BY <1>3, <1>4, <1>5, <1>6, <1>7

LEMMA CallbackPreserves ==
    ASSUME WorkerInv, Callback PROVE WorkerInv'
<1> USE WorkerAssumption DEF WorkerInv
<1>1. PICK release \in BOOLEAN, next \in {{}} \cup {{j} : j \in Jobs} :
         /\ release => reserved /\ Len(done) = 1 /\ futures = {Head(done)}
         /\ Deliver(release, next)
  BY DEF Callback
<1> DEFINE d == Head(done)
<1>2. /\ d \in Jobs /\ done' \in Seq(Jobs)
      /\ Finished = Finished' \cup {d} /\ d \notin Finished' /\ Distinct(done')
  <2>1. done \in Seq(Jobs) /\ done # <<>> /\ done' = Tail(done) /\ Distinct(done)
    BY <1>1 DEF Deliver, WorkerTypeOK
  <2>2. Finished' = Elems(Tail(done)) /\ Finished = Elems(done)
    BY <2>1 DEF Finished, Elems
  <2>3. /\ d \in Jobs /\ Tail(done) \in Seq(Jobs)
        /\ Elems(done) = Elems(Tail(done)) \cup {d}
        /\ Distinct(Tail(done)) /\ d \notin Elems(Tail(done))
    BY <2>1, HeadTailElems
  <2> QED BY <2>1, <2>2, <2>3
<1>3. next \subseteq Jobs /\ \A j \in next : j \notin futures
  BY <1>1 DEF Deliver
<1>4. /\ queue' \in Seq(Jobs \cup {Cleanup}) /\ Queued' = Queued \cup next
      /\ Distinct(queue')
  <2>1. CASE next = {}
    <3>1. queue' = queue BY <1>1, <2>1 DEF Deliver
    <3> QED BY <2>1, <3>1 DEF WorkerTypeOK, Queued
  <2>2. CASE next # {}
    <3>1. PICK j \in Jobs : next = {j} BY <2>2
    <3>2. queue' = Append(queue, j) /\ j \notin futures /\ phase = "open"
      BY <1>1, <2>2, <3>1 DEF Deliver
    <3>3. j \notin Elems(queue) BY <3>2 DEF FuturesExact, Queued, Elems
    <3>4. /\ queue \in Seq(Jobs \cup {Cleanup}) /\ j \in Jobs \cup {Cleanup}
          /\ Distinct(queue)
      BY DEF WorkerTypeOK
    <3>5. /\ queue' \in Seq(Jobs \cup {Cleanup})
          /\ Elems(queue') = Elems(queue) \cup {j} /\ Distinct(queue')
      BY <3>2, <3>3, <3>4, AppendElems
    <3> QED BY <3>1, <3>5 DEF Queued, Elems
  <2> QED BY <2>1, <2>2
<1>5. WorkerTypeOK' BY <1>1, <1>2, <1>3, <1>4 DEF Deliver, WorkerTypeOK
<1>6. FuturesExact' BY <1>1, <1>2, <1>3, <1>4 DEF Deliver, FuturesExact, WorkerTypeOK
<1>7. ReservationExclusive'
  <2>1. \A j \in next : (j \in ReservedJobs) = reserved'
    BY <1>1 DEF Deliver, Accepts
  <2>2. \A j \in futures \ {d} : (j \in ReservedJobs) = reserved'
    <3>1. CASE release BY <1>1, <3>1
    <3>2. CASE ~release
      <4>1. reserved' = reserved BY <1>1, <3>2 DEF Deliver, WorkerTypeOK
      <4> QED BY <4>1 DEF ReservationExclusive
    <3> QED BY <3>1, <3>2
  <2>3. futures' = (futures \ {d}) \cup next BY <1>1 DEF Deliver
  <2> QED BY <2>1, <2>2, <2>3 DEF ReservationExclusive
<1>8. ShutdownOrder' BY <1>1, <1>3, <1>4 DEF Deliver, ShutdownOrder
<1> QED BY <1>2, <1>4, <1>5, <1>6, <1>7, <1>8

LEMMA ShutdownPreserves ==
    ASSUME WorkerInv, Shutdown \/ SubmitCleanup \/ \E j \in Jobs : Cancel(j)
    PROVE  WorkerInv'
<1> USE WorkerAssumption DEF WorkerInv
<1>1. CASE Shutdown
  <2>1. Queued' = Queued /\ Finished' = Finished BY <1>1 DEF Shutdown, Queued, Finished
  <2>2. WorkerTypeOK' BY <1>1 DEF Shutdown, WorkerTypeOK
  <2>3. FuturesExact' BY <1>1, <2>1 DEF Shutdown, FuturesExact
  <2>4. ReservationExclusive' BY <1>1 DEF Shutdown, ReservationExclusive
  <2>5. ShutdownOrder' BY <1>1, <2>1 DEF Shutdown, ShutdownOrder
  <2> QED BY <1>1, <2>2, <2>3, <2>4, <2>5 DEF Shutdown
<1>2. CASE SubmitCleanup
  <2>1. /\ queue' \in Seq(Jobs \cup {Cleanup}) /\ Queued' = Queued \cup {Cleanup}
        /\ Distinct(queue') /\ Distinct(done') /\ Finished' = Finished
    <3>1. /\ queue' = Append(queue, Cleanup) /\ queue \in Seq(Jobs \cup {Cleanup})
          /\ Distinct(queue) /\ Cleanup \notin Elems(queue)
      BY <1>2 DEF SubmitCleanup, WorkerTypeOK, ShutdownOrder, Queued, Elems
    <3>2. /\ queue' \in Seq(Jobs \cup {Cleanup})
          /\ Elems(queue') = Elems(queue) \cup {Cleanup} /\ Distinct(queue')
      BY <3>1, AppendElems
    <3> QED BY <1>2, <3>2 DEF SubmitCleanup, Queued, Finished, Elems
  <2>2. WorkerTypeOK' BY <1>2, <2>1 DEF SubmitCleanup, WorkerTypeOK
  <2>3. running # Cleanup /\ Cleanup \notin Finished
    BY <1>2, FinishedAreJobs DEF SubmitCleanup, ShutdownOrder
  <2>4. FuturesExact' BY <1>2, <2>1, <2>3 DEF SubmitCleanup, FuturesExact
  <2>5. ReservationExclusive' BY <1>2 DEF SubmitCleanup, ReservationExclusive
  <2>6. Cleanup \notin futures BY DEF WorkerTypeOK
  <2>7. ShutdownOrder' BY <1>2, <2>1, <2>6 DEF SubmitCleanup, ShutdownOrder
  <2> QED BY <2>1, <2>2, <2>4, <2>5, <2>7
<1>3. ASSUME NEW j \in Jobs, Cancel(j) PROVE WorkerInv'
  <2>1. /\ Queued' = Queued /\ Finished' = Finished
        /\ UNCHANGED <<queue, running, done, reserved, phase>>
    BY <1>3 DEF Cancel, Queued, Finished
  <2>2. futures' = IF j = running \/ j \in Finished THEN futures ELSE futures \ {j}
    BY <1>3 DEF Cancel, Finished
  <2>3. WorkerTypeOK' BY <1>3, <2>1, <2>2 DEF Cancel, WorkerTypeOK
  <2>4. FuturesExact' BY <1>3, <2>1, <2>2 DEF Cancel, FuturesExact
  <2>5. ReservationExclusive' BY <2>1, <2>2 DEF ReservationExclusive
  <2>6. ShutdownOrder' BY <1>3, <2>1, <2>2 DEF Cancel, ShutdownOrder, FuturesExact
  <2> QED BY <2>1, <2>3, <2>4, <2>5, <2>6
<1> QED BY <1>1, <1>2, <1>3

\* What Start and Skip have in common: the head leaves the queue.
LEMMA HeadLeavesQueue ==
    ASSUME WorkerInv, queue # <<>>, queue' = Tail(queue)
    PROVE  /\ Head(queue) \in Jobs \cup {Cleanup}
           /\ queue' \in Seq(Jobs \cup {Cleanup}) /\ Distinct(queue')
           /\ Queued = Queued' \cup {Head(queue)} /\ Head(queue) \notin Queued'
<1>1. queue \in Seq(Jobs \cup {Cleanup}) /\ Distinct(queue)
  BY DEF WorkerInv, WorkerTypeOK
<1>2. Queued = Elems(queue) /\ Queued' = Elems(Tail(queue)) BY DEF Queued, Elems
<1>3. /\ Head(queue) \in Jobs \cup {Cleanup} /\ Tail(queue) \in Seq(Jobs \cup {Cleanup})
      /\ Elems(queue) = Elems(Tail(queue)) \cup {Head(queue)}
      /\ Distinct(Tail(queue)) /\ Head(queue) \notin Elems(Tail(queue))
  BY <1>1, HeadTailElems
<1> QED BY <1>2, <1>3

LEMMA ThreadPreserves ==
    ASSUME WorkerInv, Start \/ Skip \/ Finish \/ Stopped PROVE WorkerInv'
<1> USE WorkerAssumption DEF WorkerInv
<1>1. CASE Start
  <2>1. /\ Head(queue) \in Jobs \cup {Cleanup}
        /\ queue' \in Seq(Jobs \cup {Cleanup}) /\ Distinct(queue')
        /\ Queued = Queued' \cup {Head(queue)} /\ Head(queue) \notin Queued'
    BY <1>1, HeadLeavesQueue DEF Start
  <2>2. Finished' = Finished BY <1>1 DEF Start, Finished
  <2>3. WorkerTypeOK' BY <1>1, <2>1 DEF Start, WorkerTypeOK
  <2>4. FuturesExact'
    BY <1>1, <2>1, <2>2 DEF Start, FuturesExact, WorkerTypeOK
  <2>5. ReservationExclusive' BY <1>1 DEF Start, ReservationExclusive
  <2>6. ShutdownOrder' BY <1>1, <2>1 DEF Start, ShutdownOrder
  <2> QED BY <1>1, <2>1, <2>3, <2>4, <2>5, <2>6 DEF Start
<1>2. CASE Skip
  <2>1. /\ queue' \in Seq(Jobs \cup {Cleanup}) /\ Distinct(queue')
        /\ Queued = Queued' \cup {Head(queue)}
    BY <1>2, HeadLeavesQueue DEF Skip
  <2>2. Finished' = Finished BY <1>2 DEF Skip, Finished
  <2>3. WorkerTypeOK' BY <1>2, <2>1 DEF Skip, WorkerTypeOK
  <2>4. FuturesExact' BY <1>2, <2>1, <2>2 DEF Skip, FuturesExact
  <2>5. ReservationExclusive' BY <1>2 DEF Skip, ReservationExclusive
  <2>6. ShutdownOrder' BY <1>2, <2>1 DEF Skip, ShutdownOrder
  <2> QED BY <1>2, <2>1, <2>3, <2>4, <2>5, <2>6 DEF Skip
<1>3. CASE Finish
  <2>1. /\ done' \in Seq(Jobs) /\ Finished' = Finished \cup {running}
        /\ Distinct(done') /\ Queued' = Queued
    <3>1. /\ done' = Append(done, running) /\ done \in Seq(Jobs) /\ running \in Jobs
          /\ Distinct(done) /\ running \notin Elems(done)
      BY <1>3 DEF Finish, WorkerTypeOK, FuturesExact, Finished, Elems
    <3>2. /\ done' \in Seq(Jobs) /\ Elems(done') = Elems(done) \cup {running}
          /\ Distinct(done')
      BY <3>1, AppendElems
    <3> QED BY <1>3, <3>2 DEF Finish, Queued, Finished, Elems
  <2>2. WorkerTypeOK' BY <1>3, <2>1 DEF Finish, WorkerTypeOK
  <2>3. None \notin Queued
    BY DEF WorkerTypeOK, Queued
  <2>4. None \notin Finished BY FinishedAreJobs
  <2>5. FuturesExact' BY <1>3, <2>1, <2>3, <2>4 DEF Finish, FuturesExact
  <2>6. ReservationExclusive' BY <1>3 DEF Finish, ReservationExclusive
  <2>7. ShutdownOrder' BY <1>3, <2>1 DEF Finish, ShutdownOrder
  <2> QED BY <1>3, <2>1, <2>2, <2>5, <2>6, <2>7 DEF Finish
<1>4. CASE Stopped
  <2>1. Queued' = Queued /\ Finished' = Finished BY <1>4 DEF Stopped, Queued, Finished
  <2>2. None \notin Queued BY DEF WorkerTypeOK, Queued
  <2>3. None \notin Finished BY FinishedAreJobs
  <2>4. phase \in {"draining", "stopped"} BY <1>4 DEF Stopped, ShutdownOrder, WorkerTypeOK
  <2>5. WorkerTypeOK' BY <1>4 DEF Stopped, WorkerTypeOK
  <2>6. FuturesExact'
    BY <1>4, <2>1, <2>2, <2>3 DEF Stopped, FuturesExact, WorkerTypeOK
  <2>7. ReservationExclusive' BY <1>4 DEF Stopped, ReservationExclusive
  <2>8. ShutdownOrder' BY <1>4, <2>1, <2>4 DEF Stopped, ShutdownOrder
  <2> QED BY <1>4, <2>5, <2>6, <2>7, <2>8 DEF Stopped
<1> QED BY <1>1, <1>2, <1>3, <1>4

LEMMA WorkerInvStep == WorkerInv /\ [WorkerNext]_workerVars => WorkerInv'
<1> SUFFICES ASSUME WorkerInv, [WorkerNext]_workerVars PROVE WorkerInv' OBVIOUS
<1>1. ASSUME NEW j \in Jobs, Submit(j) PROVE WorkerInv' BY <1>1, SubmitPreserves
<1>2. ASSUME NEW j \in Jobs, ReserveAndSubmit(j) PROVE WorkerInv'
  BY <1>2, ReserveAndSubmitPreserves
<1>3. ASSUME ReserveIfIdle \/ Release PROVE WorkerInv' BY <1>3, ReservePreserves
<1>4. CASE Callback BY <1>4, CallbackPreserves
<1>5. ASSUME Shutdown \/ SubmitCleanup \/ \E j \in Jobs : Cancel(j) PROVE WorkerInv'
  BY <1>5, ShutdownPreserves
<1>6. ASSUME Start \/ Skip \/ Finish \/ Stopped PROVE WorkerInv' BY <1>6, ThreadPreserves
<1>7. CASE UNCHANGED workerVars
  BY <1>7 DEF workerVars, WorkerInv, WorkerTypeOK, FuturesExact, ReservationExclusive,
              ShutdownOrder, Queued, Finished
<1>8. CASE Exited BY <1>7, <1>8 DEF Exited
<1> QED BY <1>1, <1>2, <1>3, <1>4, <1>5, <1>6, <1>7, <1>8 DEF WorkerNext

-----------------------------------------------------------------------------
(***************************************************************************)
(* The theorems.                                                           *)
(***************************************************************************)

LEMMA WorkerInvariant == WorkerSafety => []WorkerInv
BY WorkerInvInit, WorkerInvStep, PTL DEF WorkerSafety

\* The executor's state stays well formed under every interleaving of the main
\* loop, the thread and shutdown().
THEOREM WorkerTypes == WorkerSafety => []WorkerTypeOK
<1>1. WorkerInv => WorkerTypeOK BY DEF WorkerInv
<1> QED BY <1>1, WorkerInvariant, PTL

\* submit(), _deliver_pending() and shutdown() keep _futures exact: no future
\* leaks, and none is lost, run twice or delivered twice.
THEOREM WorkerBookkeeping == WorkerSafety => []FuturesExact
<1>1. WorkerInv => FuturesExact BY DEF WorkerInv
<1> QED BY <1>1, WorkerInvariant, PTL

\* reserve_if_idle() really excludes: during a reservation every operation in
\* flight is recovery's own, and outside one none is.
THEOREM WorkerReservation == WorkerSafety => []ReservationExclusive
<1>1. WorkerInv => ReservationExclusive BY DEF WorkerInv
<1> QED BY <1>1, WorkerInvariant, PTL

\* After shutdown()'s cleanup has started, no submitted operation runs.
THEOREM WorkerCleanupLast == WorkerSafety => CleanupIsLast
<1>1. WorkerInv /\ [WorkerNext]_workerVars
        => [running = Cleanup \/ phase = "stopped" => running' \notin Jobs]_workerVars
  <2> SUFFICES ASSUME WorkerInv, WorkerNext, running = Cleanup \/ phase = "stopped",
                      running' \in Jobs
               PROVE  FALSE
    OBVIOUS
  <2> USE WorkerAssumption
  <2>1. CASE Start
    <3>1. Queued \cap futures = {} /\ queue \in Seq(Jobs \cup {Cleanup})
      BY <2>1 DEF Start, WorkerInv, ShutdownOrder, WorkerTypeOK
    <3>2. Head(queue) \in Queued BY <2>1, <3>1 DEF Start, Queued
    <3> QED BY <2>1, <3>1, <3>2 DEF Start
  <2>2. CASE ~Start
    <3>1. running \notin Jobs
      BY DEF WorkerInv, ShutdownOrder
    <3>2. running' \in {running, None}
      BY <2>2 DEF WorkerNext, Submit, Cancel, ReserveIfIdle, ReserveAndSubmit, Release,
           Callback, Deliver, Shutdown, SubmitCleanup, Skip, Finish, Stopped, Exited,
           workerVars
    <3> QED BY <3>1, <3>2
  <2> QED BY <2>1, <2>2
<1> QED BY <1>1, WorkerInvariant, PTL DEF WorkerSafety, CleanupIsLast
=============================================================================
