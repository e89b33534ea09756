---------------------------- MODULE ReadReceipts ----------------------------
(***************************************************************************)
(* Read acknowledgements to the phone: class ReadReceiptQueue of           *)
(* src/src/blueferry/read_receipts.py and the job of its batches on the    *)
(* OBEX worker.                                                            *)
(*                                                                         *)
(* A MAP session is a number, and its path may be that of an earlier one:  *)
(* obexd is asked by path, so what a path means depends on when it is      *)
(* asked.  The worker opens sessions, the main loop forgets them; a batch  *)
(* therefore looks before each write whether the session is still the one  *)
(* it was made for.  jobs is the worker's FIFO, and a batch its            *)
(* messages, in order.                                                     *)
(***************************************************************************)
EXTENDS Naturals, Sequences, SequencesExt

CONSTANTS
    Messages,       \* handles of messages
    Paths,          \* object paths of MAP sessions
    Limit,          \* MAX_PENDING_READ_RECEIPTS
    MaxSessions,    \* bound of the MAP sessions opened
    MaxReads,       \* bound of the messages read
    MaxFaults,      \* bound of refused batches
    None

VARIABLES
    rr,             \* the queue
    work,           \* the worker's jobs, the sessions, what was written
    reads, faults

receiptVars == <<rr, work, reads, faults>>

\* pending: the messages, due or still in the grace period; session: the one they were read
\* in; timer: _timer is armed.
NoReceipts == [m \in {} |-> "grace"]

\* map: the session the daemon has, at: the path of each session; next: the number of the
\* last one; checked: the running batch has looked and is about to write; sent: the writes,
\* as the message, the session it was read in and the session the path meant; late: the
\* writes after close().
Init ==
    /\ rr = [pending |-> NoReceipts, session |-> None, timer |-> FALSE, closed |-> FALSE]
    /\ \E path \in Paths :
           work = [jobs |-> <<>>, map |-> 1, at |-> <<path>>, checked |-> FALSE,
                   owed |-> {}, sent |-> {}, late |-> 0]
    /\ reads = 0 /\ faults = 0

\* The session obexd has under a path, of the ones made so far: the last.
Latest == Len(work.at)

-----------------------------------------------------------------------------
Fault == faults < MaxFaults /\ faults' = faults + 1
NoFault == UNCHANGED faults

Arm(r) == [r EXCEPT !.timer = @ \/ (~r.closed /\ DOMAIN r.pending # {})]

\* The daemon's _defer_message_reads() and defer(): of a message in the current session.  A
\* full queue takes no more.
Defer ==
    /\ reads < MaxReads /\ reads' = reads + 1
    /\ ~rr.closed /\ work.map # None
    /\ \E message \in Messages :
           LET kept == IF rr.session = work.map THEN rr.pending ELSE NoReceipts
               room == Cardinality(DOMAIN kept) < Limit
               more == IF message \in DOMAIN kept \/ ~room THEN kept
                       ELSE [m \in DOMAIN kept \cup {message} |->
                                 IF m = message THEN "grace" ELSE kept[m]]
           IN /\ rr' = Arm([rr EXCEPT !.pending = more, !.session = work.map])
              /\ work' = [work EXCEPT !.owed = IF message \in DOMAIN more
                                               THEN @ \cup {<<message, work.map>>} ELSE @]
    /\ NoFault

GraceElapses ==
    /\ \E m \in DOMAIN rr.pending :
           rr.pending[m] = "grace" /\ rr' = [rr EXCEPT !.pending[m] = "due"]
    /\ NoFault /\ UNCHANGED <<work, reads>>

\* Mutant: what was handed over is forgotten even when the worker refused it.
FlushRefused(r, due, accepted) ==
    [r EXCEPT !.pending = [m \in DOMAIN @ \ due |-> @[m]]]

\* A batch that the worker accepted is its own from then on.
Flushed(r, due, accepted) ==
    IF accepted THEN [r EXCEPT !.pending = [m \in DOMAIN @ \ due |-> @[m]]] ELSE r

\* _flush(), by the timer.
Flush ==
    /\ rr.timer
    /\ LET due == {m \in DOMAIN rr.pending : rr.pending[m] = "due"}
           fired == [rr EXCEPT !.timer = FALSE]
           Submit(order) == [work EXCEPT !.jobs = Append(@, [kind |-> "batch", left |-> order,
                                                             session |-> rr.session])]
       IN \/ /\ rr.session # work.map
             /\ rr' = [fired EXCEPT !.pending = NoReceipts]
             /\ NoFault /\ UNCHANGED work
          \/ /\ rr.session = work.map /\ due = {}
             /\ rr' = Arm(fired) /\ NoFault /\ UNCHANGED work
          \/ /\ rr.session = work.map /\ due # {}
             /\ rr' = Arm(Flushed(fired, due, TRUE)) /\ NoFault
             /\ \E order \in SetToSeqs(due) : work' = Submit(order)
          \/ /\ rr.session = work.map /\ due # {} /\ Fault
             /\ rr' = Arm(Flushed(fired, due, FALSE)) /\ UNCHANGED work
    /\ UNCHANGED reads

\* close(), at shutdown.
Close ==
    /\ ~rr.closed
    /\ rr' = [rr EXCEPT !.closed = TRUE, !.pending = NoReceipts, !.timer = FALSE]
    /\ NoFault /\ UNCHANGED <<work, reads>>

-----------------------------------------------------------------------------
(* The worker's thread, on the batch at the head of its queue. *)

\* write(): the session of the batch is still the daemon's, and the queue open.
Current(batch) == ~rr.closed /\ work.map = batch.session

Batch == work.jobs # <<>> /\ Head(work.jobs).kind = "batch"

Look ==
    /\ Batch /\ ~work.checked
    /\ work' = IF Head(work.jobs).left # <<>> /\ Current(Head(work.jobs))
               THEN [work EXCEPT !.checked = TRUE]
               ELSE [work EXCEPT !.jobs = Tail(@)]
    /\ NoFault /\ UNCHANGED <<rr, reads>>

\* set_session_messages_read(): the path means a session of obexd that has it.
Write ==
    /\ Batch /\ work.checked
    /\ LET batch == Head(work.jobs)
           means == IF work.at[Latest] = work.at[batch.session] THEN Latest ELSE batch.session
       IN work' = [work EXCEPT
              !.checked = FALSE, !.jobs[1].left = Tail(@),
              !.sent = @ \cup {<<Head(batch.left), batch.session, means>>},
              !.late = IF rr.closed THEN @ + 1 ELSE @]
    /\ NoFault /\ UNCHANGED <<rr, reads>>

-----------------------------------------------------------------------------
(* The MAP session: lost, or given up for a reconnect, it is closed and another one opened
   by jobs of the worker; a lost one is forgotten at once. *)

SessionJob(kind) == [kind |-> kind, left |-> <<>>, session |-> None]

SessionEnds ==
    /\ work.map # None /\ Latest < MaxSessions
    /\ \A i \in DOMAIN work.jobs : work.jobs[i].kind = "batch"
    /\ \E map \in {None, work.map} :
           work' = [work EXCEPT !.map = map, !.jobs = Append(@, SessionJob("close"))]
    /\ NoFault /\ UNCHANGED <<rr, reads>>

CloseSession ==
    /\ work.jobs # <<>> /\ Head(work.jobs).kind = "close"
    /\ work' = [work EXCEPT !.map = None, !.jobs = Append(Tail(@), SessionJob("open"))]
    /\ NoFault /\ UNCHANGED <<rr, reads>>

OpenSession ==
    /\ work.jobs # <<>> /\ Head(work.jobs).kind = "open"
    /\ \E path \in Paths :
           work' = [work EXCEPT !.map = Latest + 1, !.at = Append(@, path), !.jobs = Tail(@)]
    /\ NoFault /\ UNCHANGED <<rr, reads>>

Next ==
    \/ Defer \/ GraceElapses \/ Flush \/ Close \/ Look \/ Write
    \/ SessionEnds \/ CloseSession \/ OpenSession

\* Time passes, and main loop and worker run.
FairStep(k) ==
    CASE k = 1 -> GraceElapses
      [] k = 2 -> Flush
      [] k = 3 -> Look \/ Write \/ CloseSession \/ OpenSession
      [] OTHER -> FALSE

Spec == Init /\ [][Next]_receiptVars /\ \A k \in 1 .. 3 : WF_receiptVars(FairStep(k))

-----------------------------------------------------------------------------
\* A message is marked read only in the session it was read in, and not in a later one under
\* the same path (write()); after close() at most the write under way is finished; and
\* in a session that lasts, every message read is waiting, handed to the worker or
\* written, even when the worker refused a batch (_flush()).
ReceiptsKept ==
    /\ \A w \in work.sent : w[2] = w[3]
    /\ work.late <= 1
    /\ ~rr.closed =>
           \A o \in work.owed : o[2] = work.map =>
               \/ o[1] \in DOMAIN rr.pending
               \/ \E i \in DOMAIN work.jobs :
                      work.jobs[i].session = work.map /\ Contains(work.jobs[i].left, o[1])
               \/ <<o[1], o[2], o[2]>> \in work.sent

\* Nothing waits.
Delivered == DOMAIN rr.pending = {} /\ work.jobs = <<>>

\* No receipt is lost or misdirected (ReceiptsKept), and each is acknowledged in the end or
\* its session is over: the queue empties.
ReceiptsArrive == []ReceiptsKept /\ []<>Delivered
=============================================================================
