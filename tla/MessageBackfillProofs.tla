----------------------- MODULE MessageBackfillProofs -----------------------
(***************************************************************************)
(* Proofs about live and missed messages on their way to history: however  *)
(* they meet, a message is stored once, what was erased stays erased, and  *)
(* when nothing is under way any more a connection's history has what the  *)
(* phone has (CaughtUp).                                                   *)
(***************************************************************************)
EXTENDS MessageBackfill, WellFoundedInduction, TLAPS

-----------------------------------------------------------------------------
(***************************************************************************)
(* Greatest elements, and sequences.                                       *)
(***************************************************************************)

\* The elements of a sequence, and that it has each of them once.
Elems(s) == {s[i] : i \in DOMAIN s}
Once(s) == \A i, k \in DOMAIN s : s[i] = s[k] => i = k

\* Of the worker's queue: nothing but fetches is ahead of a store, and listings
\* are in the order of their connections.
Ahead(j, k) ==
    j.kind # "fetch" =>
        /\ k.kind # "store"
        /\ j.kind = "list" /\ k.kind = "list" => j.gen < k.gen
Ordered(s) == \A i, k \in DOMAIN s : i < k => Ahead(s[i], s[k])

LEMMA AppendOnce ==
    ASSUME NEW T, NEW s \in Seq(T), NEW e \in T
    PROVE  /\ Append(s, e) \in Seq(T)
           /\ Elems(Append(s, e)) = Elems(s) \cup {e}
           /\ Once(s) /\ e \notin Elems(s) => Once(Append(s, e))
           /\ Ordered(s) /\ (\A x \in Elems(s) : Ahead(x, e)) => Ordered(Append(s, e))
<1>1. Append(s, e) \in Seq(T)
  OBVIOUS
<1>2. /\ DOMAIN s = 1 .. Len(s) /\ DOMAIN Append(s, e) = 1 .. Len(s) + 1 /\ Len(s) \in Nat
      /\ \A i \in 1 .. Len(s) : Append(s, e)[i] = s[i]
      /\ Append(s, e)[Len(s) + 1] = e
  OBVIOUS
<1>3. DOMAIN Append(s, e) = DOMAIN s \cup {Len(s) + 1}
  BY <1>2
<1>4. Elems(Append(s, e)) = Elems(s) \cup {e}
  <2>1. \A i \in DOMAIN s : Append(s, e)[i] = s[i]
    BY <1>2
  <2> QED
    BY <1>2, <1>3, <2>1, Zenon DEF Elems
<1>5. Once(s) /\ e \notin Elems(s) => Once(Append(s, e))
  BY <1>2 DEF Once, Elems
<1>6. Ordered(s) /\ (\A x \in Elems(s) : Ahead(x, e)) => Ordered(Append(s, e))
  BY <1>2 DEF Ordered, Elems
<1> QED
  BY <1>1, <1>4, <1>5, <1>6

LEMMA HeadStays ==
    ASSUME NEW T, NEW s \in Seq(T), NEW e \in T, s # <<>>
    PROVE  Append(s, e) # <<>> /\ Head(Append(s, e)) = Head(s)
OBVIOUS

LEMMA TailOnce ==
    ASSUME NEW T, NEW s \in Seq(T), s # <<>>
    PROVE  /\ Head(s) \in T /\ Tail(s) \in Seq(T)
           /\ Head(s) \in Elems(s)
           /\ Once(s) => Once(Tail(s)) /\ Elems(Tail(s)) = Elems(s) \ {Head(s)}
           /\ Ordered(s) => Ordered(Tail(s)) /\ \A x \in Elems(Tail(s)) : Ahead(Head(s), x)
<1>1. Head(s) \in T /\ Tail(s) \in Seq(T)
  OBVIOUS
<1>2. /\ \A i \in DOMAIN Tail(s) : i + 1 \in DOMAIN s /\ Tail(s)[i] = s[i + 1]
      /\ \A i \in DOMAIN s : i # 1 => i - 1 \in DOMAIN Tail(s) /\ Tail(s)[i - 1] = s[i]
      /\ 1 \in DOMAIN s /\ Head(s) = s[1]
      /\ DOMAIN Tail(s) \subseteq Nat \ {0}
  OBVIOUS
<1>3. Head(s) \in Elems(s)
  BY <1>2 DEF Elems
<1>4. ASSUME Once(s)
      PROVE  Once(Tail(s)) /\ Elems(Tail(s)) = Elems(s) \ {Head(s)}
  <2>1. Elems(s) \subseteq Elems(Tail(s)) \cup {Head(s)}
    BY <1>2 DEF Elems
  <2>2. Elems(Tail(s)) \subseteq Elems(s)
    BY <1>2 DEF Elems
  <2>3. Once(Tail(s)) /\ Head(s) \notin Elems(Tail(s))
    BY <1>2, <1>4 DEF Once, Elems
  <2> QED
    BY <2>1, <2>2, <2>3
<1>5. ASSUME Ordered(s)
      PROVE  Ordered(Tail(s)) /\ \A x \in Elems(Tail(s)) : Ahead(Head(s), x)
  BY <1>2, <1>5 DEF Ordered, Elems
<1> QED
  BY <1>1, <1>3, <1>4, <1>5

\* A bounded set of times has a greatest one.
LEMMA MaxOfBounded ==
    ASSUME NEW T \in SUBSET Nat, T # {}, NEW b \in Nat, \A x \in T : x <= b
    PROVE  Max(T) \in T /\ \A y \in T : Max(T) >= y
<1> DEFINE R == OpToRel(<, Nat)
           U == {b - x : x \in T}
<1>1. U \subseteq Nat /\ U # {}
  <2>1. \A x \in T : b - x \in Nat /\ b - x \in U
    OBVIOUS
  <2> QED
    BY <2>1
<1>2. PICK u \in U : \A v \in U : ~(<<v, u>> \in R)
  <2>1. IsWellFoundedOn(R, Nat)
    BY NatLessThanWellFounded
  <2> HIDE DEF R, U
  <2> QED
    BY <1>1, <2>1, WFMin
<1>3. \A v \in U : ~(v < u)
  <2>1. \A v, w \in Nat : v < w => <<v, w>> \in R
    BY DEF OpToRel
  <2> HIDE DEF R, U
  <2> QED
    BY <1>1, <1>2, <2>1
<1>4. PICK x \in T : u = b - x
  OBVIOUS
<1>5. \A y \in T : x >= y
  <2> TAKE y \in T
  <2>1. b - y \in U
    OBVIOUS
  <2>2. ~(b - y < b - x)
    BY <1>3, <1>4, <2>1
  <2> QED
    BY <2>2
<1>6. \E z \in T : \A y \in T : z >= y
  BY <1>5
<1> HIDE DEF R, U
<1> QED
  BY <1>6, Zenon DEF Max
-----------------------------------------------------------------------------
(***************************************************************************)
(* The inductive invariant.                                                *)
(***************************************************************************)

\* An operation of the worker, and its outcome on the way to the callback.
Job == [kind : {"fetch", "list", "store"}, gen : Nat, msgs : SUBSET Message,
        floor : Nat, after : Nat \cup {None}]
Outcome == [job : Job, outcome : {"ok", "failed", "erased"}, plan : SUBSET Message]
Scan == [stored : SUBSET Message, floor : Nat, since : Nat]
Row == [msg : Message, seen : Nat, live : BOOLEAN]

Queued == Elems(queue)
Ended == Elems(done)
Announced == Elems(pushes)

Typed ==
    /\ stamp \in Seq(Nat) /\ Len(stamp) <= MaxMessages
    /\ connected \in BOOLEAN /\ mns \in BOOLEAN /\ timer \in BOOLEAN /\ busy \in BOOLEAN
    /\ rerun \in BOOLEAN /\ enabled \in BOOLEAN /\ owing \in BOOLEAN /\ gapped \in BOOLEAN
    /\ now \in Nat /\ generation \in Nat /\ floor \in Nat /\ trouble \in Nat
    /\ liveAfter \in Nat \cup {None}
    /\ live = None \/ live \in SUBSET Message
    /\ remembered \in SUBSET Message
    /\ history \in SUBSET Row /\ copies \in [Message -> Nat]
    /\ queue \in Seq(Job) /\ done \in Seq(Outcome) /\ pushes \in Seq(Message)
    /\ scan \in Scan \cup {None}

\* Whatever is under way is about messages of the inbox, which are not later
\* than now, and was asked in this connection or an earlier one.
Known(j) ==
    /\ j.gen <= generation /\ j.msgs \subseteq Inbox
    /\ j.kind = "fetch" => \E m \in Inbox : j.msgs = {m}
    /\ j.kind = "list" => j.after # None
AllKnown ==
    /\ \A m \in Inbox : stamp[m] <= now
    /\ Stored \subseteq Inbox /\ remembered \subseteq Inbox /\ Announced \subseteq Inbox
    /\ live = None \/ live \subseteq Inbox
    /\ \A j \in Queued : Known(j)
    /\ \A a \in Ended : Known(a.job) /\ a.plan \subseteq Inbox

\* What is planned or about to be stored is not older than the floor of its scan.
AboveFloor ==
    /\ scan # None => scan.since >= scan.floor
    /\ \A j \in Queued : j.kind = "store" => \A m \in j.msgs : stamp[m] >= j.floor
    /\ \A a \in Ended : \A m \in a.plan : stamp[m] >= a.job.floor

\* Two operations of one connection that must not both be under way: two fetches
\* of one message, or two of listing and storing.
Rival(j, k) ==
    /\ j.gen = k.gen
    /\ IF j.kind = "fetch" THEN k.kind = "fetch" /\ j.msgs = k.msgs ELSE k.kind # "fetch"
Apart ==
    /\ Ordered(queue) /\ Once(queue) /\ Once(done) /\ Once(pushes)
    /\ \A j, k \in Queued : Rival(j, k) => j = k
    /\ \A a, b \in Ended : Rival(a.job, b.job) => a = b
    /\ \A j \in Queued, a \in Ended : ~Rival(j, a.job)

\* Of this connection.
Ours(j) == j.gen = generation
Switches ==
    /\ timer \/ busy => liveAfter # None
    /\ live # None \/ rerun => busy
    /\ timer => ~busy
Flags ==
    /\ Switches
    /\ scan # None => queue # <<>> /\ Head(queue).kind = "list"
    /\ \A j \in Queued : Ours(j) /\ j.kind # "fetch" =>
          busy /\ (j.kind = "list" => live # None)
    /\ \A a \in Ended : Ours(a.job) /\ a.job.kind # "fetch" =>
          /\ busy /\ (a.job.kind = "list" => live # None)
          /\ \A j \in Queued : j.kind # "store" /\ (a.job.kind = "list" => j.kind = "fetch")

\* The message is announced or being fetched, and will be delivered live.
Fetches(j, m) == j.kind = "fetch" /\ Ours(j) /\ m \in j.msgs
Pending(m) ==
    \/ m \in Announced
    \/ \E j \in Queued : Fetches(j, m)
    \/ \E a \in Ended : Fetches(a.job, m)
PendingOnce ==
    \A m \in Announced :
        /\ \A j \in Queued : ~Fetches(j, m)
        /\ \A a \in Ended : ~Fetches(a.job, m)

\* A message that is yet to come is not stored, or known to be stored already.
LiveOnce ==
    /\ \A m \in Message : copies[m] <= 1 /\ (copies[m] > 0 => m \in Stored)
    /\ \A m \in Message : Pending(m) => copies[m] = 0 \/ m \in remembered

\* Of a store: none of its messages is in history, nor will be by a live delivery.
StoreOnce(j) ==
    \A m \in j.msgs :
        /\ copies[m] = 0
        /\ Pending(m) => m \in remembered /\ Ours(j)
\* Of an ended store: its messages may be forgotten when it failed.
EndedOnce(a) ==
    \A m \in a.job.msgs : Pending(m) =>
        Ours(a.job) /\ (a.outcome # "ok" => copies[m] = 0)
Unstored(m) == copies[m] = 0 \/ m \in live
PlansOnce ==
    /\ \A j \in Queued : j.kind = "store" => StoreOnce(j)
    /\ \A a \in Ended : a.job.kind = "store" => EndedOnce(a)
    /\ scan # None /\ Ours(Head(queue)) => \A m \in Inbox \ scan.stored : Unstored(m)
    /\ \A a \in Ended : a.job.kind = "list" /\ Ours(a.job) => \A m \in a.plan : Unstored(m)

BackfillInv ==
    Typed /\ AllKnown /\ AboveFloor /\ Apart /\ Flags
    /\ PendingOnce /\ LiveOnce /\ PlansOnce

LEMMA InboxKnown == Typed => Inbox = 1 .. Len(stamp) /\ Inbox \subseteq Message
BY BackfillAssumption DEF Typed, Inbox, Message

-----------------------------------------------------------------------------
(***************************************************************************)
(* The effects of the operations of the queues.                            *)
(***************************************************************************)

\* The worker takes the first operation of the queue and hands its outcome over.
Like(j, k) == j.kind = k.kind /\ j.gen = k.gen /\ j.msgs = k.msgs

LEMMA EndEffect ==
    ASSUME BackfillInv, queue # <<>>, NEW a \in Outcome, Like(a.job, Head(queue)),
           queue' = Tail(queue), done' = Append(done, a),
           UNCHANGED <<pushes, generation>>
    PROVE  /\ Head(queue) \in Queued /\ Head(queue) \in Job
           /\ queue' \in Seq(Job) /\ done' \in Seq(Outcome)
           /\ Queued' = Queued \ {Head(queue)} /\ Ended' = Ended \cup {a}
           /\ Announced' = Announced
           /\ \A j \in Queued' : Ahead(Head(queue), j)
           /\ Apart' /\ PendingOnce'
           /\ \A m : Pending(m)' => Pending(m)
<1> DEFINE h == Head(queue)
<1>1. /\ h \in Queued /\ h \in Job /\ queue' \in Seq(Job)
      /\ Queued' = Queued \ {h} /\ Once(queue') /\ Ordered(queue')
      /\ \A j \in Queued' : Ahead(h, j)
  BY TailOnce DEF BackfillInv, Typed, Apart, Queued
<1> HIDE DEF h
<1>2. \A b \in Ended : ~Rival(h, b.job)
  BY <1>1 DEF BackfillInv, Apart
<1>3. a \notin Ended
  BY <1>2 DEF Rival, Like, h
<1>4. done' \in Seq(Outcome) /\ Ended' = Ended \cup {a} /\ Once(done')
  BY <1>3, AppendOnce DEF BackfillInv, Typed, Apart, Ended
<1>5. Announced' = Announced /\ Once(pushes')
  BY DEF BackfillInv, Announced, Apart
<1>6. Like(a.job, h)
  BY DEF h
<1>7. Apart'
  <2>1. \A j, k \in Queued' : Rival(j, k) => j = k
    BY <1>1 DEF BackfillInv, Apart
  <2>2. \A b, c \in Ended' : Rival(b.job, c.job) => b = c
    BY <1>2, <1>4, <1>6 DEF BackfillInv, Apart, Rival, Like
  <2>3. \A j \in Queued', b \in Ended' : ~Rival(j, b.job)
    BY <1>1, <1>4, <1>6 DEF BackfillInv, Apart, Rival, Like
  <2> QED
    BY <1>1, <1>4, <1>5, <2>1, <2>2, <2>3 DEF Apart
<1>8. PendingOnce'
  BY <1>1, <1>4, <1>5, <1>6 DEF BackfillInv, PendingOnce, Fetches, Ours, Like
<1>9. \A m : Pending(m)' => Pending(m)
  BY <1>1, <1>4, <1>5, <1>6 DEF Pending, Fetches, Ours, Like
<1> QED
  BY <1>1, <1>4, <1>5, <1>7, <1>8, <1>9 DEF h

\* The main loop gives the worker one more operation.
LEMMA QueueEffect ==
    ASSUME BackfillInv, NEW j \in Job, queue' = Append(queue, j),
           Ended' \subseteq Ended, Once(done'), Once(pushes'),
           \A k \in Queued : ~Rival(j, k) /\ Ahead(k, j),
           \A a \in Ended' : ~Rival(j, a.job)
    PROVE  queue' \in Seq(Job) /\ Queued' = Queued \cup {j} /\ Apart'
<1>1. j \notin Queued
  BY DEF Rival
<1>2. /\ queue' \in Seq(Job) /\ Queued' = Queued \cup {j}
      /\ Once(queue') /\ Ordered(queue')
  BY <1>1, AppendOnce DEF BackfillInv, Typed, Apart, Queued
<1>3. \A k, l \in Queued' : Rival(k, l) => k = l
  BY <1>2 DEF BackfillInv, Apart, Rival
<1>4. \A a, b \in Ended' : Rival(a.job, b.job) => a = b
  BY DEF BackfillInv, Apart
<1>5. \A k \in Queued', a \in Ended' : ~Rival(k, a.job)
  BY <1>2 DEF BackfillInv, Apart
<1> QED
  BY <1>2, <1>3, <1>4, <1>5 DEF Apart

\* The main loop takes the first outcome.
LEMMA AnswerEffect ==
    ASSUME BackfillInv, done # <<>>, done' = Tail(done)
    PROVE  /\ Answer \in Ended /\ Answer \in Outcome
           /\ done' \in Seq(Outcome) /\ Ended' = Ended \ {Answer} /\ Once(done')
BY TailOnce DEF BackfillInv, Typed, Apart, Ended, Answer

\* Dropping operations keeps them apart.
LEMMA FewerApart ==
    ASSUME BackfillInv, UNCHANGED queue, Ended' \subseteq Ended, Once(done'), Once(pushes')
    PROVE  Apart' /\ Queued' = Queued
<1>1. Queued' = Queued
  BY DEF Queued
<1> QED
  BY <1>1 DEF BackfillInv, Apart

\* Without the messages or the operations changing nothing is announced.
LEMMA FewerPending ==
    ASSUME BackfillInv, UNCHANGED generation,
           Announced' \subseteq Announced, Queued' \subseteq Queued, Ended' \subseteq Ended
    PROVE  PendingOnce' /\ \A m : Pending(m)' => Pending(m)
BY DEF BackfillInv, PendingOnce, Pending, Fetches, Ours

\* A step of the clock and of the flags leaves the rest as it is.
LEMMA SameFlights ==
    ASSUME BackfillInv, now' \in Nat, now' >= now,
           UNCHANGED <<stamp, pushes, queue, scan, done, generation, live, remembered,
                       history, copies>>
    PROVE  AllKnown' /\ AboveFloor' /\ Apart' /\ PendingOnce' /\ LiveOnce' /\ PlansOnce'
<1>1. /\ Queued' = Queued /\ Ended' = Ended /\ Announced' = Announced
      /\ Stored' = Stored /\ Inbox' = Inbox
  BY DEF Queued, Ended, Announced, Stored, Inbox
<1>2. PendingOnce' /\ \A m : Pending(m)' => Pending(m)
  BY <1>1, FewerPending
<1>3. AllKnown'
  BY <1>1, InboxKnown DEF BackfillInv, AllKnown, Known, Typed
<1>4. AboveFloor'
  BY <1>1 DEF BackfillInv, AboveFloor
<1>5. Apart'
  BY <1>1 DEF BackfillInv, Apart
<1>6. LiveOnce'
  BY <1>1, <1>2 DEF BackfillInv, LiveOnce
<1>7. PlansOnce'
  BY <1>1, <1>2 DEF BackfillInv, PlansOnce, StoreOnce, EndedOnce, Unstored, Ours
<1> QED
  BY <1>2, <1>3, <1>4, <1>5, <1>6, <1>7

-----------------------------------------------------------------------------
(***************************************************************************)
(* The invariant holds initially, and every action keeps it.               *)
(***************************************************************************)

LEMMA BackfillInit == Init => BackfillInv
<1> SUFFICES ASSUME Init PROVE BackfillInv
  OBVIOUS
<1>1. /\ Queued = {} /\ Ended = {} /\ Announced = {} /\ Stored = {} /\ Inbox = {}
      /\ Once(queue) /\ Once(done) /\ Once(pushes) /\ Ordered(queue)
  BY DEF Init, Queued, Ended, Announced, Stored, Inbox, Elems, Once, Ordered
<1>2. Typed
  <2>1. stamp \in Seq(Nat) /\ Len(stamp) <= MaxMessages
    BY BackfillAssumption DEF Init
  <2>2. /\ queue \in Seq(Job) /\ done \in Seq(Outcome) /\ pushes \in Seq(Message)
        /\ copies \in [Message -> Nat] /\ scan \in Scan \cup {None}
        /\ history \in SUBSET Row /\ remembered \in SUBSET Message
    BY DEF Init
  <2> QED
    BY <2>1, <2>2 DEF Init, Typed
<1>3. AllKnown /\ AboveFloor /\ Apart /\ PendingOnce
  BY <1>1 DEF Init, AllKnown, AboveFloor, Apart, PendingOnce
<1>4. Flags
  BY <1>1 DEF Init, Flags, Switches
<1>5. LiveOnce /\ PlansOnce
  BY <1>1 DEF Init, LiveOnce, PlansOnce, Pending
<1> QED
  BY <1>2, <1>3, <1>4, <1>5 DEF BackfillInv

\* request() sets the timer, or remembers the request when a backfill is busy.
LEMMA RequestKeeps ==
    ASSUME BackfillInv, NEW able \in BOOLEAN, Request(able),
           UNCHANGED <<queue, scan, done, generation, busy, live>>
    PROVE  /\ Flags'
           /\ liveAfter' \in Nat \cup {None} /\ rerun' \in BOOLEAN /\ timer' \in BOOLEAN
<1>1. Queued' = Queued /\ Ended' = Ended
  BY DEF Queued, Ended
<1>2. /\ liveAfter' \in Nat \cup {None} /\ rerun' \in BOOLEAN /\ timer' \in BOOLEAN
      /\ Switches'
  BY BackfillAssumption DEF BackfillInv, Typed, Flags, Switches, Request, Schedule
<1>3. Flags'
  BY <1>1, <1>2 DEF BackfillInv, Flags, Ours
<1> QED
  BY <1>2, <1>3

\* _finish() ends the backfill of this connection, and leaves one of another alone.
LEMMA FinishKeeps ==
    ASSUME BackfillInv, NEW gen, Finish(gen)
    PROVE  /\ Switches'
           /\ liveAfter' \in Nat \cup {None} /\ rerun' \in BOOLEAN /\ timer' \in BOOLEAN
           /\ busy' \in BOOLEAN
           /\ gen = generation => live' = None /\ ~busy'
           /\ gen # generation => live' = live /\ busy' = busy
<1>1. CASE gen # generation
  BY <1>1 DEF BackfillInv, Typed, Flags, Switches, Finish
<1>2. CASE gen = generation
  BY <1>2, BackfillAssumption DEF BackfillInv, Typed, Flags, Switches, Finish, Schedule
<1> QED
  BY <1>1, <1>2

LEMMA ConnectKeeps == BackfillInv /\ Connect => BackfillInv'
<1> SUFFICES ASSUME BackfillInv, Connect PROVE BackfillInv'
  OBVIOUS
<1>1. UNCHANGED <<now, stamp, mns, pushes, queue, scan, done, busy, generation, live,
                  remembered, enabled, history, copies, floor, trouble>>
  BY DEF Connect, phoneVars, workVars, storeVars
<1>2. enabled \in BOOLEAN /\ now \in Nat
  BY DEF BackfillInv, Typed
<1>3. /\ Flags'
      /\ liveAfter' \in Nat \cup {None} /\ rerun' \in BOOLEAN /\ timer' \in BOOLEAN
  BY <1>1, <1>2, RequestKeeps DEF Connect
<1>4. PassedOver \in BOOLEAN
  BY DEF PassedOver
<1>5. Typed'
  BY <1>1, <1>3, <1>4, Zenon DEF BackfillInv, Typed, Connect, Inbox
<1> QED
  BY <1>1, <1>2, <1>3, <1>5, SameFlights DEF BackfillInv

LEMMA MnsUpKeeps == BackfillInv /\ MnsUp => BackfillInv'
<1> SUFFICES ASSUME BackfillInv, MnsUp PROVE BackfillInv'
  OBVIOUS
<1>1. UNCHANGED <<now, stamp, connected, pushes, queue, scan, done, busy, generation, live,
                  remembered, enabled, history, copies, floor, owing, gapped, trouble>>
  BY DEF MnsUp, workVars, storeVars
<1>2. enabled \in BOOLEAN /\ now \in Nat
  BY DEF BackfillInv, Typed
<1>3. /\ Flags'
      /\ liveAfter' \in Nat \cup {None} /\ rerun' \in BOOLEAN /\ timer' \in BOOLEAN
  BY <1>1, <1>2, RequestKeeps DEF MnsUp
<1>4. Typed'
  BY <1>1, <1>3, Zenon DEF BackfillInv, Typed, MnsUp, Inbox
<1> QED
  BY <1>1, <1>2, <1>3, <1>4, SameFlights DEF BackfillInv

LEMMA StorageChangedKeeps == BackfillInv /\ StorageChanged => BackfillInv'
<1> SUFFICES ASSUME BackfillInv, StorageChanged PROVE BackfillInv'
  OBVIOUS
<1>1. UNCHANGED <<now, stamp, mns, connected, pushes, queue, scan, done, busy, generation,
                  live, remembered, history, copies, floor, gapped>>
  BY DEF StorageChanged, phoneVars, workVars
<1>2. (connected /\ ~enabled) \in BOOLEAN /\ now \in Nat
  BY DEF BackfillInv, Typed
<1>3. /\ Flags'
      /\ liveAfter' \in Nat \cup {None} /\ rerun' \in BOOLEAN /\ timer' \in BOOLEAN
  BY <1>1, <1>2, RequestKeeps DEF StorageChanged
<1>4. enabled' \in BOOLEAN /\ owing' \in BOOLEAN /\ trouble' \in Nat
  BY DEF BackfillInv, Typed, StorageChanged, Disturb
<1>5. Typed'
  BY <1>1, <1>3, <1>4, Zenon DEF BackfillInv, Typed, Inbox
<1> QED
  BY <1>1, <1>2, <1>3, <1>5, SameFlights DEF BackfillInv

\* The clock, and a MNS connection that ends.
LEMMA TickKeeps == BackfillInv /\ (Tick \/ MnsDown \/ UNCHANGED vars) => BackfillInv'
<1> SUFFICES ASSUME BackfillInv, Tick \/ MnsDown \/ UNCHANGED vars PROVE BackfillInv'
  OBVIOUS
<1>1. /\ UNCHANGED <<stamp, connected, pushes, queue, scan, done, timer, busy, rerun,
                     generation, liveAfter, live, remembered, enabled, history, copies,
                     floor, owing, gapped>>
      /\ now' \in Nat /\ now' >= now /\ mns' \in BOOLEAN /\ trouble' \in Nat
  <2>1. now \in Nat /\ mns \in BOOLEAN /\ trouble \in Nat
    BY DEF BackfillInv, Typed
  <2>2. CASE Tick
    BY <2>1, <2>2 DEF Tick, workVars, backfillVars, storeVars
  <2>3. CASE MnsDown
    <3>1. UNCHANGED <<now, stamp, connected, workVars, backfillVars, storeVars, pushes,
                      owing, gapped>>
      BY <2>3 DEF MnsDown
    <3>2. mns' \in BOOLEAN
      BY <2>3, Zenon DEF MnsDown
    <3>3. trouble' = trouble + 1
      BY <2>3, Zenon DEF MnsDown, Disturb
    <3> QED
      BY <2>1, <3>1, <3>2, <3>3 DEF workVars, backfillVars, storeVars
  <2>4. CASE UNCHANGED vars
    BY <2>1, <2>4 DEF vars, phoneVars, workVars, backfillVars, storeVars
  <2> QED
    BY <2>2, <2>3, <2>4
<1>2. Queued' = Queued /\ Ended' = Ended
  BY <1>1 DEF Queued, Ended
<1>3. Flags'
  BY <1>1, <1>2 DEF BackfillInv, Flags, Switches, Ours
<1>4. Typed'
  BY <1>1, Zenon DEF BackfillInv, Typed, Inbox
<1> QED
  BY <1>1, <1>3, <1>4, SameFlights DEF BackfillInv

\* The timer fires: the listing is queued behind what was asked before.
LEMMA FireKeeps ==
    ASSUME BackfillInv, NEW ok \in BOOLEAN, Fire(ok)
    PROVE  BackfillInv'
<1>1. /\ UNCHANGED <<now, stamp, mns, connected, pushes, scan, done, rerun, generation,
                     liveAfter, remembered, enabled, history, copies, floor, gapped>>
      /\ timer /\ ~timer' /\ timer' \in BOOLEAN
      /\ trouble' \in Nat /\ now \in Nat /\ owing' \in BOOLEAN
  <2>1. now \in Nat /\ trouble \in Nat
    BY DEF BackfillInv, Typed
  <2>2. trouble' \in Nat
    BY <2>1 DEF Fire, Fate, Disturb
  <2> QED
    BY <2>1, <2>2 DEF Fire, phoneVars, storeVars
<1>2. CASE enabled /\ ok
  <2>1. busy' = TRUE /\ live' = {} /\ queue' = Append(queue, Listing)
    BY <1>2 DEF Fire
  <2>2. ~busy /\ liveAfter # None /\ liveAfter \in Nat
    BY <1>1 DEF BackfillInv, Flags, Switches, Typed
  <2>3. Listing \in Job /\ Known(Listing) /\ Listing.kind = "list" /\ Listing.gen = generation
    BY <2>2 DEF Listing, Job, Known, BackfillInv, Typed
  <2>4. /\ Ended' = Ended /\ Once(done') /\ Once(pushes') /\ Announced' = Announced
        /\ Stored' = Stored /\ Inbox' = Inbox
    BY <1>1 DEF Ended, Announced, Stored, Inbox, BackfillInv, Apart
  <2>5. /\ \A k \in Queued : ~Rival(Listing, k) /\ Ahead(k, Listing)
        /\ \A a \in Ended : ~Rival(Listing, a.job)
    <3>1. /\ \A k \in Queued : Ours(k) => k.kind = "fetch"
          /\ \A a \in Ended : Ours(a.job) => a.job.kind = "fetch"
          /\ \A k \in Queued : k.gen \in Nat /\ k.gen <= generation
      <4>1. \A k \in Queued : k \in Job
        BY DEF BackfillInv, Typed, Queued, Elems
      <4> QED
        BY <2>2, <4>1 DEF BackfillInv, Flags, AllKnown, Known, Job
    <3> QED
      BY <2>3, <3>1 DEF Rival, Ahead, Ours, BackfillInv, Typed
  <2>6. queue' \in Seq(Job) /\ Queued' = Queued \cup {Listing} /\ Apart'
    BY <2>1, <2>3, <2>4, <2>5, QueueEffect
  <2>7. Typed'
    BY <1>1, <2>1, <2>6 DEF BackfillInv, Typed, Inbox
  <2>8. AllKnown'
    BY <1>1, <2>1, <2>3, <2>4, <2>6 DEF BackfillInv, AllKnown, Known
  <2>9. AboveFloor'
    BY <1>1, <2>3, <2>4, <2>6 DEF BackfillInv, AboveFloor
  <2>10. scan # None => queue # <<>> /\ Head(queue).kind = "list" /\ Head(queue') = Head(queue)
                        /\ queue' # <<>>
    BY <2>1, <2>3, HeadStays DEF BackfillInv, Flags, Typed
  <2>11. live' # None
    BY <2>1, BackfillAssumption DEF Message
  <2>12. Flags'
    <3>1. Switches'
      BY <1>1, <2>1, <2>2 DEF Switches, BackfillInv, Flags
    <3>2. \A a \in Ended' : Ours(a.job)' => a.job.kind = "fetch"
      BY <1>1, <2>2, <2>4 DEF BackfillInv, Flags, Ours
    <3> QED
      BY <1>1, <2>1, <2>6, <2>10, <2>11, <3>1, <3>2 DEF Flags, Ours
  <2>13. PendingOnce' /\ \A m : Pending(m)' => Pending(m)
    BY <1>1, <2>3, <2>4, <2>6 DEF BackfillInv, PendingOnce, Pending, Fetches, Ours
  <2>14. LiveOnce'
    BY <1>1, <2>4, <2>13 DEF BackfillInv, LiveOnce
  <2>15. PlansOnce'
    <3>1. scan # None => ~Ours(Head(queue))
      <4>1. scan # None => Head(queue) \in Queued
        BY <2>10, TailOnce DEF BackfillInv, Typed, Queued
      <4> QED
        BY <2>2, <2>10, <4>1 DEF BackfillInv, Flags
    <3>2. /\ \A j \in Queued' : j.kind = "store" => StoreOnce(j)'
          /\ \A a \in Ended' : a.job.kind = "store" => EndedOnce(a)'
      BY <1>1, <2>3, <2>4, <2>6, <2>13 DEF BackfillInv, PlansOnce, StoreOnce, EndedOnce, Ours
    <3>3. \A a \in Ended' : a.job.kind = "list" => ~Ours(a.job)'
      BY <1>1, <2>2, <2>4 DEF BackfillInv, Flags, Ours
    <3> QED
      BY <1>1, <2>10, <3>1, <3>2, <3>3 DEF PlansOnce, Ours
  <2> QED
    BY <2>6, <2>7, <2>8, <2>9, <2>12, <2>13, <2>14, <2>15 DEF BackfillInv
<1>3. CASE ~(enabled /\ ok)
  <2>1. UNCHANGED <<busy, live, queue>>
    BY <1>3 DEF Fire
  <2>2. Queued' = Queued /\ Ended' = Ended
    BY <1>1, <2>1 DEF Queued, Ended
  <2>3. Flags'
    BY <1>1, <2>1, <2>2 DEF BackfillInv, Flags, Switches, Ours
  <2>4. Typed'
    BY <1>1, <2>1, Zenon DEF BackfillInv, Typed, Inbox
  <2> QED
    BY <1>1, <2>1, <2>3, <2>4, SameFlights DEF BackfillInv
<1> QED
  BY <1>2, <1>3

\* The worker ends an operation without writing to history.
LEMMA EndKeeps ==
    ASSUME BackfillInv, queue # <<>>, NEW a \in Outcome,
           Like(a.job, Head(queue)), a.job.after = Head(queue).after,
           queue' = Tail(queue), done' = Append(done, a), scan' = None,
           UNCHANGED <<now, stamp, mns, connected, pushes, timer, busy, rerun, generation,
                       liveAfter, live, remembered, enabled, history, copies, floor,
                       owing, gapped>>,
           trouble' \in Nat,
           a.plan \subseteq Inbox, \A m \in a.plan : stamp[m] >= a.job.floor,
           Ours(a.job) /\ a.job.kind = "list" => \A m \in a.plan : Unstored(m)
    PROVE  BackfillInv'
<1> DEFINE h == Head(queue)
<1>1. /\ h \in Queued /\ h \in Job
      /\ queue' \in Seq(Job) /\ done' \in Seq(Outcome)
      /\ Queued' = Queued \ {h} /\ Ended' = Ended \cup {a}
      /\ Announced' = Announced
      /\ \A j \in Queued' : Ahead(h, j)
      /\ Apart' /\ PendingOnce'
      /\ \A m : Pending(m)' => Pending(m)
  BY EndEffect
<1>2. Like(a.job, h) /\ a.job.after = h.after
  OBVIOUS
<1> HIDE DEF h
<1>3. Stored' = Stored /\ Inbox' = Inbox
  BY DEF Stored, Inbox
<1>4. Typed'
  BY <1>1 DEF BackfillInv, Typed
<1>5. AllKnown'
  <2>1. Known(a.job)
    BY <1>1, <1>2 DEF BackfillInv, AllKnown, Known, Like
  <2> QED
    BY <1>1, <1>3, <2>1 DEF BackfillInv, AllKnown, Known
<1>6. AboveFloor'
  BY <1>1 DEF BackfillInv, AboveFloor
<1>7. Flags'
  <2>1. Switches'
    BY DEF BackfillInv, Flags, Switches
  <2>2. \A j \in Queued' : Ours(j)' /\ j.kind # "fetch" => busy' /\ (j.kind = "list" => live' # None)
    BY <1>1 DEF BackfillInv, Flags, Ours
  <2>3. \A b \in Ended : Ours(b.job)' /\ b.job.kind # "fetch" =>
          /\ busy' /\ (b.job.kind = "list" => live' # None)
          /\ \A j \in Queued' : j.kind # "store" /\ (b.job.kind = "list" => j.kind = "fetch")
    BY <1>1 DEF BackfillInv, Flags, Ours
  <2>4. Ours(a.job)' /\ a.job.kind # "fetch" =>
          /\ busy' /\ (a.job.kind = "list" => live' # None)
          /\ \A j \in Queued' : j.kind # "store" /\ (a.job.kind = "list" => j.kind = "fetch")
    <3>1. \A j \in Queued' : j.kind \in {"fetch", "list", "store"} /\ j.gen \in Nat /\ j.gen <= generation
      <4>1. \A j \in Queued : j \in Job
        BY DEF BackfillInv, Typed, Queued, Elems
      <4> QED
        BY <1>1, <4>1 DEF BackfillInv, AllKnown, Known, Job
    <3>2. generation \in Nat
      BY DEF BackfillInv, Typed
    <3> SUFFICES ASSUME Ours(a.job)', a.job.kind # "fetch"
                 PROVE  /\ busy' /\ (a.job.kind = "list" => live' # None)
                        /\ \A j \in Queued' : j.kind # "store" /\ (a.job.kind = "list" => j.kind = "fetch")
      OBVIOUS
    <3>3. Ours(h) /\ h.kind # "fetch" /\ h.kind = a.job.kind /\ h.gen = generation
      BY <1>2 DEF Ours, Like
    <3>4. busy' /\ (a.job.kind = "list" => live' # None)
      BY <1>1, <3>3 DEF BackfillInv, Flags
    <3>5. \A j \in Queued' : j.kind # "store" /\ (h.kind = "list" /\ j.kind = "list" => h.gen < j.gen)
      BY <1>1, <3>3 DEF Ahead
    <3> QED
      BY <3>1, <3>2, <3>3, <3>4, <3>5
  <2> QED
    BY <1>1, <2>1, <2>2, <2>3, <2>4 DEF Flags
<1>8. LiveOnce'
  BY <1>1, <1>3 DEF BackfillInv, LiveOnce
<1>9. PlansOnce'
  <2>1. \A j \in Queued' : j.kind = "store" => StoreOnce(j)'
    BY <1>1 DEF BackfillInv, PlansOnce, StoreOnce, Ours
  <2>2. \A b \in Ended : b.job.kind = "store" => EndedOnce(b)'
    BY <1>1 DEF BackfillInv, PlansOnce, EndedOnce, Ours
  <2>3. a.job.kind = "store" => EndedOnce(a)'
    BY <1>1, <1>2 DEF BackfillInv, PlansOnce, StoreOnce, EndedOnce, Ours, Like
  <2>4. \A b \in Ended' : b.job.kind = "list" /\ Ours(b.job)' => \A m \in b.plan : Unstored(m)'
    BY <1>1 DEF BackfillInv, PlansOnce, Unstored, Ours
  <2> QED
    BY <1>1, <2>1, <2>2, <2>3, <2>4 DEF PlansOnce
<1> QED
  BY <1>1, <1>4, <1>5, <1>6, <1>7, <1>8, <1>9 DEF BackfillInv

LEMMA HeadKnown ==
    ASSUME BackfillInv, queue # <<>>
    PROVE  Head(queue) \in Queued /\ Head(queue) \in Job /\ Known(Head(queue))
<1>1. Head(queue) \in Queued /\ Head(queue) \in Job
  BY TailOnce DEF BackfillInv, Typed, Queued
<1> QED
  BY <1>1 DEF BackfillInv, AllKnown

LEMMA RunFetchKeeps ==
    ASSUME BackfillInv, NEW ok \in BOOLEAN, RunFetch(ok)
    PROVE  BackfillInv'
<1> DEFINE a == [job |-> Head(queue), outcome |-> IF ok THEN "ok" ELSE "failed", plan |-> {}]
<1>1. queue # <<>> /\ Head(queue).kind = "fetch"
  BY DEF RunFetch, Running
<1>2. a \in Outcome /\ Like(a.job, Head(queue)) /\ a.job.after = Head(queue).after
  BY <1>1, HeadKnown DEF Outcome, Like
<1>3. scan = None
  BY <1>1 DEF BackfillInv, Flags
<1>4. trouble' \in Nat
  BY DEF BackfillInv, Typed, RunFetch, Fate, Disturb
<1>5. /\ queue' = Tail(queue) /\ done' = Append(done, a) /\ scan' = None
      /\ UNCHANGED <<now, stamp, mns, connected, pushes, timer, busy, rerun, generation,
                     liveAfter, live, remembered, enabled, history, copies, floor,
                     owing, gapped>>
  BY <1>3 DEF RunFetch, Ends, phoneVars, backfillVars
<1>6. a.plan = {} /\ a.job.kind = "fetch"
  BY <1>1
<1> HIDE DEF a
<1> QED
  BY <1>1, <1>2, <1>4, <1>5, <1>6, EndKeeps

\* A listing's scan sees what is stored, and starts at or above the floor.
LEMMA SinceAboveFloor ==
    ASSUME BackfillInv, NEW t \in Nat
    PROVE  BackfillSince(t) \in Nat /\ BackfillSince(t) >= floor
<1> DEFINE T == {floor} \cup {u - Margin : u \in {v \in CountingOld(t) : v > Margin}}
<1>1. \A u \in CountingOld(t) : u \in Nat /\ u <= now
  <2>1. \A r \in history : r.msg \in Inbox
    BY DEF BackfillInv, AllKnown, Stored
  <2>2. \A m \in Inbox : stamp[m] \in Nat /\ stamp[m] <= now
    BY DEF BackfillInv, AllKnown, Typed, Inbox
  <2> QED
    BY <2>1, <2>2 DEF CountingOld
<1>2. T \in SUBSET Nat /\ T # {} /\ floor \in T
  BY <1>1, BackfillAssumption DEF BackfillInv, Typed
<1>3. now + floor \in Nat /\ \A x \in T : x <= now + floor
  BY <1>1, BackfillAssumption DEF BackfillInv, Typed
<1> HIDE DEF T
<1>4. Max(T) \in T /\ \A y \in T : Max(T) >= y
  BY <1>2, <1>3, MaxOfBounded
<1>5. BackfillSince(t) = Max(T)
  BY DEF BackfillSince, T
<1> QED
  BY <1>2, <1>4, <1>5

LEMMA CollectKeeps == BackfillInv /\ Collect => BackfillInv'
<1> SUFFICES ASSUME BackfillInv, Collect PROVE BackfillInv'
  OBVIOUS
<1>1. /\ queue # <<>> /\ Head(queue).kind = "list" /\ scan = None
      /\ UNCHANGED <<now, stamp, mns, connected, pushes, timer, busy, rerun, generation,
                     liveAfter, live, remembered, enabled, history, copies, floor,
                     owing, gapped, trouble>>
  BY DEF Collect, Running, phoneVars, backfillVars, storeVars
<1>2. trouble \in Nat /\ now \in Nat
  BY DEF BackfillInv, Typed
<1>3. CASE enabled
  <2>1. /\ UNCHANGED <<queue, done>>
        /\ scan' = [stored |-> Stored, floor |-> floor, since |-> BackfillSince(Head(queue).after)]
    BY <1>3 DEF Collect
  <2>2. Head(queue).after \in Nat
    BY <1>1, HeadKnown DEF Known, Job
  <2>3. BackfillSince(Head(queue).after) \in Nat /\ BackfillSince(Head(queue).after) >= floor
    BY <2>2, SinceAboveFloor
  <2>4. Stored \subseteq Message /\ floor \in Nat
    BY InboxKnown DEF BackfillInv, AllKnown, Typed
  <2>5. scan' \in Scan /\ scan'.stored = Stored /\ scan'.since >= scan'.floor
    BY <2>1, <2>3, <2>4 DEF Scan
  <2>6. /\ Queued' = Queued /\ Ended' = Ended /\ Announced' = Announced
        /\ Stored' = Stored /\ Inbox' = Inbox
    BY <1>1, <2>1 DEF Queued, Ended, Announced, Stored, Inbox
  <2>7. PendingOnce' /\ \A m : Pending(m)' => Pending(m)
    BY <1>1, <2>6, FewerPending
  <2>8. Typed'
    BY <1>1, <2>1, <2>5 DEF BackfillInv, Typed
  <2>9. AllKnown'
    BY <1>1, <2>6 DEF BackfillInv, AllKnown, Known
  <2>10. AboveFloor'
    BY <1>1, <2>5, <2>6 DEF BackfillInv, AboveFloor
  <2>11. Apart'
    BY <1>1, <2>1, <2>6 DEF BackfillInv, Apart
  <2>12. Flags'
    BY <1>1, <2>1, <2>6 DEF BackfillInv, Flags, Switches, Ours
  <2>13. LiveOnce'
    BY <1>1, <2>6, <2>7 DEF BackfillInv, LiveOnce
  <2>14. PlansOnce'
    <3>1. \A m \in Inbox' \ scan'.stored : Unstored(m)'
      <4>1. \A m \in Inbox : copies[m] \in Nat /\ (copies[m] > 0 => m \in Stored)
        BY InboxKnown DEF BackfillInv, LiveOnce, Typed
      <4> QED
        BY <1>1, <2>5, <2>6, <4>1 DEF Unstored
    <3> QED
      BY <1>1, <2>6, <2>7, <3>1 DEF BackfillInv, PlansOnce, StoreOnce, EndedOnce, Unstored, Ours
  <2> QED
    BY <2>7, <2>8, <2>9, <2>10, <2>11, <2>12, <2>13, <2>14 DEF BackfillInv
<1>4. CASE ~enabled
  <2> DEFINE a == [job |-> Head(queue), outcome |-> "failed", plan |-> {}]
  <2>1. queue' = Tail(queue) /\ done' = Append(done, a) /\ scan' = None
    BY <1>1, <1>4 DEF Collect
  <2>2. /\ a \in Outcome /\ Like(a.job, Head(queue)) /\ a.job.after = Head(queue).after
        /\ a.plan = {}
    BY <1>1, HeadKnown DEF Outcome, Like
  <2> HIDE DEF a
  <2> QED
    BY <1>1, <1>2, <2>1, <2>2, EndKeeps
<1> QED
  BY <1>3, <1>4

LEMMA ListInboxKeeps ==
    ASSUME BackfillInv, NEW ok \in BOOLEAN, ListInbox(ok)
    PROVE  BackfillInv'
<1> DEFINE a == [job |-> [Head(queue) EXCEPT !.floor = scan.floor],
                 outcome |-> IF ok THEN "ok" ELSE "failed",
                 plan |-> IF ok THEN Unmatched ELSE {}]
<1>1. /\ queue # <<>> /\ Head(queue).kind = "list" /\ scan # None
      /\ queue' = Tail(queue) /\ done' = Append(done, a) /\ scan' = None
      /\ UNCHANGED <<now, stamp, mns, connected, pushes, timer, busy, rerun, generation,
                     liveAfter, live, remembered, enabled, history, copies, floor,
                     owing, gapped>>
  BY DEF ListInbox, Running, phoneVars, backfillVars, storeVars
<1>2. trouble' \in Nat
  BY DEF BackfillInv, Typed, ListInbox, Fate, Disturb
<1>3. scan \in Scan /\ Head(queue) \in Job
  BY <1>1, HeadKnown DEF BackfillInv, Typed
<1>4. a.plan \subseteq Inbox /\ Inbox \subseteq Message
  BY InboxKnown DEF BackfillInv, Unmatched
<1>5. /\ a \in Outcome /\ Like(a.job, Head(queue)) /\ a.job.after = Head(queue).after
      /\ a.job.floor = scan.floor
  <2>1. a.job \in Job /\ Like(a.job, Head(queue)) /\ a.job.after = Head(queue).after
        /\ a.job.floor = scan.floor
    BY <1>3 DEF Job, Scan, Like
  <2> QED
    BY <1>4, <2>1 DEF Outcome
<1>6. \A m \in a.plan : stamp[m] >= scan.since /\ m \in Inbox \ scan.stored
  BY DEF Unmatched
<1> HIDE DEF a
<1>7. \A m \in a.plan : stamp[m] >= a.job.floor
  <2>1. \A m \in Inbox : stamp[m] \in Nat
    BY DEF BackfillInv, Typed, Inbox
  <2>2. scan.since >= scan.floor /\ scan.since \in Nat /\ scan.floor \in Nat
    BY <1>1, <1>3 DEF BackfillInv, AboveFloor, Scan
  <2> QED
    BY <1>5, <1>6, <2>1, <2>2
<1>8. Ours(a.job) /\ a.job.kind = "list" => \A m \in a.plan : Unstored(m)
  BY <1>1, <1>5, <1>6 DEF BackfillInv, PlansOnce, Ours, Like
<1> QED
  BY <1>1, <1>2, <1>4, <1>5, <1>7, <1>8, EndKeeps

\* A store that succeeds: its messages were not in history, and none that is yet
\* to be delivered live is unknown to the main loop.
LEMMA StoredKeeps ==
    ASSUME BackfillInv, queue # <<>>, Head(queue).kind = "store",
           NEW a \in Outcome, a.job = Head(queue), a.outcome = "ok", a.plan = {},
           queue' = Tail(queue), done' = Append(done, a),
           history' = history \cup
               {[msg |-> m, seen |-> stamp[m], live |-> FALSE] : m \in Head(queue).msgs},
           copies' = [m \in Message |->
                          IF m \in Head(queue).msgs THEN copies[m] + 1 ELSE copies[m]],
           UNCHANGED <<now, stamp, mns, connected, pushes, scan, timer, busy, rerun,
                       generation, liveAfter, live, remembered, enabled, floor,
                       owing, gapped>>,
           trouble' \in Nat
    PROVE  BackfillInv'
<1> DEFINE h == Head(queue)
<1>1. /\ h \in Queued /\ h \in Job
      /\ queue' \in Seq(Job) /\ done' \in Seq(Outcome)
      /\ Queued' = Queued \ {h} /\ Ended' = Ended \cup {a}
      /\ Announced' = Announced
      /\ \A j \in Queued' : Ahead(h, j)
      /\ Apart' /\ PendingOnce'
      /\ \A m : Pending(m)' => Pending(m)
  BY EndEffect DEF Like
<1>2. Known(h) /\ a.job = h /\ h.kind = "store"
  BY HeadKnown
<1>3. /\ history' = history \cup {[msg |-> m, seen |-> stamp[m], live |-> FALSE] : m \in h.msgs}
      /\ copies' = [m \in Message |-> IF m \in h.msgs THEN copies[m] + 1 ELSE copies[m]]
  OBVIOUS
<1> HIDE DEF h
<1>4. Inbox' = Inbox /\ Inbox \subseteq Message /\ h.msgs \subseteq Inbox
  BY <1>2, InboxKnown DEF BackfillInv, Inbox, Known
<1>5. Stored' = Stored \cup h.msgs
  <2>1. Stored' = {r.msg : r \in history \cup {[msg |-> m, seen |-> stamp[m], live |-> FALSE] : m \in h.msgs}}
    BY <1>3 DEF Stored
  <2>2. \A m \in h.msgs : [msg |-> m, seen |-> stamp[m], live |-> FALSE].msg = m
    OBVIOUS
  <2>3. \A m \in Stored' : m \in Stored \cup h.msgs
    <3> TAKE m \in Stored'
    <3>1. PICK r \in history \cup {[msg |-> x, seen |-> stamp[x], live |-> FALSE] : x \in h.msgs} :
              m = r.msg
      BY <2>1, Zenon
    <3>2. CASE r \in history
      BY <3>1, <3>2, Zenon DEF Stored
    <3>3. CASE r \in {[msg |-> x, seen |-> stamp[x], live |-> FALSE] : x \in h.msgs}
      BY <3>1, <3>3
    <3> QED
      BY <3>2, <3>3
  <2>4. \A m \in h.msgs : m \in Stored'
    BY <2>1, <2>2, Zenon
  <2>5. \A m \in Stored : m \in Stored'
    BY <2>1, Zenon DEF Stored
  <2> QED
    BY <2>3, <2>4, <2>5
<1>6. copies \in [Message -> Nat] /\ copies' \in [Message -> Nat]
  BY <1>3 DEF BackfillInv, Typed
<1>7. scan = None /\ scan' = None
  BY <1>2 DEF BackfillInv, Flags, h
<1>8. \A m \in h.msgs : copies[m] = 0 /\ (Pending(m) => m \in remembered /\ Ours(h))
  BY <1>1, <1>2 DEF BackfillInv, PlansOnce, StoreOnce
<1>9. \A j \in Queued' : j.kind # "store"
  BY <1>1, <1>2 DEF Ahead
<1>10. \A b \in Ended : Ours(b.job) => b.job.kind # "list" /\ b.job.kind # "store"
  BY <1>1, <1>2 DEF BackfillInv, Flags
<1>11. Typed'
  <2>1. history' \in SUBSET Row
    <3>1. \A m \in h.msgs : stamp[m] \in Nat /\ m \in Message
      BY <1>4 DEF BackfillInv, Typed, Inbox
    <3>2. \A m \in h.msgs : [msg |-> m, seen |-> stamp[m], live |-> FALSE] \in Row
      BY <3>1 DEF Row
    <3>3. history \in SUBSET Row
      BY DEF BackfillInv, Typed
    <3> QED
      BY <1>3, <3>2, <3>3
  <2> QED
    BY <1>1, <1>6, <2>1 DEF BackfillInv, Typed
<1>12. AllKnown'
  BY <1>1, <1>2, <1>4, <1>5 DEF BackfillInv, AllKnown, Known
<1>13. AboveFloor'
  BY <1>1, <1>7 DEF BackfillInv, AboveFloor
<1>14. Flags'
  <2>1. Switches'
    BY DEF BackfillInv, Flags, Switches
  <2>3. \A j \in Queued' : Ours(j)' /\ j.kind # "fetch" => busy' /\ (j.kind = "list" => live' # None)
    BY <1>1 DEF BackfillInv, Flags, Ours
  <2>4. \A b \in Ended' : Ours(b.job)' /\ b.job.kind # "fetch" =>
            busy' /\ (b.job.kind = "list" => live' # None)
    BY <1>1, <1>2 DEF BackfillInv, Flags, Ours
  <2>5. \A b \in Ended' : Ours(b.job)' => b.job.kind # "list"
    BY <1>1, <1>2, <1>10 DEF Ours
  <2> QED
    BY <1>7, <1>9, <2>1, <2>3, <2>4, <2>5 DEF Flags
<1>15. LiveOnce'
  <2>1. \A m \in Message : copies'[m] = IF m \in h.msgs THEN copies[m] + 1 ELSE copies[m]
    BY <1>3
  <2> QED
    BY <1>1, <1>5, <1>6, <1>8, <2>1 DEF BackfillInv, LiveOnce
<1>16. PlansOnce'
  <2>1. \A b \in Ended : b.job.kind = "store" => EndedOnce(b)'
    BY <1>1, <1>10 DEF BackfillInv, PlansOnce, EndedOnce, Ours
  <2>2. EndedOnce(a)'
    BY <1>1, <1>2, <1>8 DEF EndedOnce, Ours
  <2> QED
    BY <1>1, <1>2, <1>7, <1>9, <1>10, <2>1, <2>2 DEF PlansOnce, Ours
<1> QED
  BY <1>1, <1>11, <1>12, <1>13, <1>14, <1>15, <1>16 DEF BackfillInv

LEMMA RunStoreKeeps ==
    ASSUME BackfillInv, NEW ok \in BOOLEAN, RunStore(ok)
    PROVE  BackfillInv'
<1> DEFINE out == IF ~enabled \/ ~ok THEN "failed"
                  ELSE IF Refuses(Head(queue)) THEN "erased" ELSE "ok"
           a == [job |-> Head(queue), outcome |-> out, plan |-> {}]
<1>1. /\ queue # <<>> /\ Head(queue).kind = "store"
      /\ queue' = Tail(queue) /\ done' = Append(done, a)
      /\ UNCHANGED <<now, stamp, mns, connected, pushes, scan, timer, busy, rerun,
                     generation, liveAfter, live, remembered, enabled, floor,
                     owing, gapped>>
  BY DEF RunStore, Running, Ends, phoneVars, backfillVars
<1>2. trouble' \in Nat
  BY DEF BackfillInv, Typed, RunStore, Fate, Disturb
<1>3. out \in {"ok", "failed", "erased"}
  OBVIOUS
<1>4. a \in Outcome /\ a.job = Head(queue) /\ a.outcome = out /\ a.plan = {}
  BY <1>1, <1>3, HeadKnown DEF Outcome
<1>5. CASE out = "ok"
  <2>1. /\ history' = history \cup
              {[msg |-> m, seen |-> stamp[m], live |-> FALSE] : m \in Head(queue).msgs}
        /\ copies' = [m \in Message |->
                          IF m \in Head(queue).msgs THEN copies[m] + 1 ELSE copies[m]]
    BY <1>5 DEF RunStore
  <2> HIDE DEF a, out
  <2> QED
    BY <1>1, <1>2, <1>4, <1>5, <2>1, StoredKeeps
<1>6. CASE out # "ok"
  <2>1. UNCHANGED <<history, copies>>
    BY <1>6 DEF RunStore
  <2>2. scan = None
    BY <1>1 DEF BackfillInv, Flags
  <2>3. scan' = None /\ Like(a.job, Head(queue)) /\ a.job.after = Head(queue).after
        /\ a.job.kind # "list"
    BY <1>1, <2>2 DEF Like
  <2> HIDE DEF a, out
  <2> QED
    BY <1>1, <1>2, <1>4, <2>1, <2>3, EndKeeps
<1> QED
  BY <1>5, <1>6

\* Erasing history lowers what is stored.
LEMMA EraseKeeps ==
    ASSUME BackfillInv, NEW gone \in SUBSET Message, Erase(gone)
    PROVE  BackfillInv'
<1>1. /\ UNCHANGED <<now, stamp, mns, connected, pushes, queue, scan, done, timer, busy,
                     rerun, generation, liveAfter, live, remembered, enabled, owing, gapped>>
      /\ history' = {r \in history : r.msg \notin gone}
      /\ copies' = [m \in Message |-> IF m \in gone THEN 0 ELSE copies[m]]
      /\ floor' = Max({floor, now})
  BY DEF Erase, phoneVars, workVars, backfillVars
<1>2. trouble' \in Nat
  BY DEF BackfillInv, Typed, Erase, Disturb
<1>3. floor' \in Nat
  <2>1. {floor, now} \in SUBSET Nat /\ {floor, now} # {} /\ floor + now \in Nat
        /\ \A x \in {floor, now} : x <= floor + now
    BY DEF BackfillInv, Typed
  <2> QED
    BY <1>1, <2>1, MaxOfBounded
<1>4. /\ Queued' = Queued /\ Ended' = Ended /\ Announced' = Announced
      /\ Stored' = Stored \ gone /\ Inbox' = Inbox
  <2>1. Stored' = {r.msg : r \in {q \in history : q.msg \notin gone}}
    BY <1>1 DEF Stored
  <2>2. Stored' = Stored \ gone
    BY <2>1 DEF Stored
  <2> QED
    BY <1>1, <2>2 DEF Queued, Ended, Announced, Inbox
<1>5. PendingOnce' /\ \A m : Pending(m)' => Pending(m)
  BY <1>1, <1>4, FewerPending
<1>6. /\ copies \in [Message -> Nat] /\ copies' \in [Message -> Nat]
      /\ \A m \in Message : copies'[m] = copies[m] \/ copies'[m] = 0
      /\ \A m \in Message : copies'[m] > 0 => m \notin gone /\ copies[m] > 0
  BY <1>1 DEF BackfillInv, Typed
<1>7. Typed'
  <2>1. history' \in SUBSET Row
    BY <1>1 DEF BackfillInv, Typed
  <2> QED
    BY <1>1, <1>2, <1>3, <1>6, <2>1 DEF BackfillInv, Typed
<1>8. AllKnown'
  BY <1>1, <1>4 DEF BackfillInv, AllKnown, Known
<1>9. AboveFloor' /\ Apart'
  BY <1>1, <1>4 DEF BackfillInv, AboveFloor, Apart
<1>10. Flags'
  BY <1>1, <1>4 DEF BackfillInv, Flags, Switches, Ours
<1>11. LiveOnce'
  BY <1>1, <1>4, <1>5, <1>6 DEF BackfillInv, LiveOnce
<1>12. PlansOnce'
  <2>1. \A m \in Message : copies[m] = 0 => copies'[m] = 0
    BY <1>6
  <2>2. /\ \A j \in Queued : j.msgs \subseteq Message
        /\ \A b \in Ended : b.job.msgs \subseteq Message /\ b.plan \subseteq Message
        /\ Inbox \subseteq Message
    BY InboxKnown DEF BackfillInv, AllKnown, Known
  <2>3. \A j \in Queued' : j.kind = "store" => StoreOnce(j)'
    BY <1>1, <1>4, <1>5, <2>1, <2>2 DEF BackfillInv, PlansOnce, StoreOnce, Ours
  <2>4. \A b \in Ended' : b.job.kind = "store" => EndedOnce(b)'
    BY <1>1, <1>4, <1>5, <2>1, <2>2 DEF BackfillInv, PlansOnce, EndedOnce, Ours
  <2>5. \A m \in Message : Unstored(m) => Unstored(m)'
    BY <1>1, <2>1 DEF Unstored
  <2> QED
    BY <1>1, <1>4, <2>2, <2>3, <2>4, <2>5 DEF BackfillInv, PlansOnce, Ours
<1> QED
  BY <1>5, <1>7, <1>8, <1>9, <1>10, <1>11, <1>12 DEF BackfillInv

\* The phone receives a message: nothing under way is about it.
LEMMA ArriveKeeps == BackfillInv /\ Arrive => BackfillInv'
<1> SUFFICES ASSUME BackfillInv, Arrive PROVE BackfillInv'
  OBVIOUS
<1>0. PICK n : n = Len(stamp) + 1
  OBVIOUS
<1>1. /\ UNCHANGED <<now, mns, connected, queue, scan, done, timer, busy, rerun, generation,
                     liveAfter, live, remembered, enabled, history, copies, floor, owing,
                     gapped, trouble>>
      /\ stamp' = Append(stamp, now) /\ Len(stamp) < MaxMessages
      /\ pushes' = IF mns THEN Append(pushes, n) ELSE pushes
  BY <1>0 DEF Arrive, workVars, backfillVars, storeVars
<1>2. /\ Inbox = 1 .. Len(stamp) /\ Inbox \subseteq Message /\ n \in Message /\ n \notin Inbox
      /\ Inbox' = Inbox \cup {n} /\ stamp' \in Seq(Nat) /\ Len(stamp') <= MaxMessages
      /\ \A m \in Inbox : stamp'[m] = stamp[m]
      /\ stamp'[n] = now
  <2>1. stamp \in Seq(Nat) /\ now \in Nat /\ Inbox = 1 .. Len(stamp) /\ Inbox \subseteq Message
    BY InboxKnown DEF BackfillInv, Typed
  <2>2. n \in Message /\ n \notin Inbox
    BY <1>0, <1>1, <2>1, BackfillAssumption DEF Message
  <2>3. /\ stamp' \in Seq(Nat) /\ Len(stamp') = n /\ DOMAIN stamp' = 1 .. n
        /\ \A m \in 1 .. Len(stamp) : stamp'[m] = stamp[m]
        /\ stamp'[n] = now
    BY <1>0, <1>1, <2>1
  <2>4. Inbox' = Inbox \cup {n} /\ Len(stamp') <= MaxMessages
    BY <1>0, <1>1, <2>1, <2>3, BackfillAssumption DEF Inbox
  <2> QED
    BY <2>1, <2>2, <2>3, <2>4
<1>3. Queued' = Queued /\ Ended' = Ended /\ Stored' = Stored
  BY <1>1 DEF Queued, Ended, Stored
<1>4. n \notin Announced /\ n \notin Stored /\ n \notin remembered
  BY <1>2 DEF BackfillInv, AllKnown
<1>5. /\ pushes' \in Seq(Message) /\ Once(pushes')
      /\ Announced' \subseteq Announced \cup {n}
  <2>1. pushes \in Seq(Message) /\ Once(pushes)
    BY DEF BackfillInv, Typed, Apart
  <2>2. CASE mns
    BY <1>1, <1>2, <1>4, <2>1, <2>2, AppendOnce DEF Announced
  <2>3. CASE ~mns
    BY <1>1, <2>1, <2>3 DEF Announced
  <2> QED
    BY <2>2, <2>3
<1>6. /\ \A j \in Queued : n \notin j.msgs /\ j.msgs \subseteq Inbox
      /\ \A b \in Ended : n \notin b.job.msgs /\ n \notin b.plan
                          /\ b.job.msgs \subseteq Inbox /\ b.plan \subseteq Inbox
  BY <1>2 DEF BackfillInv, AllKnown, Known
<1>7. PendingOnce'
  BY <1>1, <1>3, <1>5, <1>6 DEF BackfillInv, PendingOnce, Fetches, Ours
<1>8. \A m : Pending(m)' => Pending(m) \/ m = n
  BY <1>1, <1>3, <1>5 DEF Pending, Fetches, Ours
<1>9. copies[n] = 0
  BY <1>2, <1>4 DEF BackfillInv, LiveOnce, Typed
<1>10. Typed'
  BY <1>1, <1>2, <1>5 DEF BackfillInv, Typed
<1>11. AllKnown'
  <2>1. \A m \in Inbox' : stamp'[m] <= now'
    <3>1. now \in Nat /\ now' = now /\ \A m \in Inbox : stamp[m] <= now
      BY <1>1 DEF BackfillInv, AllKnown, Typed
    <3>2. \A m \in Inbox : stamp'[m] <= now'
      BY <1>2, <3>1
    <3> QED
      BY <1>2, <3>1, <3>2
  <2>2. \A j : Known(j) => Known(j)'
    BY <1>1, <1>2 DEF Known
  <2> QED
    BY <1>1, <1>2, <1>3, <1>5, <2>1, <2>2 DEF BackfillInv, AllKnown
<1>12. AboveFloor'
  BY <1>1, <1>2, <1>3, <1>6 DEF BackfillInv, AboveFloor
<1>13. Apart'
  BY <1>1, <1>3, <1>5 DEF BackfillInv, Apart
<1>14. Flags'
  BY <1>1, <1>3 DEF BackfillInv, Flags, Switches, Ours
<1>15. LiveOnce'
  BY <1>1, <1>3, <1>8, <1>9 DEF BackfillInv, LiveOnce
<1>16. PlansOnce'
  <2>1. \A j \in Queued' : j.kind = "store" => StoreOnce(j)'
    BY <1>1, <1>3, <1>6, <1>8 DEF BackfillInv, PlansOnce, StoreOnce, Ours
  <2>2. \A b \in Ended' : b.job.kind = "store" => EndedOnce(b)'
    BY <1>1, <1>3, <1>6, <1>8 DEF BackfillInv, PlansOnce, EndedOnce, Ours
  <2>3. Unstored(n)' /\ \A m : Unstored(m) => Unstored(m)'
    BY <1>1, <1>9 DEF Unstored
  <2> QED
    BY <1>1, <1>2, <1>3, <2>1, <2>2, <2>3 DEF BackfillInv, PlansOnce, Ours
<1> QED
  BY <1>7, <1>10, <1>11, <1>12, <1>13, <1>14, <1>15, <1>16 DEF BackfillInv

\* The session is lost: nothing of it is still awaited.
LEMMA DisconnectKeeps == BackfillInv /\ Disconnect => BackfillInv'
<1> SUFFICES ASSUME BackfillInv, Disconnect PROVE BackfillInv'
  OBVIOUS
<1>1. /\ UNCHANGED <<now, stamp, queue, scan, done, enabled, history, copies, floor,
                     owing, gapped>>
      /\ connected' = FALSE /\ mns' = FALSE /\ pushes' = <<>>
      /\ generation' = generation + 1 /\ timer' = FALSE /\ busy' = FALSE /\ rerun' = FALSE
      /\ liveAfter' = None /\ live' = None /\ remembered' = {}
  BY DEF Disconnect, Reset, workVars, storeVars
<1>2. trouble' \in Nat /\ generation \in Nat /\ generation' \in Nat
  BY <1>1 DEF BackfillInv, Typed, Disconnect, Disturb
<1>3. /\ Queued' = Queued /\ Ended' = Ended /\ Announced' = {}
      /\ Stored' = Stored /\ Inbox' = Inbox /\ Once(pushes') /\ pushes' \in Seq(Message)
  BY <1>1 DEF Queued, Ended, Announced, Stored, Inbox, Elems, Once
<1>4. /\ \A j \in Queued : j.gen \in Nat /\ j.gen <= generation
      /\ \A b \in Ended : b.job.gen \in Nat /\ b.job.gen <= generation
  <2>1. (\A j \in Queued : j \in Job) /\ \A b \in Ended : b \in Outcome
    BY DEF BackfillInv, Typed, Queued, Ended, Elems
  <2> QED
    BY <2>1 DEF BackfillInv, AllKnown, Known, Job, Outcome
<1>5. (\A j \in Queued : ~Ours(j)') /\ \A b \in Ended : ~Ours(b.job)'
  BY <1>1, <1>2, <1>4 DEF Ours
<1>6. PendingOnce' /\ \A m : ~Pending(m)'
  BY <1>3, <1>5 DEF PendingOnce, Pending, Fetches
<1>7. Typed'
  BY <1>1, <1>2, <1>3 DEF BackfillInv, Typed
<1>8. AllKnown'
  <2>1. /\ \A j \in Queued : Known(j)'
        /\ \A b \in Ended : Known(b.job)'
    BY <1>1, <1>2, <1>3, <1>4 DEF BackfillInv, AllKnown, Known
  <2> QED
    BY <1>1, <1>3, <2>1 DEF BackfillInv, AllKnown
<1>9. AboveFloor' /\ Apart'
  BY <1>1, <1>3 DEF BackfillInv, AboveFloor, Apart
<1>10. Flags'
  BY <1>1, <1>3, <1>5 DEF BackfillInv, Flags, Switches
<1>11. LiveOnce'
  BY <1>1, <1>3, <1>6 DEF BackfillInv, LiveOnce
<1>12. PlansOnce'
  <2>1. scan # None => Head(queue) \in Queued
    BY HeadKnown DEF BackfillInv, Flags
  <2> QED
    BY <1>1, <1>3, <1>5, <1>6, <2>1 DEF BackfillInv, PlansOnce, StoreOnce, EndedOnce, Ours
<1> QED
  BY <1>6, <1>7, <1>8, <1>9, <1>10, <1>11, <1>12 DEF BackfillInv

\* An announced message is fetched, or lost when the worker refuses.
LEMMA PushedKeeps ==
    ASSUME BackfillInv, NEW ok \in BOOLEAN, Pushed(ok)
    PROVE  BackfillInv'
<1>1. /\ UNCHANGED <<now, stamp, mns, connected, scan, done, timer, busy, rerun, generation,
                     liveAfter, live, remembered, enabled, history, copies, floor, gapped>>
      /\ pushes # <<>> /\ pushes' = Tail(pushes)
      /\ owing' \in BOOLEAN
  BY DEF Pushed, phoneVars, backfillVars, storeVars
<1>2. trouble' \in Nat
  BY DEF BackfillInv, Typed, Pushed, Fate, Disturb
<1>3. PICK n : n = Head(pushes)
  OBVIOUS
<1>4. /\ n \in Message /\ n \in Announced /\ pushes' \in Seq(Message)
      /\ Once(pushes') /\ Announced' = Announced \ {n}
  BY <1>1, <1>3, TailOnce DEF BackfillInv, Typed, Apart, Announced
<1>5. /\ Ended' = Ended /\ Once(done') /\ Stored' = Stored /\ Inbox' = Inbox
      /\ now \in Nat
  BY <1>1 DEF Ended, Stored, Inbox, BackfillInv, Apart, Typed
<1>6. CASE ok
  <2>1. PICK f : f = Fetch(n)
    OBVIOUS
  <2>2. queue' = Append(queue, f)
    BY <1>3, <1>6, <2>1 DEF Pushed
  <2>3. /\ f \in Job /\ f.kind = "fetch" /\ f.gen = generation /\ f.msgs = {n} /\ n \in Inbox
    BY <1>4, <2>1 DEF Fetch, Job, BackfillInv, Typed, AllKnown
  <2>4. /\ \A k \in Queued : ~Rival(f, k) /\ Ahead(k, f)
        /\ \A a \in Ended' : ~Rival(f, a.job)
    BY <1>4, <1>5, <2>3 DEF BackfillInv, PendingOnce, Fetches, Ours, Rival, Ahead
  <2>5. queue' \in Seq(Job) /\ Queued' = Queued \cup {f} /\ Apart'
    BY <1>4, <1>5, <2>2, <2>3, <2>4, QueueEffect
  <2>6. PendingOnce'
    BY <1>1, <1>4, <1>5, <2>3, <2>5 DEF BackfillInv, PendingOnce, Fetches, Ours
  <2>7. \A m : Pending(m)' => Pending(m)
    BY <1>1, <1>4, <1>5, <2>3, <2>5 DEF Pending, Fetches, Ours
  <2>8. Typed'
    BY <1>1, <1>2, <1>4, <2>5 DEF BackfillInv, Typed
  <2>9. AllKnown'
    <3>1. Known(f)'
      BY <1>1, <1>5, <2>3 DEF Known, BackfillInv, Typed
    <3>2. \A j \in Queued : Known(j)'
      BY <1>1, <1>5 DEF Known, BackfillInv, AllKnown
    <3> QED
      BY <1>1, <1>4, <1>5, <2>5, <3>1, <3>2 DEF BackfillInv, AllKnown, Known
  <2>10. AboveFloor'
    BY <1>1, <1>5, <2>3, <2>5 DEF BackfillInv, AboveFloor
  <2>11. scan # None => queue # <<>> /\ Head(queue).kind = "list" /\ Head(queue') = Head(queue)
                        /\ queue' # <<>>
    BY <2>2, <2>3, HeadStays DEF BackfillInv, Flags, Typed
  <2>12. Flags'
    BY <1>1, <1>5, <2>3, <2>5, <2>11 DEF BackfillInv, Flags, Switches, Ours
  <2>13. LiveOnce'
    BY <1>1, <1>5, <2>7 DEF BackfillInv, LiveOnce
  <2>14. PlansOnce'
    <3>1. \A j \in Queued' : j.kind = "store" => StoreOnce(j)'
      BY <1>1, <2>3, <2>5, <2>7 DEF BackfillInv, PlansOnce, StoreOnce, Ours
    <3>2. \A b \in Ended' : b.job.kind = "store" => EndedOnce(b)'
      BY <1>1, <1>5, <2>7 DEF BackfillInv, PlansOnce, EndedOnce, Ours
    <3> QED
      BY <1>1, <1>5, <2>11, <3>1, <3>2 DEF BackfillInv, PlansOnce, Unstored, Ours
  <2> QED
    BY <2>5, <2>6, <2>8, <2>9, <2>10, <2>12, <2>13, <2>14 DEF BackfillInv
<1>7. CASE ~ok
  <2>1. queue' = queue
    BY <1>7 DEF Pushed
  <2>2. Queued' = Queued /\ Apart'
    BY <1>4, <1>5, <2>1, FewerApart
  <2>3. PendingOnce' /\ \A m : Pending(m)' => Pending(m)
    BY <1>1, <1>4, <1>5, <2>2, FewerPending
  <2>4. Typed'
    BY <1>1, <1>2, <1>4, <2>1 DEF BackfillInv, Typed
  <2>5. AllKnown'
    BY <1>1, <1>4, <1>5, <2>2 DEF BackfillInv, AllKnown, Known
  <2>6. AboveFloor'
    BY <1>1, <1>5, <2>2 DEF BackfillInv, AboveFloor
  <2>7. Flags'
    BY <1>1, <1>5, <2>1, <2>2 DEF BackfillInv, Flags, Switches, Ours
  <2>8. LiveOnce'
    BY <1>1, <1>5, <2>3 DEF BackfillInv, LiveOnce
  <2>9. PlansOnce'
    BY <1>1, <1>5, <2>1, <2>2, <2>3
       DEF BackfillInv, PlansOnce, StoreOnce, EndedOnce, Unstored, Ours
  <2> QED
    BY <2>2, <2>3, <2>4, <2>5, <2>6, <2>7, <2>8, <2>9 DEF BackfillInv
<1> QED
  BY <1>6, <1>7

\* What every callback keeps, whatever it does to history and the flags.
LEMMA AnswerKeeps ==
    ASSUME BackfillInv, done # <<>>, done' = Tail(done),
           UNCHANGED <<now, stamp, pushes, queue, scan, generation>>,
           Stored' \subseteq Inbox, remembered' \subseteq Inbox,
           live' = None \/ live' \subseteq Inbox
    PROVE  /\ Answer \in Ended /\ Answer \in Outcome /\ Known(Answer.job)
           /\ done' \in Seq(Outcome) /\ Ended' = Ended \ {Answer}
           /\ Queued' = Queued /\ Announced' = Announced /\ Inbox' = Inbox
           /\ AllKnown' /\ AboveFloor' /\ Apart' /\ PendingOnce'
           /\ \A m : Pending(m)' => Pending(m)
<1>1. /\ Answer \in Ended /\ Answer \in Outcome
      /\ done' \in Seq(Outcome) /\ Ended' = Ended \ {Answer} /\ Once(done')
  BY AnswerEffect
<1>2. Announced' = Announced /\ Inbox' = Inbox /\ Once(pushes')
  BY DEF Announced, Inbox, BackfillInv, Apart
<1>3. Queued' = Queued /\ Apart'
  BY <1>1, <1>2, FewerApart
<1>4. PendingOnce' /\ \A m : Pending(m)' => Pending(m)
  BY <1>1, <1>2, <1>3, FewerPending
<1>5. AllKnown' /\ Known(Answer.job)
  BY <1>1, <1>2, <1>3 DEF BackfillInv, AllKnown, Known
<1>6. AboveFloor'
  BY <1>1, <1>3 DEF BackfillInv, AboveFloor
<1> QED
  BY <1>1, <1>2, <1>3, <1>4, <1>5, <1>6

\* A callback that ends a listing or a store, and may forget the messages of a
\* store that failed.
LEMMA FinishedKeeps ==
    ASSUME BackfillInv, done # <<>>, done' = Tail(done), Answer.job.kind # "fetch",
           Finish(Answer.job.gen),
           UNCHANGED <<now, stamp, mns, connected, pushes, queue, scan, generation,
                       enabled, history, copies, floor>>,
           owing' \in BOOLEAN, gapped' \in BOOLEAN, trouble' \in Nat,
           \/ remembered' = remembered
           \/ /\ Answer.job.kind = "store" /\ Answer.outcome # "ok"
              /\ remembered' = remembered \ Answer.job.msgs
    PROVE  BackfillInv'
<1>1. /\ Switches'
      /\ liveAfter' \in Nat \cup {None} /\ rerun' \in BOOLEAN /\ timer' \in BOOLEAN
      /\ busy' \in BOOLEAN
      /\ Ours(Answer.job) => live' = None /\ ~busy'
      /\ ~Ours(Answer.job) => live' = live /\ busy' = busy
  BY FinishKeeps DEF Ours
<1>2. /\ Stored' = Stored /\ Stored' \subseteq Inbox /\ remembered' \subseteq remembered
      /\ remembered' \subseteq Inbox /\ (live' = None \/ live' \subseteq Inbox)
  BY <1>1 DEF Stored, BackfillInv, AllKnown
<1>3. PICK a : a = Answer
  OBVIOUS
<1>4. /\ a \in Ended /\ a \in Outcome /\ Known(a.job)
      /\ done' \in Seq(Outcome) /\ Ended' = Ended \ {a}
      /\ Queued' = Queued /\ Announced' = Announced /\ Inbox' = Inbox
      /\ AllKnown' /\ AboveFloor' /\ Apart' /\ PendingOnce'
      /\ \A m : Pending(m)' => Pending(m)
  BY <1>2, <1>3, AnswerKeeps
<1>5. /\ Ours(a.job) => live' = None /\ ~busy'
      /\ ~Ours(a.job) => live' = live /\ busy' = busy
      /\ a.job.kind # "fetch"
  BY <1>1, <1>3
<1>6. Typed'
  <2>1. (live' = None \/ live' \in SUBSET Message) /\ remembered' \in SUBSET Message
    BY <1>2, InboxKnown DEF BackfillInv
  <2> QED
    BY <1>1, <1>4, <2>1 DEF BackfillInv, Typed
<1>7. Ours(a.job) => /\ \A j \in Queued : Ours(j) => j.kind = "fetch"
                     /\ \A b \in Ended' : Ours(b.job) => b.job.kind = "fetch"
  BY <1>4, <1>5 DEF BackfillInv, Apart, Rival, Ours
<1>8. Flags'
  <2>1. CASE Ours(a.job)
    BY <1>1, <1>4, <1>7, <2>1 DEF BackfillInv, Flags, Ours
  <2>2. CASE ~Ours(a.job)
    BY <1>1, <1>4, <1>5, <2>2 DEF BackfillInv, Flags, Ours
  <2> QED
    BY <2>1, <2>2
<1>9. \A m : Pending(m) /\ m \in remembered /\ m \notin remembered' =>
                 Ours(a.job) /\ a.job.kind = "store" /\ copies[m] = 0
  BY <1>3, <1>4 DEF BackfillInv, PlansOnce, EndedOnce
<1>10. LiveOnce'
  BY <1>2, <1>4, <1>9 DEF BackfillInv, LiveOnce
<1>11. PlansOnce'
  <2>1. \A j \in Queued' : j.kind = "store" => StoreOnce(j)'
    <3>1. Ours(a.job) /\ a.job.kind = "store" => \A j \in Queued : j.kind # "store"
      BY <1>4 DEF BackfillInv, Flags
    <3> QED
      BY <1>4, <1>9, <3>1 DEF BackfillInv, PlansOnce, StoreOnce, Ours
  <2>2. \A b \in Ended' : b.job.kind = "store" => EndedOnce(b)'
    BY <1>4 DEF BackfillInv, PlansOnce, EndedOnce, Ours
  <2>3. scan # None => Head(queue) \in Queued /\ Head(queue).kind = "list"
    BY HeadKnown DEF BackfillInv, Flags
  <2>4. CASE Ours(a.job)
    BY <1>4, <1>7, <2>1, <2>2, <2>3, <2>4 DEF PlansOnce, Ours
  <2>5. CASE ~Ours(a.job)
    BY <1>4, <1>5, <2>1, <2>2, <2>5 DEF BackfillInv, PlansOnce, Unstored, Ours
  <2> QED
    BY <2>4, <2>5
<1> QED
  BY <1>4, <1>6, <1>8, <1>10, <1>11 DEF BackfillInv

LEMMA ListingFailedKeeps == BackfillInv /\ ListingFailed => BackfillInv'
<1> SUFFICES ASSUME BackfillInv, ListingFailed PROVE BackfillInv'
  OBVIOUS
<1>1. /\ done # <<>> /\ done' = Tail(done) /\ Answer.job.kind # "fetch"
      /\ Finish(Answer.job.gen)
      /\ UNCHANGED <<now, stamp, mns, connected, pushes, queue, scan, generation,
                     enabled, history, copies, floor>>
      /\ owing' \in BOOLEAN /\ gapped' \in BOOLEAN /\ trouble' = trouble /\ remembered' = remembered
  BY DEF BackfillInv, Typed, ListingFailed, Answers, phoneVars, storeVars
<1>2. trouble' \in Nat
  BY <1>1 DEF BackfillInv, Typed
<1> QED
  BY <1>1, <1>2, FinishedKeeps

LEMMA StoreEndedKeeps == BackfillInv /\ StoreEnded => BackfillInv'
<1> SUFFICES ASSUME BackfillInv, StoreEnded PROVE BackfillInv'
  OBVIOUS
<1>1. /\ done # <<>> /\ done' = Tail(done) /\ Answer.job.kind = "store"
      /\ Finish(Answer.job.gen)
      /\ UNCHANGED <<now, stamp, mns, connected, pushes, queue, scan, generation,
                     enabled, history, copies, floor>>
      /\ owing' \in BOOLEAN /\ gapped' \in BOOLEAN /\ trouble' = trouble
      /\ \/ remembered' = remembered
         \/ /\ Answer.job.kind = "store" /\ Answer.outcome # "ok"
            /\ remembered' = remembered \ Answer.job.msgs
  BY DEF StoreEnded, Answers, phoneVars, storeVars
<1>2. trouble' \in Nat
  BY <1>1 DEF BackfillInv, Typed
<1> QED
  BY <1>1, <1>2, FinishedKeeps

\* A listing's plan arrives: what it lacks is stored, and remembered until then.
LEMMA PlannedKeeps ==
    ASSUME BackfillInv, NEW ok \in BOOLEAN, Planned(ok)
    PROVE  BackfillInv'
<1>1. /\ done # <<>> /\ done' = Tail(done) /\ Answer.job.kind = "list"
      /\ UNCHANGED <<now, stamp, mns, connected, pushes, scan, generation,
                     enabled, history, copies, floor, gapped>>
      /\ owing' \in BOOLEAN /\ gapped' \in BOOLEAN
  BY DEF BackfillInv, Typed, Planned, Answers, phoneVars, storeVars
<1>2. trouble' \in Nat
  BY DEF BackfillInv, Typed, Planned, Fate, Disturb
<1>3. CASE ~(Current /\ connected /\ enabled) \/ Missing = {} \/ ~ok
  <2>1. Finish(Answer.job.gen) /\ remembered' = remembered /\ queue' = queue
    BY <1>3 DEF Planned
  <2> QED
    BY <1>1, <1>2, <2>1, FinishedKeeps
<1>4. CASE ~(~(Current /\ connected /\ enabled) \/ Missing = {} \/ ~ok)
  <2>1. PICK a, ms : a = Answer /\ ms = Missing
    OBVIOUS
  <2>2. PICK st : st = Storing(ms, a.job.floor)
    OBVIOUS
  <2>3. /\ live' = None /\ remembered' = remembered \cup ms /\ queue' = Append(queue, st)
        /\ UNCHANGED <<busy, rerun, timer, liveAfter>>
        /\ Ours(a.job) /\ a.job.kind = "list"
    BY <1>1, <1>4, <2>1, <2>2 DEF Planned, Current, Ours
  <2>4. /\ a \in Ended /\ a \in Outcome /\ a.job \in Job
        /\ done' \in Seq(Outcome) /\ Ended' = Ended \ {a} /\ Once(done')
    BY <1>1, <2>1, AnswerEffect DEF Outcome
  <2>5. /\ busy /\ live # None /\ \A j \in Queued : j.kind = "fetch"
    BY <2>3, <2>4 DEF BackfillInv, Flags
  <2>6. /\ ms \subseteq a.plan /\ ms \subseteq Inbox /\ ms \subseteq Message
        /\ \A m \in ms : copies[m] = 0 /\ stamp[m] >= a.job.floor
    <3>1. ms = a.plan \ live
      BY <2>1, <2>5 DEF Missing
    <3>2. a.plan \subseteq Inbox /\ Inbox \subseteq Message
      BY <2>4, InboxKnown DEF BackfillInv, AllKnown
    <3>3. \A m \in a.plan : Unstored(m) /\ stamp[m] >= a.job.floor
      BY <2>3, <2>4 DEF BackfillInv, PlansOnce, AboveFloor
    <3> QED
      BY <3>1, <3>2, <3>3 DEF Unstored
  <2>7. /\ st \in Job /\ st.kind = "store" /\ st.gen = generation /\ st.msgs = ms
        /\ st.floor = a.job.floor
    BY <2>2, <2>4, <2>6 DEF Storing, Job, BackfillInv, Typed
  <2>8. scan = None
    BY <2>5, HeadKnown DEF BackfillInv, Flags
  <2>9. /\ Announced' = Announced /\ Stored' = Stored /\ Inbox' = Inbox /\ Once(pushes')
    BY <1>1 DEF Announced, Stored, Inbox, BackfillInv, Apart
  <2>10. \A b \in Ended' : Ours(b.job) => b.job.kind = "fetch"
    BY <2>3, <2>4 DEF BackfillInv, Apart, Rival, Ours
  <2>11. /\ \A k \in Queued : ~Rival(st, k) /\ Ahead(k, st)
         /\ \A b \in Ended' : ~Rival(st, b.job)
    BY <2>5, <2>7, <2>10 DEF Rival, Ahead, Ours
  <2>12. queue' \in Seq(Job) /\ Queued' = Queued \cup {st} /\ Apart'
    BY <2>3, <2>4, <2>7, <2>9, <2>11, QueueEffect
  <2>13. PendingOnce' /\ \A m : Pending(m)' => Pending(m)
    BY <1>1, <2>4, <2>7, <2>9, <2>12 DEF BackfillInv, PendingOnce, Pending, Fetches, Ours
  <2>14. Typed'
    <3>1. remembered' \in SUBSET Message
      BY <2>3, <2>6 DEF BackfillInv, Typed
    <3> QED
      BY <1>1, <1>2, <2>3, <2>4, <2>12, <3>1 DEF BackfillInv, Typed
  <2>15. AllKnown'
    <3>1. Known(st)'
      BY <1>1, <2>6, <2>7, <2>9 DEF Known, BackfillInv, Typed
    <3>2. \A j \in Queued : Known(j)'
      BY <1>1, <2>9 DEF Known, BackfillInv, AllKnown
    <3>3. \A b \in Ended' : Known(b.job)' /\ b.plan \subseteq Inbox'
      BY <1>1, <2>4, <2>9 DEF Known, BackfillInv, AllKnown
    <3>4. remembered' \subseteq Inbox
      BY <2>3, <2>6 DEF BackfillInv, AllKnown
    <3> QED
      BY <1>1, <2>3, <2>9, <2>12, <3>1, <3>2, <3>3, <3>4 DEF BackfillInv, AllKnown
  <2>16. AboveFloor'
    BY <1>1, <2>4, <2>6, <2>7, <2>8, <2>12 DEF BackfillInv, AboveFloor
  <2>17. Flags'
    <3>1. Switches'
      BY <2>3, <2>5 DEF BackfillInv, Flags, Switches
    <3>2. \A j \in Queued' : j.kind # "list"
      BY <2>5, <2>7, <2>12
    <3> QED
      BY <1>1, <2>3, <2>5, <2>8, <2>10, <3>1, <3>2 DEF Flags, Ours
  <2>18. LiveOnce'
    BY <1>1, <2>3, <2>9, <2>13 DEF BackfillInv, LiveOnce
  <2>19. PlansOnce'
    <3>1. StoreOnce(st)'
      BY <1>1, <2>3, <2>6, <2>7 DEF StoreOnce, Ours
    <3>2. \A b \in Ended' : b.job.kind = "store" => EndedOnce(b)'
      BY <1>1, <2>4, <2>13 DEF BackfillInv, PlansOnce, EndedOnce, Ours
    <3> QED
      BY <1>1, <2>5, <2>8, <2>10, <2>12, <3>1, <3>2 DEF PlansOnce, Ours
  <2> QED
    BY <2>12, <2>13, <2>14, <2>15, <2>16, <2>17, <2>18, <2>19 DEF BackfillInv
<1> QED
  BY <1>3, <1>4

\* A live message is delivered: it is stored unless the backfill stores it, and
\* is awaited no more.
LEMMA LiveMessageKeeps ==
    ASSUME BackfillInv, NEW ok \in BOOLEAN, done # <<>>, done' = Tail(done),
           Answer.job.kind = "fetch", Current, NEW n \in Answer.job.msgs, LiveMessage(n, ok),
           UNCHANGED <<now, stamp, mns, connected, pushes, queue, scan, timer, busy, rerun,
                       generation, liveAfter, enabled, floor>>,
           trouble' \in Nat
    PROVE  BackfillInv'
<1>1. PICK a : a = Answer
  OBVIOUS
<1>2. /\ a \in Ended /\ a \in Outcome /\ a.job.kind = "fetch" /\ Ours(a.job)
      /\ n \in a.job.msgs
  BY <1>1, AnswerEffect DEF Current, Ours
<1>3. n \in Inbox /\ a.job.msgs = {n} /\ Inbox \subseteq Message /\ n \in Message
  BY <1>2, InboxKnown DEF BackfillInv, AllKnown, Known
<1>4. Pending(n) /\ Fetches(a.job, n)
  BY <1>2 DEF Pending, Fetches
<1>5. /\ remembered' = remembered \ {n} /\ owing' \in BOOLEAN /\ gapped' \in BOOLEAN
      /\ \/ live' = live
         \/ live # None /\ live' = live \cup {n}
      /\ live # None /\ n \notin remembered => live' = live \cup {n}
      /\ \/ UNCHANGED <<history, copies>>
         \/ /\ n \notin remembered
            /\ history' = history \cup {[msg |-> n, seen |-> now, live |-> TRUE]}
            /\ copies' = [copies EXCEPT ![n] = @ + 1]
  BY DEF LiveMessage, Persists
<1>6. /\ copies \in [Message -> Nat] /\ copies' \in [Message -> Nat]
      /\ \A m \in Message : m # n => copies'[m] = copies[m]
      /\ copies'[n] = copies[n] \/ (copies[n] = 0 /\ copies'[n] = 1 /\ n \notin remembered)
  <2>1. copies \in [Message -> Nat]
    BY DEF BackfillInv, Typed
  <2>2. n \notin remembered => copies[n] = 0
    BY <1>3, <1>4 DEF BackfillInv, LiveOnce
  <2> QED
    BY <1>3, <1>5, <2>1, <2>2
<1>7. (Stored' = Stored /\ copies' = copies) \/ Stored' = Stored \cup {n}
  <2>1. CASE UNCHANGED <<history, copies>>
    BY <2>1 DEF Stored
  <2>2. CASE history' = history \cup {[msg |-> n, seen |-> now, live |-> TRUE]}
    <3>1. [msg |-> n, seen |-> now, live |-> TRUE].msg = n
      OBVIOUS
    <3>2. Stored' = {r.msg : r \in history \cup {[msg |-> n, seen |-> now, live |-> TRUE]}}
      BY <2>2 DEF Stored
    <3> QED
      BY <3>1, <3>2 DEF Stored
  <2> QED
    BY <1>5, <2>1, <2>2
<1>8. Stored' \subseteq Inbox /\ remembered' \subseteq Inbox /\ (live' = None \/ live' \subseteq Inbox)
  BY <1>3, <1>5, <1>7 DEF BackfillInv, AllKnown
<1>9. /\ done' \in Seq(Outcome) /\ Ended' = Ended \ {a}
      /\ Queued' = Queued /\ Announced' = Announced /\ Inbox' = Inbox
      /\ AllKnown' /\ AboveFloor' /\ Apart' /\ PendingOnce'
      /\ \A m : Pending(m)' => Pending(m)
  BY <1>1, <1>8, AnswerKeeps
<1>10. ~Pending(n)'
  <2>1. n \notin Announced
    BY <1>2, <1>4 DEF BackfillInv, PendingOnce
  <2>2. \A j \in Queued : ~Fetches(j, n)
    <3> SUFFICES ASSUME NEW j \in Queued, Fetches(j, n) PROVE FALSE
      OBVIOUS
    <3>1. Known(j)
      BY DEF BackfillInv, AllKnown
    <3>2. j.msgs = {n}
      BY <3>1 DEF Known, Fetches
    <3> QED
      BY <1>2, <1>3, <3>2 DEF BackfillInv, Apart, Rival, Fetches, Ours
  <2>3. \A b \in Ended' : ~Fetches(b.job, n)
    <3> SUFFICES ASSUME NEW b \in Ended', Fetches(b.job, n) PROVE FALSE
      OBVIOUS
    <3>1. Known(b.job) /\ b \in Ended /\ b # a
      BY <1>9 DEF BackfillInv, AllKnown
    <3>2. b.job.msgs = {n}
      BY <3>1 DEF Known, Fetches
    <3> QED
      BY <1>2, <1>3, <3>1, <3>2 DEF BackfillInv, Apart, Rival, Fetches, Ours
  <2> QED
    BY <1>9, <2>1, <2>2, <2>3 DEF Pending, Fetches, Ours
<1>11. live # None => live' # None
  <2>1. live # None => live' \in SUBSET Message
    BY <1>3, <1>5 DEF BackfillInv, Typed
  <2> QED
    BY <2>1, BackfillAssumption DEF Message
<1>12. live' # None => live # None
  BY <1>5
<1>13. Typed'
  <2>1. history' \in SUBSET Row
    <3>1. [msg |-> n, seen |-> now, live |-> TRUE] \in Row
      BY <1>3 DEF Row, BackfillInv, Typed
    <3> QED
      BY <1>5, <3>1 DEF BackfillInv, Typed
  <2>2. (live' = None \/ live' \in SUBSET Message) /\ remembered' \in SUBSET Message
    BY <1>3, <1>8
  <2> QED
    BY <1>5, <1>6, <1>9, <2>1, <2>2 DEF BackfillInv, Typed
<1>14. Flags'
  <2>1. Switches'
    BY <1>12 DEF BackfillInv, Flags, Switches
  <2> QED
    BY <1>9, <1>11, <2>1 DEF BackfillInv, Flags, Ours
<1>15. LiveOnce'
  <2>1. \A m \in Message : copies'[m] <= 1
    BY <1>6 DEF BackfillInv, LiveOnce
  <2>2. \A m \in Message : copies'[m] > 0 => m \in Stored'
    BY <1>6, <1>7 DEF BackfillInv, LiveOnce
  <2>3. \A m \in Message : Pending(m)' => copies'[m] = 0 \/ m \in remembered'
    BY <1>5, <1>6, <1>9, <1>10 DEF BackfillInv, LiveOnce
  <2> QED
    BY <2>1, <2>2, <2>3 DEF LiveOnce
<1>16. PlansOnce'
  <2>1. /\ \A j \in Queued : j.msgs \subseteq Message
        /\ \A b \in Ended : b.job.msgs \subseteq Message /\ b.plan \subseteq Message
    BY <1>3 DEF BackfillInv, AllKnown, Known
  <2>2. \A j \in Queued' : j.kind = "store" => StoreOnce(j)'
    BY <1>4, <1>5, <1>6, <1>9, <1>10, <2>1 DEF BackfillInv, PlansOnce, StoreOnce, Ours
  <2>3. \A b \in Ended' : b.job.kind = "store" => EndedOnce(b)'
    BY <1>6, <1>9, <1>10, <2>1 DEF BackfillInv, PlansOnce, EndedOnce, Ours
  <2>4. live # None => \A m \in Message : Unstored(m) => Unstored(m)'
    BY <1>5, <1>6 DEF Unstored
  <2>5. scan # None /\ Ours(Head(queue)) => live # None
    BY HeadKnown DEF BackfillInv, Flags
  <2>6. \A b \in Ended : b.job.kind = "list" /\ Ours(b.job) => live # None
    BY DEF BackfillInv, Flags
  <2> QED
    BY <1>3, <1>9, <2>1, <2>2, <2>3, <2>4, <2>5, <2>6 DEF BackfillInv, PlansOnce, Ours
<1> QED
  BY <1>9, <1>13, <1>14, <1>15, <1>16 DEF BackfillInv

LEMMA FetchedKeeps ==
    ASSUME BackfillInv, NEW ok \in BOOLEAN, Fetched(ok)
    PROVE  BackfillInv'
<1>1. /\ done # <<>> /\ done' = Tail(done) /\ Answer.job.kind = "fetch"
      /\ UNCHANGED <<now, stamp, mns, connected, pushes, queue, scan, timer, busy, rerun,
                     generation, liveAfter, enabled, floor>>
  BY DEF Fetched, Answers, phoneVars
<1>2. trouble' \in Nat
  BY DEF BackfillInv, Typed, Fetched, Fate, Disturb
<1>3. CASE Current /\ Answer.outcome = "ok"
  <2>1. PICK n \in Answer.job.msgs : LiveMessage(n, ok)
    BY <1>3 DEF Fetched
  <2> QED
    BY <1>1, <1>2, <1>3, <2>1, LiveMessageKeeps
<1>4. CASE ~(Current /\ Answer.outcome = "ok")
  <2>1. UNCHANGED <<remembered, live, history, copies, gapped>> /\ owing' \in BOOLEAN
    BY <1>4 DEF Fetched
  <2>2. /\ Stored' = Stored /\ Stored' \subseteq Inbox /\ remembered' \subseteq Inbox
        /\ (live' = None \/ live' \subseteq Inbox)
    BY <2>1 DEF Stored, BackfillInv, AllKnown
  <2>3. PICK a : a = Answer
    OBVIOUS
  <2>4. /\ done' \in Seq(Outcome) /\ Ended' = Ended \ {a}
        /\ Queued' = Queued /\ Announced' = Announced /\ Inbox' = Inbox
        /\ AllKnown' /\ AboveFloor' /\ Apart' /\ PendingOnce'
        /\ \A m : Pending(m)' => Pending(m)
    BY <1>1, <2>2, <2>3, AnswerKeeps
  <2>5. Typed'
    BY <1>1, <1>2, <2>1, <2>4 DEF BackfillInv, Typed
  <2>6. Flags'
    BY <1>1, <2>1, <2>4 DEF BackfillInv, Flags, Switches, Ours
  <2>7. LiveOnce'
    BY <2>1, <2>2, <2>4 DEF BackfillInv, LiveOnce
  <2>8. PlansOnce'
    BY <1>1, <2>1, <2>4 DEF BackfillInv, PlansOnce, StoreOnce, EndedOnce, Unstored, Ours
  <2> QED
    BY <2>4, <2>5, <2>6, <2>7, <2>8 DEF BackfillInv
<1> QED
  BY <1>3, <1>4

-----------------------------------------------------------------------------
(***************************************************************************)
(* The theorems.                                                           *)
(***************************************************************************)

LEMMA BackfillStep == BackfillInv /\ [Next]_vars => BackfillInv'
<1> SUFFICES ASSUME BackfillInv, [Next]_vars PROVE BackfillInv'
  OBVIOUS
<1>1. CASE Worker
  BY <1>1, CollectKeeps, RunFetchKeeps, ListInboxKeeps, RunStoreKeeps DEF Worker
<1>2. CASE MainLoop
  BY <1>2, ListingFailedKeeps, StoreEndedKeeps, FireKeeps, PushedKeeps, FetchedKeeps,
     PlannedKeeps DEF MainLoop
<1>3. CASE World
  BY <1>3, ConnectKeeps, DisconnectKeeps, MnsUpKeeps, TickKeeps, ArriveKeeps,
     StorageChangedKeeps, EraseKeeps DEF World
<1>4. CASE Rest \/ UNCHANGED vars
  BY <1>4, TickKeeps DEF Rest
<1> QED
  BY <1>1, <1>2, <1>3, <1>4 DEF Next

LEMMA BackfillInvariant == Spec => []BackfillInv
BY BackfillInit, BackfillStep, PTL DEF Spec, SafetySpec

\* The backfill's state is well formed in every reachable state, whatever the
\* number of messages, failures and erasures.
THEOREM BackfillTypes == Spec => []TypeOK
<1>1. BackfillInv => TypeOK
  BY DEF BackfillInv, Typed, AllKnown, Flags, Switches, TypeOK
<1> QED
  BY <1>1, BackfillInvariant, PTL

\* However a message's live fetch, the listing, the plan, the store, a failure
\* and a reconnect interleave, history has the message at most once.
THEOREM EveryMessageOnce == Spec => []StoredOnce
<1>1. BackfillInv => StoredOnce
  BY DEF BackfillInv, LiveOnce, StoredOnce
<1> QED
  BY <1>1, BackfillInvariant, PTL

\* No backfill writes a message from before the last erasure, even when its plan
\* was made before the erasure and its store comes after it.
THEOREM NothingErasedReturns == Spec => ErasedStaysErased
<1> DEFINE Kept == \A r \in history' \ history : ~r.live => stamp[r.msg] >= floor
<1>1. BackfillInv /\ [Next]_vars => [Kept]_vars
  <2> SUFFICES ASSUME BackfillInv, Next PROVE Kept
    BY Zenon
  <2>1. ASSUME history' \subseteq history PROVE Kept
    BY <2>1
  <2>2. ASSUME NEW ok \in BOOLEAN, RunStore(ok) PROVE Kept
    <3>1. queue # <<>> /\ Head(queue).kind = "store"
      BY <2>2 DEF RunStore, Running
    <3>2. \A m \in Head(queue).msgs : stamp[m] >= Head(queue).floor
      BY <3>1, HeadKnown DEF BackfillInv, AboveFloor
    <3>3. CASE history' = history
      BY <2>1, <3>3
    <3>4. CASE history' # history
      <4>1. floor = Head(queue).floor
        BY <2>2, <3>4 DEF RunStore, Refuses
      <4>2. history' = history \cup
               {[msg |-> m, seen |-> stamp[m], live |-> FALSE] : m \in Head(queue).msgs}
        BY <2>2, <3>4 DEF RunStore
      <4> QED
        BY <3>2, <4>1, <4>2
    <3> QED
      BY <3>3, <3>4
  <2>3. ASSUME NEW ok \in BOOLEAN, Fetched(ok) PROVE Kept
    <3>1. CASE history' = history
      BY <2>1, <3>1
    <3>2. CASE history' # history
      <4>1. PICK m \in Answer.job.msgs : LiveMessage(m, ok)
        BY <2>3, <3>2 DEF Fetched
      <4>2. history' = history \cup {[msg |-> m, seen |-> now, live |-> TRUE]}
        BY <3>2, <4>1 DEF LiveMessage
      <4> QED
        BY <4>2
    <3> QED
      BY <3>1, <3>2
  <2>4. CASE Worker
    <3>1. \A ok \in BOOLEAN : RunFetch(ok) \/ ListInbox(ok) \/ Collect => history' = history
      BY DEF RunFetch, ListInbox, Collect, storeVars
    <3> QED
      BY <2>1, <2>2, <2>4, <3>1 DEF Worker
  <2>5. CASE MainLoop
    <3>1. ListingFailed \/ StoreEnded => history' = history
      BY DEF ListingFailed, StoreEnded, storeVars
    <3>2. \A ok \in BOOLEAN : Fire(ok) \/ Pushed(ok) \/ Planned(ok) => history' = history
      BY DEF Fire, Pushed, Planned, storeVars
    <3> QED
      BY <2>1, <2>3, <2>5, <3>1, <3>2 DEF MainLoop
  <2>6. CASE World
    <3>1. Connect \/ Disconnect \/ MnsUp \/ MnsDown \/ Arrive \/ StorageChanged \/ Tick
              => history' = history
      BY DEF Connect, Disconnect, MnsUp, MnsDown, Arrive, StorageChanged, Tick, storeVars
    <3>2. \A gone \in SUBSET Message : Erase(gone) => history' \subseteq history
      BY DEF Erase
    <3> QED
      BY <2>1, <2>6, <3>1, <3>2 DEF World
  <2>7. CASE Rest
    BY <2>1, <2>7 DEF Rest, vars, storeVars
  <2> QED
    BY <2>4, <2>5, <2>6, <2>7 DEF Next
<1> QED
  BY <1>1, BackfillInvariant, PTL DEF Spec, SafetySpec, ErasedStaysErased

-----------------------------------------------------------------------------
(***************************************************************************)
(* The inductive invariant of catching up.                                 *)
(***************************************************************************)

\* A store of an earlier connection.  The messages of one that is queued, or that
\* failed and is yet to be answered, are left to it: its failure sets gapped.
Stale(j) == j.kind = "store" /\ ~Ours(j)
Left(m) ==
    \/ \E j \in Queued : Stale(j) /\ m \in j.msgs
    \/ \E a \in Ended : Stale(a.job) /\ a.outcome # "ok" /\ m \in a.job.msgs

\* A message that this connection has to bring to history.
Open(m) == m \in Inbox /\ m \notin Stored /\ stamp[m] > floor /\ ~Left(m)

\* A message that bounds the listings of this connection, now or once a store of
\* an earlier one has run: not one that arrived live in it.
Counts(n) ==
    \/ \E r \in history : r.msg = n /\ (liveAfter = None \/ r.seen < liveAfter)
    \/ \E j \in Queued : Stale(j) /\ n \in j.msgs

\* The times of messages, scans and erasures have passed.
Times ==
    /\ \A i, k \in Inbox : i <= k => stamp[i] <= stamp[k]
    /\ floor <= now
    /\ liveAfter # None => liveAfter <= now
    /\ scan # None => scan.since <= now /\ scan.stored \subseteq Inbox

\* Locked storage is owing a listing; a connection remembers when it began, and
\* without one nothing of its is left.
Waits ==
    /\ enabled \/ owing
    /\ connected /\ enabled => liveAfter # None
    /\ ~connected => ~mns /\ pushes = <<>> /\ liveAfter = None /\ live = None /\ remembered = {}
    /\ \A j \in Queued : Ours(j) => connected /\ (j.kind = "list" => j.after = liveAfter)
    /\ \A a \in Ended : Ours(a.job) => connected

\* Nothing was passed over in this connection so far.
Intact == connected /\ ~gapped

\* No open message lies before the listings of this connection.
NoGap == \A m, n \in Message : Open(m) /\ Counts(n) => stamp[n] <= stamp[m] + Margin

\* What a scan, a plan or a store of this connection does not have arrived after it.
Later(ms, m) == m \in ms \/ \A n \in ms : n <= m
ScanCovers ==
    scan # None /\ Ours(Head(queue)) =>
        \A m \in Message : Open(m) => scan.since <= stamp[m] /\ m \notin scan.stored
PlanCovers ==
    \A a \in Ended : Ours(a.job) /\ a.job.kind = "list" /\ a.outcome = "ok" =>
        \A m \in Message : Open(m) => Later(a.plan, m)
StoreCovers ==
    \A j \in Queued : Ours(j) /\ j.kind = "store" => \A m \in Message : Open(m) => Later(j.msgs, m)

\* A store of this connection has the message, or had it and failed.
StoringNow(m) ==
    \/ \E j \in Queued : Ours(j) /\ j.kind = "store" /\ m \in j.msgs
    \/ \E a \in Ended :
          Ours(a.job) /\ a.job.kind = "store" /\ a.outcome # "ok" /\ m \in a.job.msgs

\* No message is left out for the sake of a copy that does not exist.
LiveWritten == live # None => \A m \in live : ~Open(m)
RememberedStored == \A m \in remembered : Open(m) => StoringNow(m)

\* The message is on its way to history, or the failure of what would have brought
\* it is on its way to the main loop.
Coming(m) ==
    \/ Pending(m) \/ timer \/ rerun \/ StoringNow(m)
    \/ \E j \in Queued : Ours(j) /\ j.kind = "list"
    \/ \E a \in Ended : Ours(a.job) /\ a.job.kind = "list" /\ (a.outcome = "ok" => m \in a.plan)
AllComing == mns /\ ~owing => \A m \in Message : Open(m) => Coming(m)

OnTheWay ==
    /\ NoGap /\ ScanCovers /\ PlanCovers /\ StoreCovers
    /\ LiveWritten /\ RememberedStored /\ AllComing
CatchInv == Times /\ Waits /\ (Intact => OnTheWay)

-----------------------------------------------------------------------------
(***************************************************************************)
(* What a step does to the open messages.                                  *)
(***************************************************************************)

LEMMA SameOpen ==
    ASSUME UNCHANGED <<stamp, floor, history, generation>>,
           \A m \in Message : Left(m) => Left(m)'
    PROVE  \A m \in Message : Open(m)' => Open(m)
BY DEF Open, Inbox, Stored

LEMMA SameCounts ==
    ASSUME UNCHANGED <<history, generation>>, liveAfter = None \/ liveAfter' = liveAfter,
           \A j \in Queued' : Stale(j)' => j \in Queued
    PROVE  \A n \in Message : Counts(n)' => Counts(n)
BY DEF Counts, Stale, Ours

LEMMA InboxTimes ==
    ASSUME BackfillInv
    PROVE  \A m \in Inbox : m \in Message /\ stamp[m] \in Nat /\ stamp[m] <= now
BY InboxKnown DEF BackfillInv, AllKnown, Typed, Inbox

LEMMA CatchInit == Init => CatchInv
<1> SUFFICES ASSUME Init PROVE CatchInv
  OBVIOUS
<1>1. Inbox = {} /\ Queued = {} /\ Ended = {} /\ scan = None /\ ~connected
  BY DEF Init, Inbox, Queued, Ended, Elems
<1>2. Times
  BY <1>1 DEF Init, Times
<1>3. Waits
  BY <1>1 DEF Init, Waits
<1> QED
  BY <1>1, <1>2, <1>3 DEF CatchInv, Intact

\* Steps that leave the operations and the history alone.
LEMMA FlagsCatch ==
    ASSUME BackfillInv, CatchInv, Times', Waits',
           UNCHANGED <<stamp, connected, pushes, queue, scan, done, generation, live,
                       remembered, history, floor, gapped>>,
           liveAfter = None \/ liveAfter' = liveAfter,
           Intact /\ mns' /\ ~owing' => (mns /\ ~owing /\ timer' = timer /\ rerun' = rerun)
                                         \/ timer' \/ rerun'
    PROVE  CatchInv'
<1>1. Queued' = Queued /\ Ended' = Ended /\ Announced' = Announced
  BY DEF Queued, Ended, Announced
<1>2. \A m \in Message : (Left(m)' <=> Left(m)) /\ (StoringNow(m)' <=> StoringNow(m))
                          /\ (Pending(m)' <=> Pending(m))
  BY <1>1 DEF Left, Stale, Ours, StoringNow, Pending, Fetches
<1>3. \A m \in Message : Open(m)' => Open(m)
  BY <1>2, SameOpen
<1>4. \A n \in Message : Counts(n)' => Counts(n)
  BY <1>1, SameCounts
<1> SUFFICES ASSUME Intact' PROVE OnTheWay'
  BY DEF CatchInv
<1>5. Intact /\ OnTheWay
  BY DEF Intact, CatchInv
<1>6. NoGap'
  BY <1>3, <1>4, <1>5 DEF OnTheWay, NoGap
<1>7. ScanCovers'
  BY <1>3, <1>5 DEF OnTheWay, ScanCovers, Ours
<1>8. PlanCovers'
  BY <1>1, <1>3, <1>5 DEF OnTheWay, PlanCovers, Ours
<1>9. StoreCovers'
  BY <1>1, <1>3, <1>5 DEF OnTheWay, StoreCovers, Ours
<1>10. LiveWritten' /\ RememberedStored'
  <2>1. remembered \in SUBSET Message /\ (live = None \/ live \in SUBSET Message)
    BY DEF BackfillInv, Typed
  <2> QED
    BY <1>2, <1>3, <1>5, <2>1 DEF OnTheWay, LiveWritten, RememberedStored
<1>11. AllComing'
  <2> SUFFICES ASSUME mns', ~owing', NEW m \in Message, Open(m)' PROVE Coming(m)'
    BY DEF AllComing
  <2>1. CASE timer' \/ rerun'
    BY <2>1 DEF Coming
  <2>2. CASE mns /\ ~owing /\ timer' = timer /\ rerun' = rerun
    <3>1. Coming(m)
      BY <1>3, <1>5, <2>2 DEF OnTheWay, AllComing
    <3> QED
      BY <1>1, <1>2, <2>2, <3>1 DEF Coming, Ours
  <2> QED
    BY <1>5, <2>1, <2>2
<1> QED
  BY <1>6, <1>7, <1>8, <1>9, <1>10, <1>11 DEF OnTheWay

LEMMA TickCatches ==
    ASSUME BackfillInv, BackfillInv', CatchInv, Tick \/ MnsDown \/ UNCHANGED vars
    PROVE  CatchInv'
<1>1. UNCHANGED <<stamp, connected, pushes, queue, scan, done, timer, rerun, generation,
                  liveAfter, live, remembered, enabled, history, floor, owing, gapped>>
  BY DEF Tick, MnsDown, vars, phoneVars, workVars, backfillVars, storeVars
<1>2. now' \in Nat /\ now' >= now /\ (mns' => mns)
  BY DEF Tick, MnsDown, vars, phoneVars, BackfillInv, Typed
<1>3. Times'
  <2>1. /\ floor \in Nat /\ now \in Nat /\ liveAfter \in Nat \cup {None}
        /\ (scan # None => scan.since \in Nat)
    BY DEF BackfillInv, Typed, Scan
  <2> QED
    BY <1>1, <1>2, <2>1 DEF CatchInv, Times, Inbox
<1>4. Waits'
  BY <1>1, <1>2 DEF CatchInv, Waits, Ours, Queued, Ended
<1> QED
  BY <1>1, <1>2, <1>3, <1>4, FlagsCatch

LEMMA RequestEffect ==
    ASSUME BackfillInv, NEW able \in BOOLEAN, Request(able)
    PROVE  /\ liveAfter' = liveAfter \/ (liveAfter = None /\ liveAfter' = now /\ able)
           /\ able => liveAfter' # None /\ (timer' \/ rerun')
           /\ ~able => UNCHANGED <<liveAfter, rerun, timer>>
<1>1. busy \in BOOLEAN /\ now \in Nat
  BY DEF BackfillInv, Typed
<1> QED
  BY <1>1, BackfillAssumption DEF Request, Schedule

LEMMA MnsUpCatches ==
    ASSUME BackfillInv, BackfillInv', CatchInv, MnsUp
    PROVE  CatchInv'
<1>1. /\ connected
      /\ UNCHANGED <<now, stamp, connected, pushes, queue, scan, done, busy, generation, live,
                     remembered, enabled, history, floor, owing, gapped>>
  BY DEF MnsUp, workVars, storeVars
<1>2. enabled \in BOOLEAN /\ Request(enabled)
  BY DEF BackfillInv, Typed, MnsUp
<1>3. /\ liveAfter' = liveAfter \/ (liveAfter = None /\ liveAfter' = now /\ enabled)
      /\ enabled => liveAfter' # None /\ (timer' \/ rerun')
  BY <1>2, RequestEffect
<1>4. Times'
  BY <1>1, <1>3 DEF CatchInv, Times, Inbox, BackfillInv, Typed
<1>5. Waits'
  <2>1. Queued' = Queued /\ Ended' = Ended
    BY <1>1 DEF Queued, Ended
  <2> QED
    BY <1>1, <1>3, <2>1 DEF CatchInv, Waits, Ours
<1>6. ~owing' => timer' \/ rerun'
  BY <1>1, <1>3 DEF CatchInv, Waits
<1> QED
  BY <1>1, <1>3, <1>4, <1>5, <1>6, FlagsCatch

LEMMA StorageChangedCatches ==
    ASSUME BackfillInv, BackfillInv', CatchInv, StorageChanged
    PROVE  CatchInv'
<1>1. /\ enabled' = ~enabled /\ owing' = (owing \/ enabled)
      /\ UNCHANGED <<now, stamp, mns, connected, pushes, queue, scan, done, busy, generation,
                     live, remembered, history, floor, gapped>>
  BY DEF StorageChanged, phoneVars, workVars
<1>2. /\ (connected /\ ~enabled) \in BOOLEAN /\ Request(connected /\ ~enabled)
      /\ connected \in BOOLEAN /\ enabled \in BOOLEAN /\ owing \in BOOLEAN
  BY DEF BackfillInv, Typed, StorageChanged
<1>3. /\ liveAfter' = liveAfter \/ (liveAfter = None /\ liveAfter' = now /\ connected)
      /\ connected /\ ~enabled => liveAfter' # None
  BY <1>2, RequestEffect
<1>4. Times'
  BY <1>1, <1>3 DEF CatchInv, Times, Inbox, BackfillInv, Typed
<1>5. owing'
  BY <1>1, <1>2 DEF CatchInv, Waits
<1>6. Waits'
  <2>1. Queued' = Queued /\ Ended' = Ended
    BY <1>1 DEF Queued, Ended
  <2>2. \A j \in Queued : Ours(j) /\ j.kind = "list" => liveAfter # None
    BY DEF BackfillInv, Flags, Switches
  <2> QED
    BY <1>1, <1>2, <1>3, <1>5, <2>1, <2>2 DEF CatchInv, Waits, Ours
<1> QED
  BY <1>1, <1>3, <1>4, <1>5, <1>6, FlagsCatch

\* A connection begins: what it can pass over is what PassedOver sees.
LEMMA ConnectCatches ==
    ASSUME BackfillInv, BackfillInv', CatchInv, Connect
    PROVE  CatchInv'
<1>1. /\ ~connected /\ connected' /\ owing' /\ gapped' = PassedOver
      /\ UNCHANGED <<now, stamp, mns, pushes, queue, scan, done, busy, generation, live,
                     remembered, enabled, history, floor>>
  BY DEF Connect, phoneVars, workVars, storeVars
<1>2. enabled \in BOOLEAN /\ Request(enabled) /\ now \in Nat
  BY DEF BackfillInv, Typed, Connect
<1>3. /\ liveAfter = None /\ live = None /\ remembered = {}
      /\ \A j \in Queued : ~Ours(j)
      /\ \A a \in Ended : ~Ours(a.job)
  BY <1>1 DEF CatchInv, Waits
<1>4. /\ liveAfter' = None \/ liveAfter' = now
      /\ enabled => liveAfter' # None
  BY <1>2, <1>3, RequestEffect
<1>5. Queued' = Queued /\ Ended' = Ended
  BY <1>1 DEF Queued, Ended
<1>6. Times'
  BY <1>1, <1>2, <1>4 DEF CatchInv, Times, Inbox
<1>7. Waits'
  BY <1>1, <1>3, <1>4, <1>5 DEF Waits, Ours
<1> SUFFICES ASSUME Intact' PROVE OnTheWay'
  BY <1>6, <1>7 DEF CatchInv
<1>8. ~PassedOver
  BY <1>1 DEF Intact
<1>9. \A m : m \in UnderWay <=> \E j \in Queued : j.kind = "store" /\ m \in j.msgs
  BY DEF UnderWay, Queued, Elems
<1>10. NoGap'
  <2> SUFFICES ASSUME NEW m \in Message, NEW n \in Message, Open(m)', Counts(n)'
               PROVE  (stamp[n] <= stamp[m] + Margin)'
    BY DEF NoGap
  <2>1. m \in Inbox /\ m \notin Stored /\ stamp[m] > floor
    BY <1>1 DEF Open, Inbox, Stored
  <2>2. m \notin UnderWay
    BY <1>1, <1>3, <1>5, <1>9 DEF Open, Left, Stale, Ours
  <2>3. n \in Stored \cup UnderWay
    BY <1>1, <1>5, <1>9 DEF Counts, Stale, Stored
  <2>4. ~(stamp[m] + Margin < stamp[n])
    BY <1>8, <2>1, <2>2, <2>3 DEF PassedOver
  <2>5. n \in Inbox
    BY <1>9, <2>3 DEF BackfillInv, AllKnown, Known
  <2>6. stamp[m] \in Nat /\ stamp[n] \in Nat /\ Margin \in Nat
    BY <2>1, <2>5, InboxTimes, BackfillAssumption
  <2> QED
    BY <1>1, <2>4, <2>6
<1>11. \A j \in Queued' : ~Ours(j)'
  BY <1>1, <1>3, <1>5 DEF Ours
<1>12. \A a \in Ended' : ~Ours(a.job)'
  BY <1>1, <1>3, <1>5 DEF Ours
<1>13. ScanCovers'
  <2>1. scan # None => Head(queue) \in Queued
    BY HeadKnown DEF BackfillInv, Flags
  <2> QED
    BY <1>1, <1>3, <2>1 DEF ScanCovers, Ours
<1>14. PlanCovers' /\ StoreCovers'
  BY <1>11, <1>12 DEF PlanCovers, StoreCovers
<1>15. LiveWritten' /\ RememberedStored' /\ AllComing'
  BY <1>1, <1>3 DEF LiveWritten, RememberedStored, AllComing
<1> QED
  BY <1>10, <1>13, <1>14, <1>15 DEF OnTheWay

LEMMA DisconnectCatches ==
    ASSUME BackfillInv, BackfillInv', CatchInv, Disconnect
    PROVE  CatchInv'
<1>1. /\ ~connected' /\ generation' = generation + 1 /\ ~mns' /\ pushes' = <<>>
      /\ liveAfter' = None /\ live' = None /\ remembered' = {}
      /\ UNCHANGED <<now, stamp, queue, scan, done, enabled, history, floor, owing>>
  BY DEF Disconnect, Reset, workVars, storeVars
<1>2. Queued' = Queued /\ Ended' = Ended
  BY <1>1 DEF Queued, Ended
<1>3. /\ \A j \in Queued : j.gen \in Nat /\ j.gen <= generation
      /\ \A a \in Ended : a.job.gen \in Nat /\ a.job.gen <= generation
      /\ generation \in Nat
  <2>1. /\ \A j \in Queued : j \in Job
        /\ \A a \in Ended : a \in Outcome
    BY DEF BackfillInv, Typed, Queued, Ended, Elems
  <2> QED
    BY <2>1 DEF BackfillInv, AllKnown, Known, Typed, Job, Outcome
<1>4. /\ \A j \in Queued' : ~Ours(j)'
      /\ \A a \in Ended' : ~Ours(a.job)'
  BY <1>1, <1>2, <1>3 DEF Ours
<1>5. Times'
  BY <1>1 DEF CatchInv, Times, Inbox
<1>6. Waits'
  BY <1>1, <1>4 DEF CatchInv, Waits
<1> QED
  BY <1>1, <1>5, <1>6 DEF CatchInv, Intact

\* What is erased, and whatever else the phone has, is no longer looked for.
LEMMA EraseCatches ==
    ASSUME BackfillInv, BackfillInv', CatchInv, NEW gone \in SUBSET Message, Erase(gone)
    PROVE  CatchInv'
<1>1. /\ floor' = Max({floor, now})
      /\ UNCHANGED <<now, stamp, mns, connected, pushes, queue, scan, done, generation,
                     liveAfter, live, remembered, enabled, owing, gapped>>
  BY DEF Erase, phoneVars, workVars, backfillVars
<1>2. floor \in Nat /\ now \in Nat /\ floor <= now
  BY DEF BackfillInv, Typed, CatchInv, Times
<1>3. floor' = now
  <2> DEFINE T == {floor, now}
  <2>1. T \in SUBSET Nat /\ T # {} /\ \A x \in T : x <= now
    BY <1>2
  <2>2. now \in T
    OBVIOUS
  <2>3. Max(T) \in T /\ \A y \in T : Max(T) >= y
    <3> HIDE DEF T
    <3> QED
      BY <1>2, <2>1, MaxOfBounded
  <2> QED
    BY <1>1, <1>2, <2>2, <2>3
<1>4. \A m \in Message : ~Open(m)'
  BY <1>1, <1>2, <1>3, InboxTimes DEF Open, Inbox
<1>5. Times'
  BY <1>1, <1>2, <1>3 DEF CatchInv, Times, Inbox
<1>6. Waits'
  BY <1>1 DEF CatchInv, Waits, Ours, Queued, Ended
<1>7. OnTheWay'
  <2>1. remembered' \in SUBSET Message /\ (live' = None \/ live' \in SUBSET Message)
    BY DEF BackfillInv, Typed
  <2> QED
    BY <1>4, <2>1 DEF OnTheWay, NoGap, ScanCovers, PlanCovers, StoreCovers, LiveWritten,
                      RememberedStored, AllComing
<1> QED
  BY <1>5, <1>6, <1>7 DEF CatchInv

\* A new message is later than all that is scanned, planned or stored.
LEMMA ArriveCatches ==
    ASSUME BackfillInv, BackfillInv', CatchInv, Arrive
    PROVE  CatchInv'
<1>1. /\ stamp' = Append(stamp, now)
      /\ pushes' = IF mns THEN Append(pushes, Len(stamp) + 1) ELSE pushes
      /\ UNCHANGED <<now, mns, connected, queue, scan, done, timer, rerun, generation,
                     liveAfter, live, remembered, enabled, history, floor, owing, gapped>>
  BY DEF Arrive, workVars, backfillVars, storeVars
<1>2. PICK k \in Nat : k = Len(stamp) + 1
  BY DEF BackfillInv, Typed
<1>3. /\ Inbox = 1 .. Len(stamp) /\ Inbox' = Inbox \cup {k} /\ k \notin Inbox
      /\ \A i \in Inbox : i \in Nat /\ i < k /\ stamp'[i] = stamp[i]
      /\ stamp'[k] = now /\ now \in Nat
  <2>1. /\ stamp \in Seq(Nat) /\ Len(stamp) \in Nat /\ now \in Nat
        /\ DOMAIN stamp = 1 .. Len(stamp)
    BY DEF BackfillInv, Typed
  <2>2. /\ DOMAIN stamp' = 1 .. Len(stamp) + 1
        /\ \A i \in 1 .. Len(stamp) : stamp'[i] = stamp[i]
        /\ stamp'[Len(stamp) + 1] = now
    BY <1>1, <2>1
  <2> QED
    BY <1>2, <2>1, <2>2 DEF Inbox
<1>4. Queued' = Queued /\ Ended' = Ended /\ Stored' = Stored
  BY <1>1 DEF Queued, Ended, Stored
<1>5. Times'
  <2>1. \A i, j \in Inbox' : i <= j => stamp'[i] <= stamp'[j]
    <3> SUFFICES ASSUME NEW i \in Inbox', NEW j \in Inbox', i <= j
                 PROVE  stamp'[i] <= stamp'[j]
      OBVIOUS
    <3>1. CASE i \in Inbox /\ j \in Inbox
      BY <1>3, <3>1 DEF CatchInv, Times
    <3>2. CASE j = k
      BY <1>3, <3>2, InboxTimes
    <3>3. CASE i = k /\ j \in Inbox
      BY <1>2, <1>3, <3>3
    <3> QED
      BY <1>3, <3>1, <3>2, <3>3
  <2> QED
    BY <1>1, <1>3, <2>1 DEF CatchInv, Times
<1>6. Waits'
  BY <1>1, <1>4 DEF CatchInv, Waits, Ours
<1> SUFFICES ASSUME Intact' PROVE OnTheWay'
  BY <1>5, <1>6 DEF CatchInv
<1>7. OnTheWay
  BY <1>1 DEF CatchInv, Intact
<1>8. \A m \in Message : Open(m)' => Open(m) \/ m = k
  BY <1>1, <1>3, <1>4 DEF Open, Left, Stale, Ours
<1>9. \A n \in Message : Counts(n)' => Counts(n) /\ n \in Inbox
  <2>1. \A r \in history : r.msg \in Inbox
    BY DEF BackfillInv, AllKnown, Stored
  <2>2. \A j \in Queued : j.msgs \subseteq Inbox
    BY DEF BackfillInv, AllKnown, Known
  <2> QED
    BY <1>1, <1>4, <2>1, <2>2 DEF Counts, Stale, Ours
<1>10. NoGap'
  <2> SUFFICES ASSUME NEW m \in Message, NEW n \in Message, Open(m)', Counts(n)'
               PROVE  stamp'[n] <= stamp'[m] + Margin
    BY DEF NoGap
  <2>1. n \in Inbox /\ stamp'[n] = stamp[n] /\ stamp[n] \in Nat /\ stamp[n] <= now
    BY <1>3, <1>9, InboxTimes
  <2>2. CASE m = k
    BY <1>3, <2>1, <2>2, BackfillAssumption
  <2>3. CASE Open(m) /\ m # k
    <3>1. m \in Inbox
      BY <2>3 DEF Open
    <3> QED
      BY <1>3, <1>7, <1>9, <2>1, <2>3, <3>1 DEF OnTheWay, NoGap
  <2> QED
    BY <1>8, <2>2, <2>3
<1>11. ScanCovers'
  <2> SUFFICES ASSUME scan # None, Ours(Head(queue)), NEW m \in Message, Open(m)'
               PROVE  scan.since <= stamp'[m] /\ m \notin scan.stored
    BY <1>1 DEF ScanCovers, Ours
  <2>1. CASE m = k
    BY <1>3, <2>1 DEF CatchInv, Times
  <2>2. CASE Open(m) /\ m # k
    <3>1. m \in Inbox
      BY <2>2 DEF Open
    <3> QED
      BY <1>3, <1>7, <2>2, <3>1 DEF OnTheWay, ScanCovers
  <2> QED
    BY <1>8, <2>1, <2>2
<1>12. \A ms \in SUBSET Inbox : Later(ms, k)
  BY <1>3 DEF Later
<1>13. PlanCovers'
  <2>1. \A a \in Ended : a.plan \subseteq Inbox
    BY DEF BackfillInv, AllKnown
  <2> QED
    BY <1>1, <1>4, <1>7, <1>8, <1>12, <2>1 DEF OnTheWay, PlanCovers, Ours
<1>14. StoreCovers'
  <2>1. \A j \in Queued : j.msgs \subseteq Inbox
    BY DEF BackfillInv, AllKnown, Known
  <2> QED
    BY <1>1, <1>4, <1>7, <1>8, <1>12, <2>1 DEF OnTheWay, StoreCovers, Ours
<1>15. /\ live = None \/ (live \subseteq Inbox /\ live \subseteq Message)
       /\ remembered \subseteq Inbox /\ remembered \subseteq Message
  BY DEF BackfillInv, AllKnown, Typed
<1>16. LiveWritten'
  BY <1>1, <1>3, <1>7, <1>8, <1>15 DEF OnTheWay, LiveWritten
<1>17. \A m \in Message : StoringNow(m)' <=> StoringNow(m)
  BY <1>1, <1>4 DEF StoringNow, Ours
<1>18. RememberedStored'
  BY <1>1, <1>3, <1>7, <1>8, <1>15, <1>17 DEF OnTheWay, RememberedStored
<1>19. AllComing'
  <2> SUFFICES ASSUME mns, ~owing, NEW m \in Message, Open(m)' PROVE Coming(m)'
    BY <1>1 DEF AllComing
  <2>1. k \in Message /\ pushes \in Seq(Message) /\ pushes' = Append(pushes, k)
    <3>1. k \in Message
      BY <1>2, BackfillAssumption DEF BackfillInv, Arrive, Typed, Message
    <3> QED
      BY <1>1, <1>2, <3>1 DEF BackfillInv, Typed
  <2>2. Announced' = Announced \cup {k}
    BY <2>1, AppendOnce DEF Announced
  <2>3. CASE m = k
    BY <2>2, <2>3 DEF Coming, Pending
  <2>4. CASE Open(m)
    <3>1. Coming(m)
      BY <1>7, <2>4 DEF OnTheWay, AllComing
    <3>2. Pending(m) => Pending(m)'
      BY <1>1, <1>4, <2>2 DEF Pending, Fetches, Ours
    <3> QED
      BY <1>1, <1>4, <1>17, <3>1, <3>2 DEF Coming, Ours
  <2> QED
    BY <1>8, <2>3, <2>4
<1> QED
  BY <1>10, <1>11, <1>13, <1>14, <1>16, <1>18, <1>19 DEF OnTheWay

-----------------------------------------------------------------------------
(***************************************************************************)
(* The worker.                                                             *)
(***************************************************************************)

\* An operation ends that writes nothing: its outcome carries on what it was.
LEMMA EndCatch ==
    ASSUME BackfillInv, BackfillInv', CatchInv, queue # <<>>, NEW a \in Outcome,
           Like(a.job, Head(queue)),
           queue' = Tail(queue), done' = Append(done, a), scan' = None,
           UNCHANGED <<now, stamp, mns, connected, pushes, timer, rerun, generation,
                       liveAfter, live, remembered, enabled, history, floor, owing, gapped>>,
           a.job.kind = "store" => a.outcome # "ok",
           Intact /\ Ours(a.job) /\ a.job.kind = "list" /\ a.outcome = "ok" =>
               \A m \in Message : Open(m) => m \in a.plan
    PROVE  CatchInv'
<1>1. PICK h : h = Head(queue)
  OBVIOUS
<1>2. /\ h \in Queued /\ Queued' = Queued \ {h} /\ Ended' = Ended \cup {a}
      /\ Announced' = Announced /\ Like(a.job, h)
  BY <1>1, EndEffect
<1>3. Times'
  BY DEF CatchInv, Times, Inbox
<1>4. Waits'
  BY <1>2 DEF CatchInv, Waits, Ours, Like
<1>5. \A m \in Message : /\ Left(m) => Left(m)'
                         /\ StoringNow(m) => StoringNow(m)'
                         /\ Pending(m) => Pending(m)'
  BY <1>2 DEF Left, Stale, StoringNow, Pending, Fetches, Ours, Like
<1>6. \A m \in Message : Open(m)' => Open(m)
  BY <1>5, SameOpen
<1>7. \A n \in Message : Counts(n)' => Counts(n)
  BY <1>2, SameCounts
<1> SUFFICES ASSUME Intact' PROVE OnTheWay'
  BY <1>3, <1>4 DEF CatchInv
<1>8. Intact /\ OnTheWay
  BY DEF Intact, CatchInv
<1>9. NoGap'
  BY <1>6, <1>7, <1>8 DEF OnTheWay, NoGap
<1>10. ScanCovers' /\ StoreCovers'
  BY <1>2, <1>6, <1>8 DEF OnTheWay, ScanCovers, StoreCovers, Ours
<1>11. PlanCovers'
  <2> SUFFICES ASSUME NEW b \in Ended', Ours(b.job), b.job.kind = "list", b.outcome = "ok",
                      NEW m \in Message, Open(m)
               PROVE  Later(b.plan, m)
    BY <1>6 DEF PlanCovers, Ours
  <2>1. CASE b \in Ended
    BY <1>8, <2>1 DEF OnTheWay, PlanCovers
  <2>2. CASE b = a
    BY <1>8, <2>2 DEF Later
  <2> QED
    BY <1>2, <2>1, <2>2
<1>12. LiveWritten' /\ RememberedStored'
  <2>1. remembered \in SUBSET Message /\ (live = None \/ live \in SUBSET Message)
    BY DEF BackfillInv, Typed
  <2> QED
    BY <1>5, <1>6, <1>8, <2>1 DEF OnTheWay, LiveWritten, RememberedStored
<1>13. AllComing'
  <2> SUFFICES ASSUME mns, ~owing, NEW m \in Message, Open(m) PROVE Coming(m)'
    BY <1>6 DEF AllComing
  <2>1. Coming(m)
    BY <1>8 DEF OnTheWay, AllComing
  <2>2. CASE Pending(m) \/ timer \/ rerun \/ StoringNow(m)
    BY <1>5, <2>2 DEF Coming
  <2>3. ASSUME NEW j \in Queued, Ours(j), j.kind = "list" PROVE Coming(m)'
    <3>1. CASE j # h
      BY <1>2, <2>3, <3>1 DEF Coming, Ours
    <3>2. CASE j = h
      <4>1. Ours(a.job) /\ a.job.kind = "list" /\ (a.outcome = "ok" => m \in a.plan)
        BY <1>2, <1>8, <2>3, <3>2 DEF Ours, Like
      <4> QED
        BY <1>2, <4>1 DEF Coming, Ours
    <3> QED
      BY <3>1, <3>2
  <2>4. ASSUME NEW b \in Ended, Ours(b.job), b.job.kind = "list", b.outcome = "ok" => m \in b.plan
        PROVE  Coming(m)'
    BY <1>2, <2>4 DEF Coming, Ours
  <2> QED
    BY <2>1, <2>2, <2>3, <2>4 DEF Coming
<1> QED
  BY <1>9, <1>10, <1>11, <1>12, <1>13 DEF OnTheWay

LEMMA RunFetchCatches ==
    ASSUME BackfillInv, BackfillInv', CatchInv, NEW ok \in BOOLEAN, RunFetch(ok)
    PROVE  CatchInv'
<1> DEFINE a == [job |-> Head(queue), outcome |-> IF ok THEN "ok" ELSE "failed", plan |-> {}]
<1>1. queue # <<>> /\ Head(queue).kind = "fetch"
  BY DEF RunFetch, Running
<1>2. a \in Outcome /\ Like(a.job, Head(queue)) /\ a.job.kind = "fetch"
  BY <1>1, HeadKnown DEF Outcome, Like
<1>3. scan = None
  BY <1>1 DEF BackfillInv, Flags
<1>4. /\ queue' = Tail(queue) /\ done' = Append(done, a) /\ scan' = None
      /\ UNCHANGED <<now, stamp, mns, connected, pushes, timer, rerun, generation,
                     liveAfter, live, remembered, enabled, history, floor, owing, gapped>>
  BY <1>3 DEF RunFetch, Ends, phoneVars, backfillVars
<1> HIDE DEF a
<1> QED
  BY <1>1, <1>2, <1>4, EndCatch

LEMMA ListInboxCatches ==
    ASSUME BackfillInv, BackfillInv', CatchInv, NEW ok \in BOOLEAN, ListInbox(ok)
    PROVE  CatchInv'
<1> DEFINE a == [job |-> [Head(queue) EXCEPT !.floor = scan.floor],
                 outcome |-> IF ok THEN "ok" ELSE "failed",
                 plan |-> IF ok THEN Unmatched ELSE {}]
<1>1. queue # <<>> /\ Head(queue).kind = "list" /\ scan # None
  BY DEF ListInbox, Running
<1>2. Head(queue) \in Job /\ scan \in Scan
  BY <1>1, HeadKnown DEF BackfillInv, Typed
<1>3. Unmatched \subseteq Message
  BY InboxKnown DEF Unmatched, BackfillInv
<1>4. a \in Outcome /\ Like(a.job, Head(queue))
  <2>1. a.job \in Job /\ Like(a.job, Head(queue))
    BY <1>2 DEF Job, Scan, Like
  <2> QED
    BY <1>3, <2>1 DEF Outcome
<1>5. /\ queue' = Tail(queue) /\ done' = Append(done, a) /\ scan' = None
      /\ UNCHANGED <<now, stamp, mns, connected, pushes, timer, rerun, generation,
                     liveAfter, live, remembered, enabled, history, floor, owing, gapped>>
  BY DEF ListInbox, phoneVars, backfillVars, storeVars
<1>6. a.job.kind = "list" /\ a.job.gen = Head(queue).gen
  BY <1>1, <1>4 DEF Like
<1>7. ASSUME Intact, Ours(a.job), a.outcome = "ok", NEW m \in Message, Open(m)
      PROVE  m \in a.plan
  <2>1. ok /\ a.plan = Unmatched
    BY <1>7
  <2>2. scan.since <= stamp[m] /\ m \notin scan.stored
    BY <1>1, <1>6, <1>7 DEF CatchInv, OnTheWay, ScanCovers, Ours
  <2>3. m \in Inbox /\ stamp[m] \in Nat /\ scan.since \in Nat
    BY <1>2, <1>7, InboxTimes DEF Open, Scan
  <2> QED
    BY <2>1, <2>2, <2>3 DEF Unmatched
<1> HIDE DEF a
<1> QED
  BY <1>1, <1>4, <1>5, <1>6, <1>7, EndCatch

LEMMA SinceBelow ==
    ASSUME BackfillInv, NEW t \in Nat, NEW b \in Nat, floor <= b,
           \A r \in history : r.seen < t => stamp[r.msg] <= b + Margin
    PROVE  BackfillSince(t) <= b
<1> DEFINE T == {floor} \cup {u - Margin : u \in {v \in CountingOld(t) : v > Margin}}
<1>1. \A u \in CountingOld(t) : u \in Nat /\ u <= b + Margin
  <2>1. \A r \in history : r.msg \in Inbox
    BY DEF BackfillInv, AllKnown, Stored
  <2>2. \A m \in Inbox : stamp[m] \in Nat
    BY DEF BackfillInv, Typed, Inbox
  <2> QED
    BY <2>1, <2>2 DEF CountingOld
<1>2. T \in SUBSET Nat /\ T # {}
  BY <1>1, BackfillAssumption DEF BackfillInv, Typed
<1>3. \A x \in T : x <= b
  BY <1>1, BackfillAssumption DEF BackfillInv, Typed
<1> HIDE DEF T
<1>4. Max(T) \in T
  BY <1>2, <1>3, MaxOfBounded
<1>5. BackfillSince(t) = Max(T)
  BY DEF BackfillSince, T
<1> QED
  BY <1>3, <1>4, <1>5

LEMMA CollectCatches ==
    ASSUME BackfillInv, BackfillInv', CatchInv, Collect
    PROVE  CatchInv'
<1>1. /\ queue # <<>> /\ Head(queue).kind = "list" /\ scan = None
      /\ UNCHANGED <<now, stamp, mns, connected, pushes, timer, rerun, generation,
                     liveAfter, live, remembered, enabled, history, floor, owing, gapped>>
  BY DEF Collect, Running, phoneVars, backfillVars, storeVars
<1>2. Head(queue) \in Queued /\ Head(queue) \in Job /\ Known(Head(queue))
  BY <1>1, HeadKnown
<1>3. CASE ~enabled
  <2> DEFINE a == [job |-> Head(queue), outcome |-> "failed", plan |-> {}]
  <2>1. a \in Outcome /\ Like(a.job, Head(queue)) /\ a.outcome # "ok"
    BY <1>2 DEF Outcome, Like
  <2>2. queue' = Tail(queue) /\ done' = Append(done, a) /\ scan' = None
    BY <1>1, <1>3 DEF Collect
  <2> HIDE DEF a
  <2> QED
    BY <1>1, <2>1, <2>2, EndCatch
<1>4. CASE enabled
  <2>1. PICK t \in Nat : t = Head(queue).after
    BY <1>1, <1>2 DEF Known, Job
  <2>2. PICK since \in Nat : since = BackfillSince(t)
    BY SinceAboveFloor
  <2>3. /\ UNCHANGED <<queue, done>>
        /\ scan' = [stored |-> Stored, floor |-> floor, since |-> since]
    BY <1>4, <2>1, <2>2 DEF Collect
  <2>4. /\ Queued' = Queued /\ Ended' = Ended /\ Announced' = Announced
        /\ scan'.stored = Stored /\ scan'.since = since
    BY <1>1, <2>3 DEF Queued, Ended, Announced
  <2>5. \A r \in history : r.msg \in Inbox /\ r.msg \in Message
    BY InboxTimes DEF BackfillInv, AllKnown, Stored
  <2>6. now \in Nat /\ floor \in Nat /\ Margin \in Nat
    BY BackfillAssumption DEF BackfillInv, Typed
  <2>7. Times'
    <3>1. floor <= now /\ \A r \in history : r.seen < t => stamp[r.msg] <= now + Margin
      BY <2>5, <2>6, InboxTimes DEF CatchInv, Times
    <3>2. since <= now
      BY <2>2, <2>6, <3>1, SinceBelow
    <3>3. Stored \subseteq Inbox
      BY DEF BackfillInv, AllKnown
    <3> QED
      BY <1>1, <2>4, <3>2, <3>3 DEF CatchInv, Times, Inbox
  <2>8. Waits'
    BY <1>1, <2>4 DEF CatchInv, Waits, Ours
  <2> SUFFICES ASSUME Intact' PROVE OnTheWay'
    BY <2>7, <2>8 DEF CatchInv
  <2>9. OnTheWay
    BY <1>1 DEF CatchInv, Intact
  <2>10. \A m \in Message : /\ Open(m)' <=> Open(m)
                            /\ Counts(m)' <=> Counts(m)
                            /\ StoringNow(m)' <=> StoringNow(m)
                            /\ Coming(m)' <=> Coming(m)
    BY <1>1, <2>4 DEF Open, Left, Stale, Counts, StoringNow, Coming, Pending, Fetches, Ours,
                      Inbox, Stored
  <2>11. ScanCovers'
    <3> SUFFICES ASSUME Ours(Head(queue)), NEW m \in Message, Open(m)
                 PROVE  since <= stamp[m] /\ m \notin Stored
      BY <1>1, <2>3, <2>4, <2>10 DEF ScanCovers, Ours
    <3>1. m \notin Stored /\ m \in Inbox /\ stamp[m] \in Nat /\ floor < stamp[m]
      BY InboxTimes DEF Open
    <3>2. t = liveAfter
      BY <1>1, <1>2, <2>1 DEF CatchInv, Waits
    <3>3. ASSUME NEW r \in history, r.seen < t PROVE stamp[r.msg] <= stamp[m] + Margin
      <4>1. Counts(r.msg)
        BY <3>2, <3>3 DEF Counts
      <4> QED
        BY <2>5, <2>9, <4>1 DEF OnTheWay, NoGap
    <3> QED
      BY <2>2, <2>6, <3>1, <3>3, SinceBelow
  <2>12. NoGap' /\ PlanCovers' /\ StoreCovers'
    BY <1>1, <2>4, <2>9, <2>10 DEF OnTheWay, NoGap, PlanCovers, StoreCovers, Ours
  <2>13. LiveWritten' /\ RememberedStored' /\ AllComing'
    <3>1. remembered \in SUBSET Message /\ (live = None \/ live \in SUBSET Message)
      BY DEF BackfillInv, Typed
    <3> QED
      BY <1>1, <2>9, <2>10, <3>1 DEF OnTheWay, LiveWritten, RememberedStored, AllComing
  <2> QED
    BY <2>11, <2>12, <2>13 DEF OnTheWay
<1> QED
  BY <1>3, <1>4 DEF BackfillInv, Typed

\* The store's messages are in history; those of one of this connection are not
\* later than what is still open.
LEMMA StoredCatches ==
    ASSUME BackfillInv, BackfillInv', CatchInv, queue # <<>>, Head(queue).kind = "store",
           NEW a \in Outcome, a.job = Head(queue), a.outcome = "ok",
           queue' = Tail(queue), done' = Append(done, a), scan' = None,
           history' = history \cup
               {[msg |-> m, seen |-> stamp[m], live |-> FALSE] : m \in Head(queue).msgs},
           UNCHANGED <<now, stamp, mns, connected, pushes, timer, rerun, generation,
                       liveAfter, live, remembered, enabled, floor, owing, gapped>>
    PROVE  CatchInv'
<1>1. PICK h : h = Head(queue)
  OBVIOUS
<1>2. h \in Queued /\ h \in Job /\ h.msgs \subseteq Inbox /\ h.kind = "store"
  BY <1>1, HeadKnown DEF Known
<1>3. Like(a.job, h)
  BY <1>1 DEF Like
<1>4. Queued' = Queued \ {h} /\ Ended' = Ended \cup {a} /\ Announced' = Announced
  BY <1>1, <1>3, EndEffect
<1>5. \A r \in history' :
          r \in history \/ \E m \in h.msgs : r.msg = m /\ r.seen = stamp[m]
  BY <1>1
<1>6. Stored' = Stored \cup h.msgs
  <2>1. \A m \in h.msgs : [msg |-> m, seen |-> stamp[m], live |-> FALSE] \in history'
    BY <1>1
  <2>2. history \subseteq history'
    OBVIOUS
  <2>3. \A m \in h.msgs : m \in Stored'
    <3> SUFFICES ASSUME NEW m \in h.msgs PROVE \E r \in history' : r.msg = m
      BY DEF Stored
    <3>1. PICK r : r = [msg |-> m, seen |-> stamp[m], live |-> FALSE]
      OBVIOUS
    <3>2. r \in history' /\ r.msg = m
      BY <2>1, <3>1
    <3> QED
      BY <3>2
  <2>4. \A m \in Stored : m \in Stored'
    BY <2>2 DEF Stored
  <2>5. \A m \in Stored' : m \in Stored \cup h.msgs
    BY <1>5 DEF Stored
  <2> QED
    BY <2>3, <2>4, <2>5
<1>7. Times'
  BY DEF CatchInv, Times, Inbox
<1>8. Waits'
  BY <1>1, <1>2, <1>4 DEF CatchInv, Waits, Ours
<1> SUFFICES ASSUME Intact' PROVE OnTheWay'
  BY <1>7, <1>8 DEF CatchInv
<1>9. Intact /\ OnTheWay
  BY DEF Intact, CatchInv
<1>10. \A m \in Message : Open(m)' => Open(m) /\ m \notin h.msgs
  <2> SUFFICES ASSUME NEW m \in Message, Open(m)' PROVE Open(m) /\ m \notin h.msgs
    OBVIOUS
  <2>1. m \in Inbox /\ m \notin Stored /\ m \notin h.msgs /\ stamp[m] > floor /\ ~Left(m)'
    BY <1>6 DEF Open, Inbox
  <2>2. Left(m) => Left(m)'
    BY <1>4, <2>1 DEF Left, Stale, Ours
  <2> QED
    BY <2>1, <2>2 DEF Open
<1>11. \A n \in Message : Counts(n)' => Counts(n) \/ (n \in h.msgs /\ Ours(h))
  <2> SUFFICES ASSUME NEW n \in Message, Counts(n)' PROVE Counts(n) \/ (n \in h.msgs /\ Ours(h))
    OBVIOUS
  <2>1. CASE \E j \in Queued' : Stale(j)' /\ n \in j.msgs
    BY <1>4, <2>1 DEF Counts, Stale, Ours
  <2>2. ASSUME NEW r \in history', r.msg = n, liveAfter = None \/ r.seen < liveAfter
        PROVE  Counts(n) \/ (n \in h.msgs /\ Ours(h))
    <3>1. CASE r \in history
      BY <2>2, <3>1 DEF Counts
    <3>2. CASE n \in h.msgs
      BY <1>2, <3>2 DEF Counts, Stale
    <3> QED
      BY <1>5, <2>2, <3>1, <3>2
  <2> QED
    BY <2>1, <2>2 DEF Counts
<1>12. NoGap'
  <2> SUFFICES ASSUME NEW m \in Message, NEW n \in Message, Open(m)', Counts(n)'
               PROVE  stamp[n] <= stamp[m] + Margin
    BY DEF NoGap
  <2>1. Open(m) /\ m \notin h.msgs /\ m \in Inbox
    BY <1>10 DEF Open
  <2>2. CASE Counts(n)
    BY <1>9, <2>1, <2>2 DEF OnTheWay, NoGap
  <2>3. CASE n \in h.msgs /\ Ours(h)
    <3>1. n <= m
      BY <1>2, <1>9, <2>1, <2>3 DEF OnTheWay, StoreCovers, Later
    <3>2. n \in Inbox /\ stamp[n] <= stamp[m]
      BY <1>2, <2>1, <2>3, <3>1 DEF CatchInv, Times
    <3> QED
      BY <2>1, <3>2, InboxTimes, BackfillAssumption
  <2> QED
    BY <1>11, <2>2, <2>3
<1>13. ScanCovers'
  BY DEF ScanCovers
<1>14. StoreCovers'
  BY <1>4, <1>9, <1>10 DEF OnTheWay, StoreCovers, Ours
<1>15. PlanCovers'
  <2>1. a.job.kind # "list"
    BY <1>1, <1>2
  <2> QED
    BY <1>4, <1>9, <1>10, <2>1 DEF OnTheWay, PlanCovers, Ours
<1>16. \A m \in Message : Open(m)' /\ StoringNow(m) => StoringNow(m)'
  BY <1>4, <1>10 DEF StoringNow, Ours
<1>17. LiveWritten' /\ RememberedStored'
  <2>1. remembered \in SUBSET Message /\ (live = None \/ live \in SUBSET Message)
    BY DEF BackfillInv, Typed
  <2> QED
    BY <1>9, <1>10, <1>16, <2>1 DEF OnTheWay, LiveWritten, RememberedStored
<1>18. AllComing'
  <2> SUFFICES ASSUME mns, ~owing, NEW m \in Message, Open(m)' PROVE Coming(m)'
    BY DEF AllComing
  <2>1. Coming(m)
    BY <1>9, <1>10 DEF OnTheWay, AllComing
  <2>2. Pending(m) => Pending(m)'
    BY <1>2, <1>4 DEF Pending, Fetches, Ours
  <2> QED
    BY <1>2, <1>4, <1>16, <2>1, <2>2 DEF Coming, Ours
<1> QED
  BY <1>12, <1>13, <1>14, <1>15, <1>17, <1>18 DEF OnTheWay

LEMMA RunStoreCatches ==
    ASSUME BackfillInv, BackfillInv', CatchInv, NEW ok \in BOOLEAN, RunStore(ok)
    PROVE  CatchInv'
<1>1. PICK o \in {"ok", "failed", "erased"} :
          o = IF ~enabled \/ ~ok THEN "failed" ELSE IF Refuses(Head(queue)) THEN "erased" ELSE "ok"
  OBVIOUS
<1> DEFINE a == [job |-> Head(queue), outcome |-> o, plan |-> {}]
<1>2. queue # <<>> /\ Head(queue).kind = "store"
  BY DEF RunStore, Running
<1>3. a \in Outcome /\ Like(a.job, Head(queue)) /\ a.job = Head(queue) /\ a.outcome = o
  BY <1>2, HeadKnown DEF Outcome, Like
<1>4. scan = None
  BY <1>2 DEF BackfillInv, Flags
<1>5. /\ queue' = Tail(queue) /\ done' = Append(done, a) /\ scan' = None
      /\ UNCHANGED <<now, stamp, mns, connected, pushes, timer, rerun, generation,
                     liveAfter, live, remembered, enabled, floor, owing, gapped>>
  BY <1>1, <1>4 DEF RunStore, Ends, phoneVars, backfillVars
<1>6. IF o = "ok"
        THEN history' = history \cup
                {[msg |-> m, seen |-> stamp[m], live |-> FALSE] : m \in Head(queue).msgs}
        ELSE UNCHANGED history
  BY <1>1 DEF RunStore
<1> HIDE DEF a
<1>7. CASE o = "ok"
  BY <1>2, <1>3, <1>5, <1>6, <1>7, StoredCatches
<1>8. CASE o # "ok"
  BY <1>2, <1>3, <1>5, <1>6, <1>8, EndCatch
<1> QED
  BY <1>7, <1>8

-----------------------------------------------------------------------------
(***************************************************************************)
(* The main loop.                                                          *)
(***************************************************************************)

\* An outcome is answered that writes nothing and asks for nothing.
LEMMA AnswerCatch ==
    ASSUME BackfillInv, BackfillInv', CatchInv, NEW a \in Ended, Ended' = Ended \ {a},
           UNCHANGED <<now, stamp, mns, connected, pushes, queue, scan, generation, liveAfter,
                       enabled, history, floor>>,
           owing => owing', gapped => gapped',
           Stale(a.job) /\ a.outcome # "ok" => gapped',
           live' = live \/ live' = None,
           remembered' \subseteq remembered,
           Ours(a.job) /\ a.job.kind = "store" /\ a.outcome # "ok" =>
               \A m \in a.job.msgs : m \notin remembered',
           Intact /\ ~owing' /\ (timer \/ rerun) => timer' \/ rerun',
           Intact /\ ~owing' /\ Ours(a.job) =>
               /\ a.job.kind = "fetch" => \A m \in a.job.msgs : ~Open(m)
               /\ a.job.kind = "store" => a.outcome = "ok"
               /\ a.job.kind = "list" => a.outcome = "ok" /\ \A m \in a.plan : ~Open(m)
    PROVE  CatchInv'
<1>1. Queued' = Queued /\ Announced' = Announced
  BY DEF Queued, Announced
<1>2. Times'
  BY DEF CatchInv, Times, Inbox
<1>3. Waits'
  BY <1>1 DEF CatchInv, Waits, Ours
<1> SUFFICES ASSUME Intact' PROVE OnTheWay'
  BY <1>2, <1>3 DEF CatchInv
<1>4. Intact /\ OnTheWay /\ ~gapped'
  BY DEF Intact, CatchInv
<1>5. \A m \in Message : Left(m) => Left(m)'
  BY <1>1, <1>4 DEF Left, Stale, Ours
<1>6. \A m \in Message : Open(m)' => Open(m)
  BY <1>5, SameOpen
<1>7. \A n \in Message : Counts(n)' => Counts(n)
  BY <1>1, SameCounts
<1>8. NoGap'
  BY <1>4, <1>6, <1>7 DEF OnTheWay, NoGap
<1>9. ScanCovers' /\ PlanCovers' /\ StoreCovers'
  BY <1>1, <1>4, <1>6 DEF OnTheWay, ScanCovers, PlanCovers, StoreCovers, Ours
<1>10. remembered \in SUBSET Message /\ (live = None \/ live \in SUBSET Message)
  BY DEF BackfillInv, Typed
<1>11. LiveWritten'
  BY <1>4, <1>6, <1>10 DEF OnTheWay, LiveWritten
<1>12. RememberedStored'
  <2> SUFFICES ASSUME NEW m \in remembered', Open(m)' PROVE StoringNow(m)'
    BY DEF RememberedStored
  <2>1. StoringNow(m)
    BY <1>4, <1>6, <1>10 DEF OnTheWay, RememberedStored
  <2> QED
    BY <1>1, <2>1 DEF StoringNow, Ours
<1>13. AllComing'
  <2> SUFFICES ASSUME mns, ~owing', NEW m \in Message, Open(m) PROVE Coming(m)'
    BY <1>6 DEF AllComing
  <2>1. Coming(m)
    BY <1>4 DEF OnTheWay, AllComing
  <2>2. Pending(m) => Pending(m)'
    BY <1>1, <1>4 DEF Pending, Fetches, Ours
  <2>3. StoringNow(m) => StoringNow(m)'
    BY <1>1, <1>4 DEF StoringNow, Ours
  <2> QED
    BY <1>1, <1>4, <2>1, <2>2, <2>3 DEF Coming, Ours
<1> QED
  BY <1>8, <1>9, <1>11, <1>12, <1>13 DEF OnTheWay

\* A backfill ends; one that was asked for in the meantime is scheduled.
LEMMA FinishEffect ==
    ASSUME BackfillInv, NEW gen, Finish(gen)
    PROVE  /\ liveAfter' = liveAfter /\ (live' = live \/ live' = None)
           /\ connected /\ enabled /\ (timer \/ rerun) => timer' \/ rerun'
           /\ gen = generation => live' = None
<1>1. CASE gen # generation
  BY <1>1 DEF Finish
<1>2. CASE gen = generation
  <2>1. rerun => liveAfter # None
    BY DEF BackfillInv, Flags, Switches
  <2> QED
    BY <1>2, <2>1 DEF Finish, Schedule
<1> QED
  BY <1>1, <1>2

LEMMA ListingFailedCatches ==
    ASSUME BackfillInv, BackfillInv', CatchInv, ListingFailed
    PROVE  CatchInv'
<1>1. PICK a \in Ended : a = Answer /\ Ended' = Ended \ {a}
  BY AnswerEffect DEF ListingFailed, Answers
<1>2. /\ a.job.kind = "list" /\ a.outcome = "failed" /\ Finish(a.job.gen)
      /\ owing' = (owing \/ Ours(a.job))
      /\ UNCHANGED <<now, stamp, mns, connected, pushes, queue, scan, generation, remembered,
                     enabled, history, floor, gapped>>
  BY <1>1 DEF ListingFailed, Answers, Current, Ours, phoneVars, storeVars
<1>3. /\ liveAfter' = liveAfter /\ (live' = live \/ live' = None)
      /\ connected /\ enabled /\ (timer \/ rerun) => timer' \/ rerun'
  BY <1>2, FinishEffect
<1>4. Intact /\ ~owing' => connected /\ enabled /\ ~Ours(a.job)
  BY <1>2 DEF CatchInv, Waits, Intact
<1>5. ~Stale(a.job)
  BY <1>2 DEF Stale
<1> QED
  BY <1>1, <1>2, <1>3, <1>4, <1>5, AnswerCatch

LEMMA StoreEndedCatches ==
    ASSUME BackfillInv, BackfillInv', CatchInv, StoreEnded
    PROVE  CatchInv'
<1>1. PICK a \in Ended : a = Answer /\ Ended' = Ended \ {a}
  BY AnswerEffect DEF StoreEnded, Answers
<1>2. /\ a.job.kind = "store" /\ Finish(a.job.gen)
      /\ remembered' = IF a.outcome = "ok" THEN remembered ELSE remembered \ a.job.msgs
      /\ owing' = (owing \/ (Ours(a.job) /\ a.outcome # "ok"))
      /\ gapped' = (gapped \/ (~Ours(a.job) /\ a.outcome # "ok"))
      /\ UNCHANGED <<now, stamp, mns, connected, pushes, queue, scan, generation,
                     enabled, history, floor>>
  BY <1>1 DEF StoreEnded, Answers, Current, Ours, phoneVars, storeVars
<1>3. /\ liveAfter' = liveAfter /\ (live' = live \/ live' = None)
      /\ connected /\ enabled /\ (timer \/ rerun) => timer' \/ rerun'
  BY <1>2, FinishEffect
<1>4. Intact /\ ~owing' => connected /\ enabled /\ (Ours(a.job) => a.outcome = "ok")
  BY <1>2 DEF CatchInv, Waits, Intact
<1>5. Stale(a.job) => ~Ours(a.job)
  BY DEF Stale
<1> QED
  BY <1>1, <1>2, <1>3, <1>4, <1>5, AnswerCatch

\* A plan arrives.  What it lacks and is open was not delivered live since the
\* listing began; the store has all of it.
LEMMA PlannedCatches ==
    ASSUME BackfillInv, BackfillInv', CatchInv, NEW ok \in BOOLEAN, Planned(ok)
    PROVE  CatchInv'
<1>1. PICK a \in Ended : a = Answer /\ Ended' = Ended \ {a}
  BY AnswerEffect DEF Planned, Answers
<1>2. PICK ms : ms = Missing
  OBVIOUS
<1>3. /\ a.job.kind = "list" /\ a.outcome = "ok" /\ owing' = (owing \/ ~ok)
      /\ ms = a.plan \ (IF live = None THEN {} ELSE live)
      /\ UNCHANGED <<now, stamp, mns, connected, pushes, scan, generation, enabled, history,
                     floor, gapped>>
  BY <1>1, <1>2 DEF Planned, Answers, Missing, phoneVars, storeVars
<1>4. ASSUME Intact, Ours(a.job) PROVE \A m \in a.plan \ ms : ~Open(m)
  <2>1. live # None /\ \A m \in live : ~Open(m)
    BY <1>3, <1>4 DEF CatchInv, OnTheWay, LiveWritten, BackfillInv, Flags
  <2> QED
    BY <1>3, <2>1
<1>5. CASE ~(Ours(a.job) /\ connected /\ enabled) \/ ms = {} \/ ~ok
  <2>1. Finish(a.job.gen) /\ UNCHANGED <<remembered, queue>>
    BY <1>1, <1>2, <1>5 DEF Planned, Current, Ours
  <2>2. /\ liveAfter' = liveAfter /\ (live' = live \/ live' = None)
        /\ connected /\ enabled /\ (timer \/ rerun) => timer' \/ rerun'
    BY <2>1, FinishEffect
  <2>3. Intact /\ ~owing' => connected /\ enabled /\ ok
    BY <1>3 DEF CatchInv, Waits, Intact
  <2>4. Intact /\ ~owing' /\ Ours(a.job) => \A m \in a.plan : ~Open(m)
    BY <1>4, <1>5, <2>3
  <2>5. ~Stale(a.job)
    BY <1>3 DEF Stale
  <2> QED
    BY <1>1, <1>3, <2>1, <2>2, <2>3, <2>4, <2>5, AnswerCatch
<1>6. CASE Ours(a.job) /\ connected /\ enabled /\ ms # {} /\ ok
  <2> DEFINE S == Storing(ms, a.job.floor)
  <2>1. PICK s : s = S
    OBVIOUS
  <2>2. /\ live' = None /\ remembered' = remembered \cup ms /\ queue' = Append(queue, s)
        /\ UNCHANGED <<timer, rerun, liveAfter>>
    BY <1>1, <1>2, <1>6, <2>1 DEF Planned, Current, Ours
  <2>3. s \in Job /\ s.kind = "store" /\ Ours(s) /\ s.msgs = ms
    <3>1. a \in Outcome
      BY DEF BackfillInv, Typed, Ended, Elems
    <3>2. ms \in SUBSET Message /\ a.job.floor \in Nat /\ generation \in Nat
      BY <1>3, <3>1 DEF Outcome, Job, BackfillInv, Typed
    <3> QED
      BY <2>1, <3>2 DEF Storing, Job, Ours
  <2>4. Queued' = Queued \cup {s} /\ Announced' = Announced
    BY <1>3, <2>2, <2>3, AppendOnce DEF BackfillInv, Typed, Queued, Announced
  <2>5. scan # None => Head(queue') = Head(queue)
    BY <2>2, <2>3, HeadStays DEF BackfillInv, Typed, Flags
  <2>6. Times'
    BY <1>3, <2>2 DEF CatchInv, Times, Inbox
  <2>7. Waits'
    BY <1>1, <1>3, <1>6, <2>2, <2>3, <2>4 DEF CatchInv, Waits, Ours
  <2> SUFFICES ASSUME Intact' PROVE OnTheWay'
    BY <2>6, <2>7 DEF CatchInv
  <2>8. Intact /\ OnTheWay
    BY <1>3 DEF Intact, CatchInv
  <2>9. \A m \in a.plan \ ms : ~Open(m)
    BY <1>4, <1>6, <2>8
  <2>10. \A m \in Message : Left(m) => Left(m)'
    BY <1>1, <1>3, <2>4 DEF Left, Stale, Ours
  <2>11. \A m \in Message : Open(m)' => Open(m)
    BY <1>3, <2>10, SameOpen
  <2>12. \A n \in Message : Counts(n)' => Counts(n)
    <3>1. \A j \in Queued' : Stale(j)' => j \in Queued
      BY <1>3, <2>3, <2>4 DEF Stale, Ours
    <3> QED
      BY <1>3, <2>2, <3>1, SameCounts
  <2>13. NoGap'
    BY <1>3, <2>8, <2>11, <2>12 DEF OnTheWay, NoGap
  <2>14. ScanCovers' /\ PlanCovers'
    BY <1>1, <1>3, <2>5, <2>8, <2>11 DEF OnTheWay, ScanCovers, PlanCovers, Ours
  <2>15. StoreCovers'
    <3>1. ASSUME NEW m \in Message, Open(m) PROVE Later(ms, m)
      <4>1. Later(a.plan, m)
        BY <1>3, <1>6, <2>8, <3>1 DEF OnTheWay, PlanCovers
      <4> QED
        BY <1>3, <2>9, <3>1, <4>1 DEF Later
    <3> QED
      BY <1>3, <2>3, <2>4, <2>8, <2>11, <3>1 DEF OnTheWay, StoreCovers, Ours
  <2>16. \A m \in Message : StoringNow(m) \/ m \in ms => StoringNow(m)'
    BY <1>1, <1>3, <2>3, <2>4 DEF StoringNow, Ours
  <2>17. LiveWritten' /\ RememberedStored'
    <3>1. remembered \in SUBSET Message /\ remembered' \in SUBSET Message
      BY DEF BackfillInv, Typed
    <3> QED
      BY <2>2, <2>8, <2>11, <2>16, <3>1 DEF OnTheWay, LiveWritten, RememberedStored
  <2>18. AllComing'
    <3> SUFFICES ASSUME mns, ~owing, NEW m \in Message, Open(m) PROVE Coming(m)'
      BY <1>3, <2>11 DEF AllComing
    <3>1. Coming(m)
      BY <2>8 DEF OnTheWay, AllComing
    <3>2. Pending(m) => Pending(m)'
      BY <1>1, <1>3, <2>4 DEF Pending, Fetches, Ours
    <3>3. m \in a.plan => m \in ms
      BY <2>9
    <3> QED
      BY <1>1, <1>3, <2>2, <2>4, <2>16, <3>1, <3>2, <3>3 DEF Coming, Ours
  <2> QED
    BY <2>13, <2>14, <2>15, <2>17, <2>18 DEF OnTheWay
<1> QED
  BY <1>5, <1>6

\* A message is delivered live: it is written, or a store of this connection has
\* it.  Arrived in this connection, it bounds no listing.
LEMMA LiveMessageCatches ==
    ASSUME BackfillInv, BackfillInv', CatchInv, NEW a \in Ended, Ended' = Ended \ {a},
           a.job.kind = "fetch", Ours(a.job), NEW n \in Message, a.job.msgs = {n},
           NEW ok \in BOOLEAN, LiveMessage(n, ok),
           UNCHANGED <<now, stamp, mns, connected, pushes, queue, scan, timer, rerun,
                       generation, liveAfter, enabled, floor>>
    PROVE  CatchInv'
<1>1. Queued' = Queued /\ Announced' = Announced
  BY DEF Queued, Announced
<1>2. /\ remembered' = remembered \ {n}
      /\ live' = IF live # None /\ n \notin remembered THEN live \cup {n} ELSE live
      /\ owing' = (owing \/ ~ok)
      /\ gapped' = (gapped \/ (live # None /\ n \notin remembered /\ ~(enabled /\ ok)))
  BY DEF LiveMessage, Persists
<1>3. PICK row : row = [msg |-> n, seen |-> now, live |-> TRUE]
  OBVIOUS
<1>4. row.msg = n /\ row.seen = now
  BY <1>3
<1>5. IF n \notin remembered /\ enabled /\ ok
        THEN history' = history \cup {row} ELSE history' = history
  BY <1>3 DEF LiveMessage, Persists
<1>6. connected
  BY DEF CatchInv, Waits
<1>7. Times'
  BY DEF CatchInv, Times, Inbox
<1>8. Waits'
  BY <1>1, <1>2, <1>6 DEF CatchInv, Waits, Ours
<1> SUFFICES ASSUME Intact' PROVE OnTheWay'
  BY <1>7, <1>8 DEF CatchInv
<1>9. Intact /\ OnTheWay /\ ~gapped'
  BY <1>2 DEF Intact, CatchInv
<1>10. \A m \in Message : Left(m)' <=> Left(m)
  BY <1>1 DEF Left, Stale, Ours
<1>11. \A m \in Message : Open(m)' =>
           Open(m) /\ (m = n => ~(n \notin remembered /\ enabled /\ ok))
  BY <1>4, <1>5, <1>10 DEF Open, Inbox, Stored
<1>12. \A k \in Message : Counts(k)' => Counts(k)
  <2>1. \A j : Stale(j)' <=> Stale(j)
    BY DEF Stale, Ours
  <2>2. CASE history' = history
    BY <1>1, <2>1, <2>2 DEF Counts
  <2>3. CASE enabled /\ history' = history \cup {row}
    <3>1. liveAfter \in Nat /\ now \in Nat /\ liveAfter <= now /\ liveAfter # None
      BY <1>6, <2>3 DEF CatchInv, Waits, Times, BackfillInv, Typed
    <3> QED
      BY <1>1, <1>4, <2>1, <2>3, <3>1 DEF Counts
  <2> QED
    BY <1>5, <2>2, <2>3
<1>13. NoGap'
  BY <1>9, <1>11, <1>12 DEF OnTheWay, NoGap
<1>14. ScanCovers' /\ PlanCovers' /\ StoreCovers'
  BY <1>1, <1>9, <1>11 DEF OnTheWay, ScanCovers, PlanCovers, StoreCovers, Ours
<1>15. \A m \in Message : StoringNow(m)' <=> StoringNow(m)
  BY <1>1 DEF StoringNow, Ours
<1>16. remembered \in SUBSET Message /\ (live = None \/ live \in SUBSET Message)
  BY DEF BackfillInv, Typed
<1>17. LiveWritten'
  <2> SUFFICES ASSUME live' # None, NEW m \in live', Open(m)' PROVE FALSE
    BY DEF LiveWritten
  <2>1. CASE live # None /\ n \notin remembered
    <3>1. enabled /\ ok
      BY <1>2, <1>9, <2>1
    <3>2. m \in live \/ m = n
      BY <1>2, <2>1
    <3>3. m # n
      BY <1>11, <2>1, <3>1
    <3> QED
      BY <1>9, <1>11, <1>16, <2>1, <3>2, <3>3 DEF OnTheWay, LiveWritten
  <2>2. CASE ~(live # None /\ n \notin remembered)
    BY <1>2, <1>9, <1>11, <1>16, <2>2 DEF OnTheWay, LiveWritten
  <2> QED
    BY <2>1, <2>2
<1>18. RememberedStored'
  BY <1>2, <1>9, <1>11, <1>15, <1>16 DEF OnTheWay, RememberedStored
<1>19. AllComing'
  <2> SUFFICES ASSUME mns, ~owing', NEW m \in Message, Open(m)' PROVE Coming(m)'
    BY DEF AllComing
  <2>1. ~owing /\ ok /\ enabled
    BY <1>2 DEF CatchInv, Waits
  <2>2. Open(m) /\ Coming(m)
    BY <1>9, <1>11, <2>1 DEF OnTheWay, AllComing
  <2>3. CASE m = n
    <3>1. n \in remembered
      BY <1>11, <2>1, <2>3
    <3>2. StoringNow(n)
      BY <1>9, <2>2, <2>3, <3>1 DEF OnTheWay, RememberedStored
    <3> QED
      BY <1>15, <2>3, <3>2 DEF Coming
  <2>4. CASE m # n
    <3>1. Pending(m) => Pending(m)'
      BY <1>1, <2>4 DEF Pending, Fetches, Ours
    <3> QED
      BY <1>1, <1>15, <2>2, <3>1 DEF Coming, Ours
  <2> QED
    BY <2>3, <2>4
<1> QED
  BY <1>13, <1>14, <1>17, <1>18, <1>19 DEF OnTheWay

LEMMA FetchedCatches ==
    ASSUME BackfillInv, BackfillInv', CatchInv, NEW ok \in BOOLEAN, Fetched(ok)
    PROVE  CatchInv'
<1>1. PICK a \in Ended : a = Answer /\ Ended' = Ended \ {a}
  BY AnswerEffect DEF Fetched, Answers
<1>2. /\ a.job.kind = "fetch"
      /\ UNCHANGED <<now, stamp, mns, connected, pushes, queue, scan, timer, rerun,
                     generation, liveAfter, enabled, floor>>
  BY <1>1 DEF Fetched, Answers, phoneVars
<1>3. CASE Ours(a.job) /\ a.outcome = "ok"
  <2>1. PICK n \in a.job.msgs : LiveMessage(n, ok)
    BY <1>1, <1>3 DEF Fetched, Current, Ours
  <2>2. n \in Message /\ a.job.msgs = {n}
    <3>1. Known(a.job)
      BY DEF BackfillInv, AllKnown
    <3> QED
      BY <1>2, <2>1, <3>1, InboxTimes DEF Known
  <2> QED
    BY <1>1, <1>2, <1>3, <2>1, <2>2, LiveMessageCatches
<1>4. CASE ~(Ours(a.job) /\ a.outcome = "ok")
  <2>1. /\ owing' = (owing \/ Ours(a.job))
        /\ UNCHANGED <<remembered, live, history, gapped>>
    BY <1>1, <1>4 DEF Fetched, Current, Ours
  <2>2. ~Stale(a.job)
    BY <1>2 DEF Stale
  <2> QED
    BY <1>1, <1>2, <2>1, <2>2, AnswerCatch
<1> QED
  BY <1>3, <1>4

\* A listing begins, and has everything on its way that is open.
LEMMA FireCatches ==
    ASSUME BackfillInv, BackfillInv', CatchInv, NEW ok \in BOOLEAN, Fire(ok)
    PROVE  CatchInv'
<1>1. /\ timer
      /\ UNCHANGED <<now, stamp, mns, connected, pushes, scan, done, rerun, generation,
                     liveAfter, remembered, enabled, history, floor, gapped>>
  BY DEF Fire, phoneVars, storeVars
<1>2. connected
  BY <1>1 DEF CatchInv, Waits, BackfillInv, Flags, Switches
<1>3. Ended' = Ended /\ Announced' = Announced
  BY <1>1 DEF Ended, Announced
<1>4. Times'
  BY <1>1 DEF CatchInv, Times, Inbox
<1>5. CASE ~(enabled /\ ok)
  <2>1. UNCHANGED <<queue, live>> /\ owing'
    BY <1>5 DEF Fire
  <2>2. Waits'
    BY <1>1, <1>2, <2>1 DEF CatchInv, Waits, Ours, Queued, Ended
  <2> QED
    BY <1>1, <1>4, <2>1, <2>2, FlagsCatch
<1>6. CASE enabled /\ ok
  <2>1. PICK l : l = Listing
    OBVIOUS
  <2>2. live' = {} /\ queue' = Append(queue, l)
    BY <1>6, <2>1 DEF Fire
  <2>3. l \in Job /\ l.kind = "list" /\ Ours(l) /\ l.after = liveAfter
    BY <2>1 DEF Listing, Job, Ours, BackfillInv, Typed
  <2>4. Queued' = Queued \cup {l}
    BY <2>2, <2>3, AppendOnce DEF BackfillInv, Typed, Queued
  <2>5. scan # None => Head(queue') = Head(queue)
    BY <2>2, <2>3, HeadStays DEF BackfillInv, Typed, Flags
  <2>6. Waits'
    BY <1>1, <1>2, <1>3, <1>6, <2>3, <2>4 DEF CatchInv, Waits, Ours
  <2> SUFFICES ASSUME Intact' PROVE OnTheWay'
    BY <1>4, <2>6 DEF CatchInv
  <2>7. OnTheWay
    BY <1>1 DEF Intact, CatchInv
  <2>8. \A m \in Message : Left(m) => Left(m)'
    BY <1>1, <1>3, <2>4 DEF Left, Stale, Ours
  <2>9. \A m \in Message : Open(m)' => Open(m)
    BY <1>1, <2>8, SameOpen
  <2>10. \A n \in Message : Counts(n)' => Counts(n)
    <3>1. \A j \in Queued' : Stale(j)' => j \in Queued
      BY <2>3, <2>4 DEF Stale
    <3> QED
      BY <1>1, <3>1, SameCounts
  <2>11. NoGap'
    BY <1>1, <2>7, <2>9, <2>10 DEF OnTheWay, NoGap
  <2>12. ScanCovers' /\ PlanCovers' /\ StoreCovers'
    BY <1>1, <1>3, <2>3, <2>4, <2>5, <2>7, <2>9
       DEF OnTheWay, ScanCovers, PlanCovers, StoreCovers, Ours
  <2>13. LiveWritten' /\ RememberedStored'
    <3>1. remembered \in SUBSET Message
      BY DEF BackfillInv, Typed
    <3>2. \A m \in Message : StoringNow(m) => StoringNow(m)'
      BY <1>1, <1>3, <2>4 DEF StoringNow, Ours
    <3> QED
      BY <1>1, <2>2, <2>7, <2>9, <3>1, <3>2 DEF OnTheWay, LiveWritten, RememberedStored
  <2>14. AllComing'
    BY <1>1, <2>3, <2>4 DEF AllComing, Coming, Ours
  <2> QED
    BY <2>11, <2>12, <2>13, <2>14 DEF OnTheWay
<1> QED
  BY <1>5, <1>6

\* An announced message is fetched.
LEMMA PushedCatches ==
    ASSUME BackfillInv, BackfillInv', CatchInv, NEW ok \in BOOLEAN, Pushed(ok)
    PROVE  CatchInv'
<1>1. /\ pushes # <<>> /\ pushes' = Tail(pushes) /\ owing' = (owing \/ ~ok)
      /\ UNCHANGED <<now, stamp, mns, connected, scan, done, timer, rerun, generation,
                     liveAfter, live, remembered, enabled, history, floor, gapped>>
  BY DEF Pushed, phoneVars, backfillVars, storeVars
<1>2. connected
  BY <1>1 DEF CatchInv, Waits
<1>3. PICK n : n = Head(pushes)
  OBVIOUS
<1>4. n \in Message /\ Announced' = Announced \ {n} /\ Ended' = Ended
  BY <1>1, <1>3, TailOnce DEF BackfillInv, Typed, Apart, Announced, Ended
<1>5. PICK f : f = Fetch(n)
  OBVIOUS
<1>6. f \in Job /\ f.kind = "fetch" /\ Ours(f) /\ f.msgs = {n}
  BY <1>4, <1>5 DEF Fetch, Job, Ours, BackfillInv, Typed
<1>7. /\ Queued \subseteq Queued' /\ Queued' \subseteq Queued \cup {f}
      /\ ok => f \in Queued'
      /\ scan # None => Head(queue') = Head(queue)
  <2>1. CASE ~ok
    BY <2>1 DEF Pushed, Queued
  <2>2. CASE ok
    <3>1. queue' = Append(queue, f)
      BY <1>3, <1>5, <2>2 DEF Pushed
    <3> QED
      BY <1>6, <3>1, AppendOnce, HeadStays DEF BackfillInv, Typed, Flags, Queued
  <2> QED
    BY <2>1, <2>2
<1>8. Times'
  BY <1>1 DEF CatchInv, Times, Inbox
<1>9. Waits'
  BY <1>1, <1>2, <1>4, <1>6, <1>7 DEF CatchInv, Waits, Ours
<1> SUFFICES ASSUME Intact' PROVE OnTheWay'
  BY <1>8, <1>9 DEF CatchInv
<1>10. OnTheWay
  BY <1>1 DEF Intact, CatchInv
<1>11. \A m \in Message : /\ Left(m) => Left(m)'
                          /\ StoringNow(m) => StoringNow(m)'
  BY <1>1, <1>4, <1>7 DEF Left, Stale, StoringNow, Ours
<1>12. \A m \in Message : Open(m)' => Open(m)
  BY <1>1, <1>11, SameOpen
<1>13. \A k \in Message : Counts(k)' => Counts(k)
  <2>1. \A j \in Queued' : Stale(j)' => j \in Queued
    BY <1>6, <1>7 DEF Stale
  <2> QED
    BY <1>1, <2>1, SameCounts
<1>14. NoGap'
  BY <1>1, <1>10, <1>12, <1>13 DEF OnTheWay, NoGap
<1>15. ScanCovers' /\ PlanCovers' /\ StoreCovers'
  BY <1>1, <1>4, <1>6, <1>7, <1>10, <1>12
     DEF OnTheWay, ScanCovers, PlanCovers, StoreCovers, Ours
<1>16. LiveWritten' /\ RememberedStored'
  <2>1. remembered \in SUBSET Message /\ (live = None \/ live \in SUBSET Message)
    BY DEF BackfillInv, Typed
  <2> QED
    BY <1>1, <1>10, <1>11, <1>12, <2>1 DEF OnTheWay, LiveWritten, RememberedStored
<1>17. AllComing'
  <2> SUFFICES ASSUME mns, ~owing', NEW m \in Message, Open(m) PROVE Coming(m)'
    BY <1>1, <1>12 DEF AllComing
  <2>1. Coming(m) /\ ok
    BY <1>1, <1>10 DEF OnTheWay, AllComing
  <2>2. Pending(m) => Pending(m)'
    BY <1>1, <1>4, <1>6, <1>7, <2>1 DEF Pending, Fetches, Ours
  <2> QED
    BY <1>1, <1>4, <1>7, <1>11, <2>1, <2>2 DEF Coming, Ours
<1> QED
  BY <1>14, <1>15, <1>16, <1>17 DEF OnTheWay

-----------------------------------------------------------------------------
(***************************************************************************)
(* The theorem.                                                            *)
(***************************************************************************)

LEMMA CatchStep == BackfillInv /\ BackfillInv' /\ CatchInv /\ [Next]_vars => CatchInv'
<1> SUFFICES ASSUME BackfillInv, BackfillInv', CatchInv, [Next]_vars PROVE CatchInv'
  OBVIOUS
<1>1. CASE Worker
  BY <1>1, CollectCatches, RunFetchCatches, ListInboxCatches, RunStoreCatches DEF Worker
<1>2. CASE MainLoop
  BY <1>2, ListingFailedCatches, StoreEndedCatches, FireCatches, PushedCatches,
     FetchedCatches, PlannedCatches DEF MainLoop
<1>3. CASE World
  BY <1>3, ConnectCatches, DisconnectCatches, MnsUpCatches, TickCatches, ArriveCatches,
     StorageChangedCatches, EraseCatches DEF World
<1>4. CASE Rest \/ UNCHANGED vars
  BY <1>4, TickCatches DEF Rest
<1> QED
  BY <1>1, <1>2, <1>3, <1>4 DEF Next

LEMMA CatchInvariant == Spec => [](BackfillInv /\ CatchInv)
<1>1. Spec => []BackfillInv
  BY BackfillInvariant
<1>2. Init => CatchInv
  BY CatchInit
<1>3. BackfillInv /\ BackfillInv' /\ CatchInv /\ [Next]_vars => CatchInv'
  BY CatchStep
<1> QED
  BY <1>1, <1>2, <1>3, PTL DEF Spec, SafetySpec

LEMMA QuietCaughtUp == BackfillInv /\ CatchInv => CaughtUp
<1> SUFFICES ASSUME BackfillInv, CatchInv, Quiet, connected, mns, enabled, ~owing, ~gapped,
                    NEW m \in Inbox, stamp[m] > floor, m \notin Stored
             PROVE  FALSE
  BY DEF CaughtUp
<1>1. Queued = {} /\ Ended = {} /\ Announced = {}
  BY DEF Quiet, Queued, Ended, Announced, Elems
<1>2. Open(m) /\ m \in Message
  BY <1>1, InboxTimes DEF Open, Left
<1>3. Coming(m)
  BY <1>2 DEF CatchInv, Intact, OnTheWay, AllComing
<1>4. ~timer /\ ~rerun
  BY DEF Quiet, BackfillInv, Flags, Switches
<1> QED
  BY <1>1, <1>3, <1>4 DEF Coming, Pending, StoringNow

\* Whatever happened before - lost connections, stale stores, failed calls, locked
\* storage, erasures - history has every message of the phone that is newer than
\* the last erasure once nothing is under way in a connection that owes no
\* listing and whose predecessors left no gap (message_backfill.py).
THEOREM HistoryCatchesUp == Spec => []CaughtUp
<1>1. Spec => [](BackfillInv /\ CatchInv)
  BY CatchInvariant
<1>2. BackfillInv /\ CatchInv => CaughtUp
  BY QuietCaughtUp
<1> QED
  BY <1>1, <1>2, PTL

=============================================================================
