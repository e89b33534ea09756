-------------------------- MODULE BluetoothRecovery --------------------------
(***************************************************************************)
(* The policy of Bluetooth recovery: class BluetoothRecovery of            *)
(* src/src/blueferry/bluetooth_recovery.py, with the daemon's calls of it  *)
(* (daemon.py).  It decides when the adapter may be power-cycled, keeps    *)
(* the budget of cycles on disk, and pauses and resumes the profiles.      *)
(*                                                                         *)
(* The power cycle itself is PowerRestore; here an operation ends with the *)
(* radio's restoration pending or not, and a signal may end the            *)
(* restoration at any time.                                                *)
(*                                                                         *)
(* Time is abstracted to ages: a mark (_outage_since and the like) is      *)
(* absent, young, or ripe, older than its constant.  A generation number   *)
(* is compared for equality only, so a reply under way just records        *)
(* whether its generation is the current one, whether the topology changed *)
(* (_revision) since it was asked for, and, of the second read, whether it *)
(* had changed before that.                                                *)
(***************************************************************************)
EXTENDS Naturals

CONSTANTS
    MaxTrouble,     \* bound of sleeps, restarts, switches, crashes and the like
    MaxCycles,      \* bound of power cycles
    None

Ages == {None, "young", "ripe"}

\* What a fresh snapshot says of the adapter: powered off; powered but not even
\* the phone alone may be reset; that much (le_reset_safe); nothing but the
\* phone uses it (safe).
Worlds == {"off", "unsafe", "shared", "safe"}

\* What observe() reports.
Observations == {"proven", "unproven", "busy", "ineligible", "outage"}

VARIABLES
    up,             \* the daemon runs, and recovery with it (_running)
    suspended, active, probing,
    opPending,      \* _operation_pending
    resumePending, snapshotPending,
    sameIdentity,   \* _identity is the adapter's
    outage, le, soft, healthy,  \* ages of _outage_since, _le_outage_since,
                                \* _soft_reset_at and _healthy_since
    record,         \* the saved budget: verified, spent
    hour,           \* HOURLY_LIMIT_SECONDS have passed since last_attempt
    replies,        \* answers under way: snapshots, the probe, the second read
    op,             \* the reserved operation on the worker: "cycle", "restore"
    reserved,       \* the worker's reservation
    pending,        \* adapter.restore_pending, from the journal on disk
    cleanup,        \* adapter.cleanup_pending
    paused,         \* the daemon's profiles are paused for recovery
    world,
    rearmed,        \* history: cycles since the budget was last given
    lastHour,       \* history: a cycle was begun less than an hour ago
    broken,         \* history: the outage window saw a sleep, restart or switch
    trouble, cycles

marks == <<outage, le, soft, healthy>>
adapterVars == <<op, reserved, pending, cleanup, paused>>
historyVars == <<rearmed, lastHour, broken>>
vars == <<up, suspended, active, probing, opPending, resumePending, snapshotPending,
          sameIdentity, marks, record, hour, replies, adapterVars, world,
          historyVars, trouble, cycles>>

Init ==
    /\ up = TRUE /\ suspended = FALSE /\ active = FALSE /\ probing = FALSE
    /\ opPending = FALSE /\ resumePending = FALSE /\ snapshotPending = FALSE
    /\ sameIdentity = FALSE
    /\ outage = None /\ le = None /\ soft = None /\ healthy = None
    /\ record \in [verified : BOOLEAN, spent : BOOLEAN] /\ hour = TRUE
    /\ replies = {}
    /\ op = None /\ reserved = FALSE /\ paused = FALSE
    /\ pending \in BOOLEAN /\ cleanup = FALSE
    /\ world = "safe"
    /\ rearmed = IF record.spent THEN 1 ELSE 0
    /\ lastHour = FALSE /\ broken = FALSE
    /\ trouble = 0 /\ cycles = 0

Disturb == trouble < MaxTrouble /\ trouble' = trouble + 1
Stale(rs) == {[r EXCEPT !.current = FALSE] : r \in rs}
Moved(rs) == {[r EXCEPT !.moved = TRUE] : r \in rs}
Reply(kind) == [kind |-> kind, current |-> TRUE, moved |-> FALSE, differs |-> FALSE]

-----------------------------------------------------------------------------
\* Mutant: the outage window is kept across an invalidation.
ForgetEvidenceButOutage ==
    /\ le' = None /\ soft' = None /\ healthy' = None
    /\ probing' = FALSE /\ snapshotPending' = FALSE
    /\ UNCHANGED outage

\* invalidate(): all marks go, and whatever is under way belongs to the past.
ForgetEvidence ==
    /\ outage' = None /\ le' = None /\ soft' = None /\ healthy' = None
    /\ probing' = FALSE /\ snapshotPending' = FALSE

Invalidate == ForgetEvidence /\ replies' = Stale(replies)

\* _save(): the file is written or the record stays as it was.
Save(r, ok) == record' = IF ok THEN r ELSE record

Allowed == record.verified /\ ~cleanup /\ ~record.spent /\ hour

\* resume, now that recovery holds nothing: unless the system sleeps.
Ended ==
    /\ active' = FALSE /\ reserved' = FALSE
    /\ Invalidate
    /\ resumePending' = (resumePending \/ suspended)
    /\ paused' = suspended

\* _finished(): a pending restoration keeps worker and profiles.
Finished ==
    /\ opPending' = FALSE
    /\ IF pending
         THEN UNCHANGED <<active, reserved, marks, probing, snapshotPending, replies,
                          resumePending, paused>>
         ELSE Ended

-----------------------------------------------------------------------------
(***************************************************************************)
(* _tick().                                                                *)
(***************************************************************************)

Ticks == up /\ ~suspended

\* bluetoothd does not answer: observations start again, an active restoration
\* waits.
TickBlocked ==
    /\ Ticks /\ Disturb
    /\ IF active THEN UNCHANGED <<marks, probing, snapshotPending, replies>> ELSE Invalidate
    /\ UNCHANGED <<up, suspended, active, opPending, resumePending, sameIdentity, record,
                   hour, adapterVars, world, historyVars, cycles>>

\* Mutant: taking up a restoration does not reserve the worker.
ContinueUnreserved ==
    /\ Ticks /\ (active \/ pending) /\ ~opPending
    /\ UNCHANGED reserved
    /\ active' = TRUE /\ paused' = TRUE /\ opPending' = TRUE
    /\ op' = "restore"
    /\ UNCHANGED <<up, suspended, probing, resumePending, snapshotPending, sameIdentity,
                   marks, record, hour, replies, pending, cleanup, world, historyVars,
                   trouble, cycles>>

\* _continue_restoration(), also from start(): an idle worker is reserved, the
\* profiles are paused, and one more restore() is submitted.
Continue ==
    /\ Ticks /\ (active \/ pending) /\ ~opPending
    /\ reserved' = TRUE
    /\ active' = TRUE /\ paused' = TRUE /\ opPending' = TRUE
    /\ op' = "restore"
    /\ UNCHANGED <<up, suspended, probing, resumePending, snapshotPending, sameIdentity,
                   marks, record, hour, replies, pending, cleanup, world, historyVars,
                   trouble, cycles>>

\* Retry the journal's cleanup, and ask for a snapshot unless one is under way.
Observe(cleaned) ==
    /\ Ticks /\ ~active /\ ~pending
    /\ cleanup' = (cleanup /\ ~cleaned)
    /\ snapshotPending' = TRUE
    /\ replies' = IF snapshotPending THEN replies ELSE replies \cup {Reply("snapshot")}
    /\ UNCHANGED <<up, suspended, active, probing, opPending, resumePending, sameIdentity,
                   marks, record, hour, op, reserved, pending, paused, world, historyVars,
                   trouble, cycles>>

-----------------------------------------------------------------------------
(***************************************************************************)
(* _check(), as its effect on a snapshot that is still current.            *)
(***************************************************************************)

\* The marks _check() starts from: none after a gap in the observations, and
\* none, with nothing under way, for another adapter.
Base(mark, gap) == IF gap \/ ~sameIdentity THEN None ELSE mark
Others == IF sameIdentity THEN replies ELSE Stale(replies)

CheckHealthy(proven, gap, ok) ==
    LET since == IF Base(healthy, gap) = None THEN "young" ELSE Base(healthy, gap)
        content == record.verified /\ ~record.spent
        rearms == record.verified => since = "ripe"
    IN  /\ outage' = None /\ le' = None /\ soft' = None
        /\ healthy' = IF content THEN Base(healthy, gap)
                      ELSE IF proven THEN since ELSE None
        /\ IF ~content /\ proven /\ rearms
             THEN /\ Save([verified |-> TRUE, spent |-> FALSE], ok)
                  /\ rearmed' = IF ok THEN 0 ELSE rearmed
             ELSE UNCHANGED <<record, rearmed>>
        /\ UNCHANGED broken

CheckBusy(gap) ==
    /\ healthy' = None
    /\ outage' = Base(outage, gap) /\ le' = Base(le, gap) /\ soft' = Base(soft, gap)
    /\ UNCHANGED <<record, rearmed, broken>>

CheckNothing ==
    /\ outage' = None /\ le' = None /\ soft' = None /\ healthy' = None
    /\ UNCHANGED <<record, rearmed, broken>>

CycleAllowed == world = "safe" /\ Allowed

\* The marks of an outage; reset says whether _reset_le() took the reset.
CheckOutage(gap, wasProbing, reset) ==
    /\ healthy' = None
    /\ le' = IF Base(le, gap) = None THEN "young" ELSE Base(le, gap)
    /\ outage' = IF ~CycleAllowed THEN None
                 ELSE IF Base(outage, gap) = None THEN "young" ELSE Base(outage, gap)
    /\ broken' = IF Base(outage, gap) = None THEN FALSE ELSE broken
    /\ soft' = IF ~wasProbing /\ Base(soft, gap) = None /\ le' = "ripe" /\ reset
                 THEN "young" ELSE Base(soft, gap)
    /\ UNCHANGED <<record, rearmed>>

\* The evidence is complete: ask the phone over MAP whether the radio works.
Probes(wasProbing) == ~wasProbing /\ outage' = "ripe" /\ soft' = "ripe"

\* _snapshot_ready() and _check().
Check(r, o, gap, ok) ==
    LET wasProbing == probing /\ sameIdentity
        outaged == world # "unsafe" /\ o = "outage" /\ record.verified /\ ~cleanup
    IN
    /\ r \in replies /\ r.kind = "snapshot" /\ r.current /\ ~r.moved
    /\ Ticks /\ ~active /\ ~pending /\ world # "off"
    /\ snapshotPending' = FALSE
    /\ sameIdentity' = TRUE
    /\ IF o \in {"proven", "unproven"} THEN CheckHealthy(o = "proven", gap, ok)
       ELSE IF o = "busy" THEN CheckBusy(gap)
       ELSE IF outaged THEN CheckOutage(gap, wasProbing, ok)
       ELSE CheckNothing
    /\ IF outaged /\ Probes(wasProbing) /\ ok
         THEN probing' = TRUE /\ replies' = (Others \ {r}) \cup {Reply("probe")}
         ELSE probing' = wasProbing /\ replies' = Others \ {r}
    /\ UNCHANGED <<up, suspended, active, opPending, resumePending, hour, adapterVars,
                   world, lastHour, trouble, cycles>>

\* A snapshot of an adapter that is off, or one that failed (the topology changed
\* meanwhile), starts the observations again.
SnapshotVoid(r) ==
    /\ r \in replies /\ r.kind # "probe" /\ r.current
    /\ Ticks
    /\ r.moved \/ (world = "off" /\ r.kind = "snapshot" /\ ~active /\ ~pending)
    /\ ForgetEvidence /\ replies' = Stale(replies \ {r})
    /\ sameIdentity' = (sameIdentity \/ ~r.moved)
    /\ UNCHANGED <<up, suspended, active, opPending, resumePending, record, hour,
                   adapterVars, world, historyVars, trouble, cycles>>

\* A snapshot that arrives during a restoration only clears its flag.
SnapshotUnused(r) ==
    /\ r \in replies /\ r.kind = "snapshot" /\ r.current /\ ~r.moved
    /\ Ticks /\ (active \/ pending)
    /\ snapshotPending' = FALSE
    /\ replies' = replies \ {r}
    /\ UNCHANGED <<up, suspended, active, probing, opPending, resumePending, sameIdentity,
                   marks, record, hour, adapterVars, world, historyVars, trouble, cycles>>

\* A reply of an earlier generation is dropped.
DropStale(r) ==
    /\ up /\ r \in replies /\ ~r.current
    /\ replies' = replies \ {r}
    /\ UNCHANGED <<up, suspended, active, probing, opPending, resumePending, snapshotPending,
                   sameIdentity, marks, record, hour, adapterVars, world, historyVars,
                   trouble, cycles>>

-----------------------------------------------------------------------------
(***************************************************************************)
(* The probe and what follows it.                                          *)
(***************************************************************************)

\* Mutant: the probe's failure leaves _probing set.
ProbeFailedProbing(r) ==
    /\ up /\ r \in replies /\ r.kind = "probe" /\ r.current
    /\ outage' = None
    /\ replies' = replies \ {r}
    /\ UNCHANGED <<up, suspended, active, probing, opPending, resumePending, snapshotPending,
                   sameIdentity, le, soft, healthy, record, hour, adapterVars, world,
                   historyVars, trouble, cycles>>

\* _probe_failed()
ProbeFailed(r) ==
    /\ up /\ r \in replies /\ r.kind = "probe" /\ r.current
    /\ probing' = FALSE /\ outage' = None
    /\ replies' = replies \ {r}
    /\ UNCHANGED <<up, suspended, active, opPending, resumePending, snapshotPending,
                   sameIdentity, le, soft, healthy, record, hour, adapterVars, world,
                   historyVars, trouble, cycles>>

\* _after_probe(): an old answer or an ended outage stops here, otherwise the
\* adapter is read once more.
AfterProbe(r, timely) ==
    /\ r \in replies /\ r.kind = "probe" /\ r.current /\ Ticks
    /\ IF timely /\ outage = "ripe"
         THEN /\ replies' = (replies \ {r}) \cup {[Reply("reread") EXCEPT !.differs = r.moved]}
              /\ UNCHANGED probing
         ELSE probing' = FALSE /\ replies' = replies \ {r}
    /\ UNCHANGED <<up, suspended, active, opPending, resumePending, snapshotPending,
                   sameIdentity, marks, record, hour, adapterVars, world, historyVars,
                   trouble, cycles>>

\* The second read does not confirm the outage or is not equal to the first, or the worker
\* is busy: the marks are kept.
Declined(r) ==
    /\ r \in replies /\ r.kind = "reread" /\ r.current /\ ~r.moved /\ Ticks
    /\ probing' = FALSE
    /\ replies' = replies \ {r}
    /\ UNCHANGED <<up, suspended, active, opPending, resumePending, snapshotPending,
                   sameIdentity, marks, record, hour, adapterVars, world, historyVars,
                   trouble, cycles>>

\* Reserve the budget before any mutation.
Spend(ok) == ok /\ Save([record EXCEPT !.spent = TRUE], ok) /\ cycles < MaxCycles

\* The second read confirms it: spend the budget, reserve the worker, pause the
\* profiles and submit cycle().  (A budget that cannot be saved is Declined.)
BeginCycle(r, ok) ==
    /\ r \in replies /\ r.kind = "reread" /\ r.current /\ ~r.moved /\ ~r.differs /\ Ticks
    /\ outage = "ripe" /\ CycleAllowed
    /\ Spend(ok)
    /\ probing' = FALSE /\ replies' = replies \ {r}
    /\ hour' = IF ok THEN FALSE ELSE hour
    /\ reserved' = TRUE /\ active' = TRUE /\ opPending' = TRUE
    /\ op' = "cycle"
    /\ paused' = TRUE
    /\ cycles' = cycles + 1
    /\ rearmed' = rearmed + 1 /\ lastHour' = TRUE
    /\ UNCHANGED <<up, suspended, resumePending, snapshotPending, sameIdentity, marks,
                   pending, cleanup, world, broken, trouble>>

-----------------------------------------------------------------------------
(***************************************************************************)
(* The worker, and the adapter's transaction.                              *)
(***************************************************************************)

\* cycle() dispatches the power-off (with a restoration pending from then on).
Dispatch ==
    /\ up /\ op = "cycle" /\ ~pending
    /\ op' = "restore"
    /\ pending' = TRUE
    /\ UNCHANGED <<up, suspended, active, probing, opPending, resumePending, snapshotPending,
                   sameIdentity, marks, record, hour, replies, reserved, cleanup, paused,
                   world, historyVars, trouble, cycles>>

\* The restoration completes, by the worker or by a signal; clearing the
\* journal may fail.
Restored(cleaned) ==
    /\ up /\ pending
    /\ pending' = FALSE
    /\ cleanup' = ~cleaned
    /\ UNCHANGED <<up, suspended, active, probing, opPending, resumePending, snapshotPending,
                   sameIdentity, marks, record, hour, replies, op, reserved, paused, world,
                   historyVars, trouble, cycles>>

\* The operation returns or raises; _finished() runs on the main loop.
OperationEnds ==
    /\ up /\ op # None
    /\ op' = None
    /\ Finished
    /\ UNCHANGED <<up, suspended, sameIdentity, record, hour, pending, cleanup, world,
                   historyVars, trouble, cycles>>

-----------------------------------------------------------------------------
(***************************************************************************)
(* The daemon's calls and the world.                                       *)
(***************************************************************************)

\* Prepare-for-sleep, in and out.  The resume that recovery owes is made up for.
Sleep ==
    /\ up
    /\ IF suspended THEN UNCHANGED trouble ELSE Disturb
    /\ suspended' = ~suspended
    /\ Invalidate
    /\ IF suspended /\ ~active /\ resumePending
         THEN resumePending' = FALSE /\ paused' = FALSE
         ELSE UNCHANGED <<resumePending, paused>>
    /\ broken' = TRUE
    /\ UNCHANGED <<up, active, opPending, sameIdentity, record, hour, op, reserved, pending,
                   cleanup, world, rearmed, lastHour, cycles>>

\* bluetoothd has another owner.
OwnerChanged ==
    /\ up /\ Disturb
    /\ ForgetEvidence /\ replies' = Moved(Stale(replies))
    /\ sameIdentity' = FALSE
    /\ broken' = TRUE
    /\ UNCHANGED <<up, suspended, active, opPending, resumePending, record, hour,
                   adapterVars, world, rearmed, lastHour, cycles>>

\* The adapter is switched (_on_adapter_power_changed), or its users change.
WorldChanges(w) ==
    /\ up /\ w # world /\ Disturb
    /\ world' = w
    /\ IF "off" \in {w, world} /\ ~active
         THEN ForgetEvidence /\ replies' = Moved(Stale(replies)) /\ broken' = TRUE
         ELSE /\ replies' = Moved(replies)
              /\ UNCHANGED <<marks, probing, snapshotPending, broken>>
    /\ UNCHANGED <<up, suspended, active, opPending, resumePending, sameIdentity, record,
                   hour, adapterVars, rearmed, lastHour, cycles>>

\* forget_phone(): fresh evidence is needed, the hourly budget stays.
ForgetPhone(ok) ==
    /\ up /\ Disturb
    /\ Invalidate
    /\ Save([verified |-> FALSE, spent |-> TRUE], ok)
    /\ broken' = TRUE
    /\ UNCHANGED <<up, suspended, active, opPending, resumePending, sameIdentity, hour,
                   adapterVars, world, rearmed, lastHour, cycles>>

Crash ==
    /\ up /\ Disturb
    /\ up' = FALSE /\ suspended' = FALSE /\ active' = FALSE /\ opPending' = FALSE
    /\ resumePending' = FALSE
    /\ ForgetEvidence /\ replies' = {} /\ sameIdentity' = FALSE
    /\ op' = None /\ reserved' = FALSE /\ paused' = FALSE
    /\ broken' = TRUE
    /\ UNCHANGED <<record, hour, pending, cleanup, world, rearmed, lastHour, cycles>>

\* The next daemon reads budget and journal; a journal whose cleanup failed is
\* loaded as pending again.
Restart ==
    /\ ~up
    /\ up' = TRUE
    /\ pending' = (pending \/ cleanup) /\ cleanup' = FALSE
    /\ UNCHANGED <<suspended, active, probing, opPending, resumePending, snapshotPending,
                   sameIdentity, marks, record, hour, replies, op, reserved, paused, world,
                   historyVars, trouble, cycles>>

\* A mark gets older than its constant.
Ripen(old, new) == old = "young" /\ new = "ripe"

TimePasses ==
    /\ \/ Ripen(outage, outage') /\ UNCHANGED <<le, soft, healthy, hour, lastHour>>
       \/ Ripen(le, le') /\ UNCHANGED <<outage, soft, healthy, hour, lastHour>>
       \/ Ripen(soft, soft') /\ UNCHANGED <<outage, le, healthy, hour, lastHour>>
       \/ Ripen(healthy, healthy') /\ UNCHANGED <<outage, le, soft, hour, lastHour>>
       \/ ~hour /\ hour' = TRUE /\ lastHour' = FALSE /\ UNCHANGED marks
    /\ UNCHANGED <<up, suspended, active, probing, opPending, resumePending, snapshotPending,
                   sameIdentity, record, replies, adapterVars, world, rearmed, broken,
                   trouble, cycles>>

-----------------------------------------------------------------------------
Answers ==
    \E r \in replies :
        \/ \E o \in Observations, gap \in BOOLEAN, ok \in BOOLEAN : Check(r, o, gap, ok)
        \/ SnapshotVoid(r) \/ SnapshotUnused(r) \/ DropStale(r)
        \/ ProbeFailed(r) \/ Declined(r)
        \/ \E timely \in BOOLEAN : AfterProbe(r, timely)
        \/ \E ok \in BOOLEAN : BeginCycle(r, ok)

World ==
    \/ Sleep \/ OwnerChanged \/ Crash \/ TimePasses
    \/ \E w \in Worlds : WorldChanges(w)
    \/ \E ok \in BOOLEAN : ForgetPhone(ok)

Next ==
    \/ TickBlocked \/ Continue \/ Answers \/ World \/ Restart
    \/ Dispatch \/ OperationEnds
    \/ \E cleaned \in BOOLEAN : Observe(cleaned) \/ Restored(cleaned)

SafetySpec == Init /\ [][Next]_vars

ProbeAnswers ==
    \E r \in replies :
        \/ ProbeFailed(r) \/ Declined(r) \/ (r.kind = "reread" /\ SnapshotVoid(r))
        \/ \E timely \in BOOLEAN : AfterProbe(r, timely)
        \/ \E ok \in BOOLEAN : BeginCycle(r, ok)

SnapshotAnswers ==
    \E r \in replies :
        \/ \E o \in Observations, gap \in BOOLEAN, ok \in BOOLEAN : Check(r, o, gap, ok)
        \/ (r.kind = "snapshot" /\ SnapshotVoid(r)) \/ SnapshotUnused(r)

\* D-Bus calls and worker operations are answered or time out, the timer ticks,
\* systemd restarts the daemon, and a radio that was switched off returns
\* (PowerRestore's RadioReturns).
FairStep(k) ==
    CASE k = 1 -> ProbeAnswers [] k = 2 -> SnapshotAnswers [] k = 3 -> Continue
      [] k = 4 -> OperationEnds [] k = 5 -> (\E cleaned \in BOOLEAN : Restored(cleaned))
      [] k = 6 -> Restart [] OTHER -> FALSE

Fairness == \A k \in 1 .. 6 : WF_vars(FairStep(k))

Spec == SafetySpec /\ Fairness

-----------------------------------------------------------------------------
(***************************************************************************)
(* Properties.                                                             *)
(***************************************************************************)

\* Recovery's state and its saved budget are well formed.
TypeOK ==
    /\ {up, suspended, active, probing, opPending, resumePending, snapshotPending,
        sameIdentity, hour, reserved, pending, cleanup, paused, lastHour, broken}
         \subseteq BOOLEAN
    /\ {outage, le, soft, healthy} \subseteq Ages
    /\ record \in [verified : BOOLEAN, spent : BOOLEAN]
    /\ replies \subseteq [kind : {"snapshot", "probe", "reread"}, current : BOOLEAN,
                          moved : BOOLEAN, differs : BOOLEAN]
    /\ op \in {"cycle", "restore", None} /\ world \in Worlds
    /\ {rearmed, trouble, cycles} \subseteq Nat

CycleStep == cycles' > cycles => rearmed = 0 /\ ~lastHour /\ ~broken /\ ~suspended

\* A power cycle is earned: none was begun since the phone was last verified or
\* proved healthy for long enough, and none in the last hour (a crash, a failing
\* disk or a forgotten phone gives no second one: _save before any mutation,
\* forget_phone), and the outage was observed without a sleep, an owner change, a
\* power switch or a removed bond in between, however late the snapshots and the
\* probe it rests on were answered (invalidate and its generation).
CycleEarned == [][CycleStep]_vars

\* The profiles are paused exactly while recovery is active or owes the resume
\* to a sleeping system, and the worker is reserved exactly while it is active:
\* no order of sleeps, signals and results leaves either of them behind.
PausedExactly ==
    /\ paused = (active \/ resumePending)
    /\ reserved = active
    /\ opPending = (op # None) /\ (opPending => active)
    /\ resumePending => suspended

\* An active recovery ends unless the system sleeps, and neither a probe nor a
\* snapshot is waited for for ever.
NothingHangs ==
    /\ []<>(~active \/ suspended)
    /\ []<>~probing
    /\ []<>~snapshotPending
=============================================================================
