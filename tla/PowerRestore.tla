---------------------------- MODULE PowerRestore ----------------------------
(***************************************************************************)
(* The power cycle of Bluetooth recovery and its journal: class            *)
(* BluezRecoveryAdapter of src/src/blueferry/bluetooth_recovery.py.        *)
(*                                                                         *)
(* cycle() and restore() run on the OBEX worker and are cut here at every  *)
(* D-Bus call and every disk write.  Between the cuts the main loop        *)
(* dispatches BlueZ's signals, the user or rfkill switches the radio,      *)
(* bluetoothd restarts, the daemon crashes, and a request whose call timed *)
(* out may still take effect.                                              *)
(*                                                                         *)
(* A unit is one insertion of the adapter under one bluetoothd (bus id,    *)
(* owner, address, kernel instance).  Requests go to the unique name of    *)
(* the unit's bluetoothd, so they never reach another unit; an adapter     *)
(* replugged under one bluetoothd in the moment between the last check and *)
(* Set, which cycle()'s docstring concedes, is left out.                   *)
(***************************************************************************)
EXTENDS Naturals, Sequences

CONSTANTS
    MaxTrouble,         \* bound of switches, restarts, crashes and refused requests
    MaxCycles,          \* bound of power cycles
    QuietPreflight,     \* TRUE: nobody switches the radio while cycle() checks it
    None

\* None is none of the values it stands in for.
ASSUME NoneAssumption ==
    /\ None \notin {"us", "user", "choice", "on", "off", "ok", "error"}
    /\ None \notin [unit : Nat, phase : {"off", "on"}]
    /\ None \notin [unit : Nat, sawOff : BOOLEAN, completed : BOOLEAN]

VARIABLES
    powered,    \* Adapter1.Powered
    state,      \* Adapter1.PowerState; "busy" is either transition
    offBy,      \* who switched it off: "us", "user" or, with nothing of ours
                \* pending, by "choice"; None while it is on
    unit,
    job,        \* the request of ours BlueZ is executing: "off", "on" or None
    reply,      \* the answer to it: "ok", "error" or None
    signals,    \* BlueZ's signals the main loop has not dispatched
    disk,       \* BLUETOOTH_RESTORE_KEY in the settings file, or None
    tx,         \* the worker's transaction (_PowerRestore), or None
    held,       \* _restore is tx, rather than None
    stale,      \* _stale_record
    fresh,      \* no relevant signal was dispatched since the snapshot
    moved,      \* _incarnation differs from the transaction's
    pc,         \* where the worker is
    up,         \* the daemon runs
    trouble, cycles

radioVars == <<powered, state, offBy, unit, job>>
memoryVars == <<tx, held, stale, fresh, moved>>
vars == <<radioVars, reply, signals, disk, memoryVars, pc, up, trouble, cycles>>

Disturb == trouble < MaxTrouble /\ trouble' = trouble + 1

\* A journal for another adapter or phone, or of another version.
Foreign == [unit |-> 0, phase |-> "off"]

RestorePending == held /\ ~tx.completed
CleanupPending == stale \/ (held /\ tx.completed)

Init ==
    /\ powered = TRUE /\ state = "on" /\ offBy = None /\ unit = 1
    /\ job = None /\ reply = None /\ signals = <<>>
    /\ disk \in {None, Foreign} /\ stale = (disk # None)
    /\ tx = None /\ held = FALSE /\ fresh = FALSE /\ moved = FALSE
    /\ pc = "idle" /\ up = TRUE
    /\ trouble = 0 /\ cycles = 0

-----------------------------------------------------------------------------
(***************************************************************************)
(* The journal.  Each write may fail; ok says whether it succeeds.         *)
(***************************************************************************)

\* cleanup_journal() with the completion latch of the transaction at done.
CleanupJournal(done, ok) ==
    IF ok /\ (stale \/ (held /\ done))
      THEN disk' = None /\ held' = FALSE /\ stale' = FALSE
      ELSE UNCHANGED <<disk, held, stale>>

\* Mutant: a failed cleanup also takes the completion back.
CompleteRestoreUnlatched(ok) ==
    /\ tx' = [tx EXCEPT !.completed = ok]
    /\ IF held THEN CleanupJournal(TRUE, ok) ELSE UNCHANGED <<disk, held, stale>>

\* _complete_restore(): latch the completion, then clear the journal.
CompleteRestore(ok) ==
    /\ tx' = [tx EXCEPT !.completed = TRUE]
    /\ IF held THEN CleanupJournal(TRUE, ok) ELSE UNCHANGED <<disk, held, stale>>

Completes == \E ok \in BOOLEAN : CompleteRestore(ok)

-----------------------------------------------------------------------------
(***************************************************************************)
(* cycle() on the worker.                                                  *)
(***************************************************************************)

\* The snapshot recovery decides on, read on the main loop's own connection and
\* so behind every signal sent before it; then cycle()'s refusals.
Snapshot ==
    /\ up /\ pc = "idle" /\ cycles < MaxCycles
    /\ signals = <<>> /\ powered /\ state = "on"
    /\ ~RestorePending /\ ~CleanupPending
    /\ cycles' = cycles + 1
    /\ tx' = [unit |-> unit, sawOff |-> FALSE, completed |-> FALSE]
    /\ fresh' = TRUE /\ moved' = FALSE
    /\ pc' = "journal"
    /\ UNCHANGED <<radioVars, reply, signals, disk, held, stale, up, trouble>>

\* Mutant: a journal that cannot be written does not stop the cycle.
JournalLeniently(ok) ==
    /\ pc = "journal"
    /\ held' = TRUE
    /\ disk' = IF ok THEN [unit |-> tx.unit, phase |-> "off"] ELSE disk
    /\ pc' = "recheck"
    /\ UNCHANGED <<radioVars, reply, signals, tx, stale, fresh, moved, up, trouble, cycles>>

\* Journal before dispatch; without it there is no power-off.
Journal(ok) ==
    /\ pc = "journal"
    /\ held' = ok
    /\ disk' = IF ok THEN [unit |-> tx.unit, phase |-> "off"] ELSE disk
    /\ pc' = IF ok THEN "recheck" ELSE "idle"
    /\ UNCHANGED <<radioVars, reply, signals, tx, stale, fresh, moved, up, trouble, cycles>>

Unchanged == unit = tx.unit /\ powered /\ state = "on" /\ fresh /\ ~tx.completed

\* The recheck finds the snapshot's state ...
RecheckPasses ==
    /\ pc = "recheck" /\ Unchanged
    /\ pc' = "setOff"
    /\ UNCHANGED <<radioVars, reply, signals, disk, memoryVars, up, trouble, cycles>>

\* ... or another one (or the cycle was cancelled, the read failed, another
\* device showed up): no power request was sent.
RecheckFails ==
    /\ pc = "recheck"
    /\ Completes
    /\ pc' = "idle"
    /\ UNCHANGED <<radioVars, reply, signals, fresh, moved, up, trouble, cycles>>

\* Send a power request: BlueZ begins it, finds nothing to do, or is gone.
Request(target, on) ==
    IF unit # tx.unit THEN reply' = "error" /\ UNCHANGED <<job, state>>
    ELSE IF powered = on THEN reply' = "ok" /\ UNCHANGED <<job, state>>
    ELSE IF state = "blocked" THEN reply' = "error" /\ UNCHANGED <<job, state>>
    ELSE job' = target /\ state' = "busy" /\ reply' = None

SetOff ==
    /\ pc = "setOff"
    /\ Request("off", FALSE)
    /\ pc' = "waitOff"
    /\ UNCHANGED <<powered, offBy, unit, signals, disk, memoryVars, up, trouble, cycles>>

\* Set(False) returned, failed or timed out; restore() follows in any case.
SetOffReturns ==
    /\ pc = "waitOff"
    /\ pc' = "restore"
    /\ reply' = None
    /\ UNCHANGED <<radioVars, signals, disk, memoryVars, up, trouble, cycles>>

-----------------------------------------------------------------------------
(***************************************************************************)
(* restore() on the worker, from cycle() or from a recovery tick.          *)
(***************************************************************************)

\* _continue_restoration(): one more attempt.
RestoreBegin ==
    /\ up /\ pc = "idle" /\ RestorePending
    /\ pc' = "restore"
    /\ UNCHANGED <<radioVars, reply, signals, disk, memoryVars, up, trouble, cycles>>

\* restore() first retries the cleanup, then looks whether anything is left.
RestoreCleanup(ok) ==
    /\ pc = "restore"
    /\ CleanupJournal(tx.completed, ok)
    /\ pc' = IF held' /\ ~tx.completed THEN "read" ELSE "idle"
    /\ UNCHANGED <<radioVars, reply, signals, tx, fresh, moved, up, trouble, cycles>>

\* _restoration_state() finds another controller, or rfkill.
Superseded == unit # tx.unit \/ moved \/ state = "blocked"

\* The first read settles it: controller gone, blocked, or powered already.
ReadCompletes ==
    /\ pc = "read"
    /\ Superseded \/ (state # "busy" /\ powered)
    /\ Completes
    /\ pc' = "idle"
    /\ UNCHANGED <<radioVars, reply, signals, fresh, moved, up, trouble, cycles>>

\* The radio is in transition, or the read failed: the next tick tries again.
ReadInconclusive ==
    /\ pc = "read"
    /\ ~Superseded
    /\ IF state = "busy" THEN UNCHANGED trouble ELSE Disturb
    /\ pc' = "idle"
    /\ UNCHANGED <<radioVars, reply, signals, disk, memoryVars, up, cycles>>

ReadOff ==
    /\ pc = "read"
    /\ ~Superseded /\ state # "busy" /\ ~powered
    /\ pc' = "persist"
    /\ UNCHANGED <<radioVars, reply, signals, disk, memoryVars, up, trouble, cycles>>

\* Meanwhile a signal may have completed the transaction or replaced the unit.
PersistCompletes ==
    /\ pc = "persist"
    /\ tx.completed \/ moved
    /\ Completes
    /\ pc' = "idle"
    /\ UNCHANGED <<radioVars, reply, signals, fresh, moved, up, trouble, cycles>>

\* Mutant: without the second journal entry the radio is not switched on.
PersistStrictly(ok) ==
    /\ pc = "persist"
    /\ ~tx.completed /\ ~moved
    /\ tx' = [tx EXCEPT !.sawOff = TRUE]
    /\ disk' = IF ok THEN [unit |-> tx.unit, phase |-> "on"] ELSE disk
    /\ pc' = IF ok THEN "readAgain" ELSE "idle"
    /\ UNCHANGED <<radioVars, reply, signals, held, stale, fresh, moved, up, trouble, cycles>>

\* From now on an "on" signal completes it; a disk failure changes nothing.
Persist(ok) ==
    /\ pc = "persist"
    /\ ~tx.completed /\ ~moved
    /\ tx' = [tx EXCEPT !.sawOff = TRUE]
    /\ disk' = IF ok THEN [unit |-> tx.unit, phase |-> "on"] ELSE disk
    /\ pc' = "readAgain"
    /\ UNCHANGED <<radioVars, reply, signals, held, stale, fresh, moved, up, trouble, cycles>>

\* The last identity check before the request.
ReadAgainCompletes ==
    /\ pc = "readAgain"
    /\ Superseded \/ tx.completed \/ (state # "busy" /\ powered)
    /\ Completes
    /\ pc' = "idle"
    /\ UNCHANGED <<radioVars, reply, signals, fresh, moved, up, trouble, cycles>>

ReadAgainOff ==
    /\ pc = "readAgain"
    /\ ~Superseded /\ ~tx.completed
    /\ state = "busy" \/ ~powered
    /\ pc' = IF state = "busy" THEN "idle" ELSE "setOn"
    /\ UNCHANGED <<radioVars, reply, signals, disk, memoryVars, up, trouble, cycles>>

SetOn ==
    /\ pc = "setOn"
    /\ Request("on", TRUE)
    /\ pc' = "waitOn"
    /\ UNCHANGED <<powered, offBy, unit, signals, disk, memoryVars, up, trouble, cycles>>

\* BlueZ acknowledged Set(True): the obligation is met.
SetOnAcknowledged ==
    /\ pc = "waitOn" /\ reply = "ok"
    /\ Completes
    /\ pc' = "idle" /\ reply' = None
    /\ UNCHANGED <<radioVars, signals, fresh, moved, up, trouble, cycles>>

\* Set(True) failed or timed out; the transaction stays pending.
SetOnFails ==
    /\ pc = "waitOn" /\ reply # "ok"
    /\ pc' = "idle" /\ reply' = None
    /\ UNCHANGED <<radioVars, signals, disk, memoryVars, up, trouble, cycles>>

-----------------------------------------------------------------------------
(***************************************************************************)
(* The main loop.                                                          *)
(***************************************************************************)

\* _properties_changed() with Powered; _owner_changed() and
\* _interfaces_changed() for "moved".
OnSignal ==
    /\ up /\ signals # <<>>
    /\ signals' = Tail(signals)
    /\ fresh' = FALSE
    /\ moved' = (moved \/ Head(signals) = "moved")
    /\ CASE held /\ Head(signals) = "off" ->
              tx' = [tx EXCEPT !.sawOff = TRUE] /\ UNCHANGED <<disk, held, stale>>
         [] held /\ Head(signals) = "on" /\ tx.sawOff -> Completes
         [] OTHER -> UNCHANGED <<tx, disk, held, stale>>
    /\ UNCHANGED <<radioVars, reply, pc, up, trouble, cycles>>

\* _tick(): retry the disk cleanup; the radio is left alone.
CleanupRetry(ok) ==
    /\ up /\ pc = "idle" /\ ~RestorePending /\ CleanupPending
    /\ CleanupJournal(TRUE, ok)
    /\ UNCHANGED <<radioVars, reply, signals, tx, fresh, moved, pc, up, trouble, cycles>>

\* The daemon dies; a request BlueZ already has goes on.  A shutdown that gives
\* up on the restoration (finish_shutdown) ends in the same state.  Who switched
\* the radio off by choice loses that if a journal is left behind.
Crash ==
    /\ up /\ Disturb
    /\ up' = FALSE /\ pc' = "idle"
    /\ tx' = None /\ held' = FALSE /\ stale' = FALSE /\ fresh' = FALSE /\ moved' = FALSE
    /\ signals' = <<>> /\ reply' = None
    /\ offBy' = IF offBy = "choice" /\ disk # None THEN "user" ELSE offBy
    /\ UNCHANGED <<powered, state, unit, job, disk, cycles>>

\* reload_journal() of the next daemon.
Restart ==
    /\ ~up
    /\ up' = TRUE
    /\ held' = (disk \notin {None, Foreign})
    /\ stale' = (disk = Foreign)
    /\ tx' = IF held' THEN [unit |-> disk.unit, sawOff |-> disk.phase = "on", completed |-> FALSE]
             ELSE None
    /\ UNCHANGED <<radioVars, reply, signals, disk, fresh, moved, pc, trouble, cycles>>

-----------------------------------------------------------------------------
(***************************************************************************)
(* BlueZ and the user.                                                     *)
(***************************************************************************)

Emit(signal) == signals' = IF up THEN Append(signals, signal) ELSE signals
Answer(r) == reply' = IF pc \in {"waitOff", "waitOn"} THEN r ELSE reply

BluezSwitches ==
    /\ job # None
    /\ powered' = (job = "on") /\ state' = job /\ job' = None
    /\ offBy' = IF job = "on" THEN None ELSE "us"
    /\ Emit(job) /\ Answer("ok")
    /\ UNCHANGED <<unit, disk, memoryVars, pc, up, trouble, cycles>>

\* BlueZ can leave PowerState at the attempted target after a rejected request.
BluezRejects ==
    /\ job # None /\ Disturb
    /\ job' = None
    /\ state' \in {"on", "off"}
    /\ Answer("error")
    /\ UNCHANGED <<powered, offBy, unit, signals, disk, memoryVars, pc, up, cycles>>

SwitchedOff == IF RestorePending \/ (~up /\ disk # None) \/ pc = "setOn" THEN "user" ELSE "choice"

\* The user switches the radio.
UserSwitches ==
    /\ job = None /\ state # "blocked" /\ Disturb
    /\ QuietPreflight => pc \notin {"journal", "recheck", "setOff"}
    /\ powered' = ~powered
    /\ state' = IF powered THEN "off" ELSE "on"
    /\ offBy' = IF powered THEN SwitchedOff ELSE None
    /\ Emit(state')
    /\ UNCHANGED <<unit, job, reply, disk, memoryVars, pc, up, cycles>>

\* rfkill blocks the adapter, or lets it go.
Rfkill ==
    /\ Disturb
    /\ powered' = FALSE /\ job' = None
    /\ state' = IF state = "blocked" THEN "off" ELSE "blocked"
    /\ offBy' = IF powered \/ offBy = "us" THEN SwitchedOff ELSE offBy
    /\ IF powered THEN Emit("off") ELSE UNCHANGED signals
    /\ IF job # None THEN Answer("error") ELSE UNCHANGED reply
    /\ UNCHANGED <<unit, disk, memoryVars, pc, up, cycles>>

\* bluetoothd restarts: another unit, switched as its own policy says.
BluezRestarts ==
    /\ Disturb
    /\ unit' = unit + 1
    /\ powered' \in IF state = "blocked" THEN {FALSE} ELSE BOOLEAN
    /\ state' = IF state = "blocked" THEN state ELSE IF powered' THEN "on" ELSE "off"
    /\ offBy' = IF powered' THEN None ELSE "user"
    /\ job' = None
    /\ IF job # None THEN Answer("error") ELSE UNCHANGED reply
    /\ Emit("moved")
    /\ UNCHANGED <<disk, memoryVars, pc, up, cycles>>

-----------------------------------------------------------------------------
WorkerStep ==
    \/ RecheckPasses \/ RecheckFails \/ SetOff \/ SetOffReturns
    \/ ReadCompletes \/ ReadInconclusive \/ ReadOff
    \/ PersistCompletes \/ ReadAgainCompletes \/ ReadAgainOff
    \/ SetOn \/ SetOnAcknowledged \/ SetOnFails
    \/ \E ok \in BOOLEAN : Journal(ok) \/ RestoreCleanup(ok) \/ Persist(ok)

MainLoop == OnSignal \/ RestoreBegin \/ \E ok \in BOOLEAN : CleanupRetry(ok)

World == BluezSwitches \/ BluezRejects \/ UserSwitches \/ Rfkill \/ BluezRestarts

\* A daemon with nothing to restore.
Rest == up /\ pc = "idle" /\ ~RestorePending /\ UNCHANGED vars

Next == Snapshot \/ WorkerStep \/ MainLoop \/ Crash \/ Restart \/ World \/ Rest

SafetySpec == Init /\ [][Next]_vars

\* systemd restarts the daemon, recovery ticks every ten seconds, calls time
\* out, and BlueZ finishes what it began.  Disk writes may fail for ever.
FairStep(k) ==
    CASE k = 1 -> Restart [] k = 2 -> RestoreBegin [] k = 3 -> OnSignal
      [] k = 4 -> WorkerStep [] k = 5 -> BluezSwitches [] OTHER -> FALSE

Fairness == \A k \in 1 .. 5 : WF_vars(FairStep(k))

Spec == SafetySpec /\ Fairness

-----------------------------------------------------------------------------
(***************************************************************************)
(* Properties.                                                             *)
(***************************************************************************)

RadioTyped ==
    /\ powered \in BOOLEAN /\ state \in {"on", "off", "busy", "blocked"}
    /\ offBy \in {"us", "user", "choice", None} /\ (offBy = None) = powered
    /\ unit \in Nat /\ job \in {"off", "on", None} /\ reply \in {"ok", "error", None}
    /\ signals \in Seq({"on", "off", "moved"})

JournalTyped ==
    /\ disk = None \/ disk \in [unit : Nat, phase : {"off", "on"}]
    /\ tx = None \/ tx \in [unit : Nat, sawOff : BOOLEAN, completed : BOOLEAN]
    /\ held \/ pc \in {"setOff", "read"} => tx # None

DaemonTyped ==
    /\ held \in BOOLEAN /\ stale \in BOOLEAN /\ fresh \in BOOLEAN /\ moved \in BOOLEAN
    /\ up \in BOOLEAN /\ trouble \in Nat /\ cycles \in Nat
    /\ pc \in {"idle", "journal", "recheck", "setOff", "waitOff", "restore", "read",
               "persist", "readAgain", "setOn", "waitOn"}

\* Radio, journal and transaction are well formed.
TypeOK == RadioTyped /\ JournalTyped /\ DaemonTyped

\* A radio the daemon switched off, or is switching off, has its journal on disk:
\* whatever crash, timeout, signal or disk failure happens, some later daemon
\* knows that it has to be switched on again (cycle, restore, _complete_restore).
ObligationOnDisk ==
    offBy = "us" \/ job = "off" => disk # None /\ disk.unit = unit

\* A radio switched off while nothing of ours was pending stays off: no cleanup
\* retry, late signal or later restore() asks BlueZ to power it on
\* (cleanup_journal's "Keep the completed latch").  A crash that leaves the
\* journal behind loses the latch, see Crash.
UserChoiceStands ==
    offBy = "choice" => job # "on" /\ pc # "setOn"

\* A radio the daemon switched off is switched on again, or someone else decides
\* about it; disk writes need not succeed for that ("Disk failure must not
\* strand the radio off").
RadioReturns == []<>(offBy # "us")

\* restore(): "Seeing off first excludes old on signals from preflight": no
\* signal completes a transaction whose power-off is under way or in force.
OldSignalsExcluded ==
    [][Len(signals') < Len(signals)
          /\ held /\ up' /\ tx'.completed /\ ~tx.completed
          => offBy # "us" /\ job # "off"]_vars
=============================================================================
