# A TLA+ model of BlueFerry's backend

BlueFerry connects a Linux desktop to an iPhone over Bluetooth. Its backend is a
user daemon (`src/src/blueferry/daemon.py`) on a GLib main loop, with one worker
thread for blocking OBEX calls. Several user interfaces (GTK, Qt, TUI, CLI,
Quickshell) talk to it over D-Bus.

The difficult part of the program is not the data it moves but the order of
events: callbacks of calls issued before a reconnect arrive after it, obexd and
bluetoothd restart and reuse names, the radio is switched by three parties, the
machine sleeps, the daemon is killed with the radio off, an answer to an old read
reaches a window after the user changed what it shows. The modules here model
that part. They keep the guards, early returns and error paths of the code they
model, and abstract texts, message contents, delays and logging.

## 1. Inventory

### 1.1 Components

| Component (under `src/src/blueferry/`) | State | Operations | Hard behaviour | What makes it correct |
|---|---|---|---|---|
| OBEX worker `obex/worker.py` | FIFO queue, `_futures`, `_reserved`, `_closed` | `submit`, `reserve_if_idle`, `release`, `_deliver`, `shutdown` | callbacks on another thread, shutdown racing the queue | nothing lost, leaked or run twice; the reservation excludes others; cleanup is last |
| Sessions `obex/sessions.py`, `bus.py` | the MAP and PBAP paths, `_closing`, what was removed while opening, private bus owners | `open_all`, `close_all`, signal handlers, `report_error` | signals overtake the publication of a path, paths are reused | a dead session is always forgotten; shutdown leaves none |
| Profile supervisor `profile_supervisor.py`, `connectivity.py` | `_opening`, `_closing`, `_ready`, `_paused`, `_generation`, retry timer, consumers, public status | `start`, `reconnect`, `pause`, `resume`, `stop`, loss handlers, completions | stale callbacks, full worker, partial availability | never stuck; status honest; consumers follow the session; comes back |
| Recovery, power `bluetooth_recovery.py` (`BluezRecoveryAdapter`) | journal on disk, transaction, stale record, what signals said | `snapshot`, `cycle`, `restore`, `cleanup_journal`, signals, reload | crash between steps, late effect of a timed-out call, failing disk | the radio is not left off, the user's choice stands |
| Recovery, policy `bluetooth_recovery.py` (`BluetoothRecovery`) | outage marks, saved budget, probe and snapshot under way | `tick`, snapshot, probe and re-read replies, `suspend`, `resume`, `forget_phone` | late replies, sleep during a cycle | budget kept, evidence unbroken, pause and resume balanced |
| Daemon `daemon.py` | which services run, hold of outbound LE | wiring, start, sleep, bluetoothd owner, stop | order of the callbacks between services | holds released, consumers stopped |
| Backend operations `backend_operations.py` | requests of the D-Bus API | send, reply, fetch, sync | several kinds of session failure | each request answered once |
| Read receipts `read_receipts.py` | batches of handles | mark read on the phone | reconnect and shutdown within a batch | batch ends, no write after stop |
| MNS watch, MAP events `obex/mns_watch.py`, `obex/map_events.py` | known MNS connections, listener | inventory, signals, fetch of new messages | inventory answered after signals | missing MNS noticed once |
| Message backfill `message_backfill.py`, `history.py` | plan, remembered messages, erase floor | request, plan, store | live copy and erasure racing a plan | stored once, erased stays erased |
| Bearer supervisor `bearer_supervisor.py`, `le_recovery_budget.py` | LE and BR/EDR bearers, deadlines, backoff, generation | connect, disconnect, reset, recovery | answers after deadlines | one attempt at a time, always retried |
| Solicitation `solicitation_supervisor.py`, adapter class, `bluez_health.py`, `profile_reset.py` | advertisement, class, health verdict | register, ping, reset | restart of bluetoothd | on air while wanted; blame only after two missed pings |
| ANCS `ancs/` | GATT subscription, request backlog, offered actions | subscribe, request, act, probe | objects vanish and reappear, UIDs are reused, backlog full | nothing withdrawn is shown, actions answered once |
| Event dispatch and popups `event_dispatcher.py`, `sinks/` | tables of shown popups | show, amend, close, click | the notification server restarts and reuses ids | tables agree with the server |
| One-time codes `sinks/otp_clipboard.py`, `otp_context.py`, `otp_clipboard.py` | candidates, helper processes | copy, withdraw | read elsewhere while a copy is on its way | copied only while wanted |
| AMS and MPRIS `ams/`, `media.py`, `mpris.py` | notify sessions, registration steps | register, release, refresh | writes answered after a disconnect | no notify session lost sight of |
| Contacts, call history `contact_sync.py`, `call_history_sync.py` | pull under way, generation, cache | pull, clear, opt in and out | clear or storage change during a pull | nothing erased comes back |
| Calls and audio `calls/`, `phone_audio_route.py`, `phone_audio_preference.py` | oFono modem and calls, route, pending change | bind, list, power, route | signals of an old binding | what is shown is what there is |
| Tethering `tether.py`, `tether_backends.py` | state, wanted, deadlines | connect, disconnect | late callbacks, suspend | no link nobody wants |
| Proximity lock `proximity_lock.py` | absence, grace period | lock | return during the grace period | locks only for a phone that left |
| Storage `storage_security.py`, `storage_preparation.py` | policy, key, key check | change, unlock, retry, prepare | policy changed during a pull, missing key | what is kept can be read |
| Conversations `threads.py`, `group_routes.py`, `named_groups.py`, `dbus_service.py` | index and its revision, rosters, tokens | reply, delete, search, save a roster | the conversation changes between the plan and the send | a reply goes where the user agreed |
| Pairing `pair_setup.py`, `pairing_agent.py`, `setup_client.py` | agent, Pairable, saved target | pair, confirm, clean up | answers of an earlier request, a lost client | bonds only by its own answer; adapter left as it was |
| Plugins `plugin_manager.py`, `plugin_stopper.py` | records, service files, venvs, processes | install, update, disable, remove | crash between two files, two clients | whatever is published can be run |
| Clients `ui/`, `qt/` | views, coalesced reads, saved choices | read, switch, act | answers to old reads | what must be gone stays gone; views end up current |
| TUI, CLI, Quickshell, notification log, battery, service management, parsers | | | | see section 7 |

`PROJECT.json` lists all of them with their status, and the hazards at the lines
where they bite.

### 1.2 How they interact

* The main loop runs every handler to completion. Blocking calls run on the
  worker thread; their results come back as idle callbacks of the main loop.
* The worker has a D-Bus connection of its own. What it reads is not ordered with
  the signals the main loop dispatches.
* Supervisor, backfill, receipts, contact and call synchronization all submit to
  the one worker. Bluetooth recovery reserves it.
* The daemon wires the components: the supervisor's availability callbacks start
  and stop the MAP listener and release outbound LE; a restart of bluetoothd, a
  resume from sleep and a missing MNS session call `reconnect()`; recovery calls
  `pause()` and `resume()`.
* A change of the storage policy, an erasure and a switch of an optional service meet
  pulls under way on the worker; generations and revisions tell what is stale.
* A client has worker threads of its own and learns of changes by signals without
  content, so it reads again; what it reads may be older than what it just saved.
* obexd, bluetoothd, oFono, NetworkManager, the notification server, the phone, the user
  and the disk are the environment. They are modelled from what the code sees of them.

## 2. Modules

| Module | Models | Composes |
|---|---|---|
| `ObexWorker` | the worker, its thread and its completions | |
| `SessionManager` | sessions, private bus owners, obexd | |
| `ProfileSupervisor` | supervisor, connectivity, the daemon's wiring | `ObexWorker`, `SessionManager` |
| `PowerRestore` | `BluezRecoveryAdapter`, the radio, the journal | |
| `BluetoothRecovery` | `BluetoothRecovery`, its saved budget, the daemon's calls | what `PowerRestore` shows of the radio |
| `MessageBackfill` | backfill, MNS listener, history with its erase floor | the worker's FIFO only |
| `Solicitation` | the advertisement that asks for ANCS | |
| `BearerSupervisor` | the Classic and LE bearers, their budget | `Solicitation` |
| `AncsClient` | the notification service's client | |
| `AmsClient` | the media service's client and its notify sessions | |
| `CallController` | calls through oFono | |
| `BluezHealth` | the pings of bluetoothd | |
| `Tether` | tethering and its two backends | |
| `ProximityLock` | the lock policy and the locker | |
| `CallHistorySync` | the call lists, their erasure and storage preparation | the worker's FIFO |
| `ContactStore` | contacts, photos, storage policy and key | the worker, the wallet worker, the store lock |
| `MnsWatch` | the watch of the phone's MNS connection | |
| `ReadReceipts` | read acknowledgements in batches | the worker's FIFO |
| `PhoneAudio` | audio route and preference | |
| `Popups` | the popup sink and the notification server | |
| `OneTimeCodes` | codes on the clipboard and their helper processes | |
| `Pairing` | the pairing helper, BlueZ, the phone, the asking client | |
| `Conversations` | conversation index, replies, rosters, deletion, search | |
| `QtClient`, `GtkClient` | the two graphical clients | |
| `PluginManager` | installation and processes of plugins | |
| `Handlers` | `Then`: one method's effect on a state record after another's | |
| `...Proofs` | theorems, see section 4 | the module they are about |
| `MC...` | instances for TLC, see section 3 | |

The `map` of `PROJECT.json` gives the source lines of every definition. Mutants, marked
as such, stand next to the definition they change.

**ObexWorker.** A job is an operation with its future and callbacks. The
executor's FIFO is `queue`, its thread `running`, the completions GLib has not
dispatched yet `done`. `Deliver` is a whole callback: it may submit another
operation or release the reservation before its own future is discarded, as
`_deliver` does. `shutdown()` is cut at every cancelled future (`Cancel`),
because the thread takes operations meanwhile.

**SessionManager.** `open_all` and `close_all` are cut where they call obexd, so
that signals can be dispatched in between. A session is a record of its path and
the obexd process that made it; the code compares only the path, so a path can be
mistaken for an older one if the code allows it. Signals are delivered in order
but arbitrarily late.

**ProfileSupervisor.** One action per method or callback. The instances
`W == INSTANCE ObexWorker` and `S == INSTANCE SessionManager` share the variables,
and each composed action conjoins a step of the supervisor with the step of the
worker or the session manager it causes. A retry delay is "the timer is armed",
the failure counter whether it is positive (what the code tests).

**PowerRestore.** `pc` is where `cycle()` or `restore()` is, between two D-Bus
calls or disk writes. A request whose call timed out stays in `job` and may still
take effect. `offBy` is history: who switched the radio off. A unit identifies an
adapter's insertion under one bluetoothd, what the journal's identity records.

**BluetoothRecovery.** Time marks are absent, young or ripe. A reply under way
records whether its generation is still current and whether the topology moved.
`rearmed`, `lastHour` and `broken` are history variables of the properties.

**MessageBackfill.** Fetches, listings and stores wait in one FIFO (`queue`), their
callbacks in another (`done`). A listing has two steps, the scan of history
(`Collect`) and the listing of the phone (`ListInbox`), so that live messages and
erasures fall in between. Messages are numbers, matching is exact, and time is the
second of a message's timestamp. `owing` and `gapped` are history variables: they say
which promises `CaughtUp` may expect to be kept.

**BearerSupervisor and the services.** A handler of these classes calls many methods,
each of which may leave early. So a method is an operator from one state record to the
next, a handler is a chain of them, and an action applies one handler to the component's
variable. A deadline is ahead or has passed. Generations and serial numbers are compared
only for equality in the code, so a call under way records whether it is still the current
one. Replies and signals of one peer arrive in the order it sent them, which is a queue;
what comes over another connection is not ordered with them.

**ContactStore.** Three threads meet: the main loop (policy, key, photo choice), the OBEX
worker (download, commit under `_STORE_LOCK`) and the wallet worker (keyring, preparation).
Each is cut where another can get the lock.

**Pairing.** The helper process is one thread, and `pc` names the function it is in. Agent
calls of BlueZ wait until the helper dispatches GLib; a confirmation is a thread of its own.
A call of BlueZ's that fails, or times out, may have been carried out all the same.

**Conversations.** A thread is projected from the archive's rows on a worker. What is asked
of it (a reply, a deletion, a search) waits until the projection is current, and the reply's
check against what the user approved is repeated when it is sent.

**QtClient, GtkClient.** The daemon's data is a version number per kind; a view holds the
version it read. The Qt client has one worker thread, GTK two, so that in GTK a read made
before a request can be answered after it. The status and the threads of a snapshot are read
apart and fail apart. A read that fails leaves what was shown where the code keeps it
(conversations, tether state, list of apps).

**PluginManager.** Each file the manager writes or deletes is one step, at which the process
may be killed or the step may fail: the two moves of `commit()` that lie outside its `try`, what
its `try` does, what undoes it, and the `rmtree(ignore_errors=True)` that leaves directories
without a word. `damaged` names the plugins such a failure or a crash left half changed, `torn`
those of them whose files could not be put back. Processes outlive the code they run. `MCClients` extends
this module and gives its variables to the Qt or the GTK client in the behaviours that are
theirs.

## 3. Runs

Services that meet in the daemon only through inputs which their modules let vary freely are
checked in one run: the first state chooses a component, the behaviour is one of that
component, and the others rest or are absent. The properties of such a run are those of the
components, each guarded by the choice; a combined name (`CallsServed`, `RouteSettles`, ...)
is the conjunction of what the component's module defines. Components that do interact are
composed in their modules.

| Run | Module | Distinct states | Components |
|---|---|---|---|
| `services` | `MCServices` | 287,388 | OBEX worker; calls, media, health, tethering, proximity lock, call history, MNS watch, receipts, contacts |
| `links` | `MCLinks` | 213,626 | power cycle; recovery policy, ANCS, audio route |
| `supervisors` | `ProfileSupervisor` | 756,175 | profile supervisor with sessions and worker (safety) |
| `bearers` | `MCSupervisors` | 145,979 | bearer supervisor with solicitation; profile supervisor under fairness |
| `user_side` | `MCUserSide` | 402,645 | backfill and history; popups, one-time codes, pairing, conversations |
| `clients` | `MCClients` | 2,196,211 | Qt client, GTK client, plugins |
| `power_race`, `backfill_gap`, `ancs_action`, `calls_queued`, `calls_erased`, `policy_crash` | | violations | see section 5 |

| Property | Run | What it says |
|---|---|---|
| `FuturesExact`, `ReservationExclusive`, `CleanupIsLast` | `services` | the worker's futures are exactly what is in flight; recovery's reservation excludes others; nothing starts after the cleanup |
| `EveryJobSettles` | `services` | every operation ends and shutdown ends |
| `CallsServed` | `services` | the calls shown are those there are, no modem stays powered at our request with calls off, calls become ready for good |
| `MediaFollowsChoice` | `services` | no notify session is lost sight of; opting in and out both arrive |
| `VerdictFollows` | `services` | bluetoothd is blamed only for two pings missed in a row, and for good exactly if it hangs for good |
| `TetherFollows` | `services` | what is shown is what BlueZ has, a tether turned off stays off, automatic tethering brings the link up |
| `LockFollows` | `services` | the desktop is locked only for a phone that was seen and left; the lock follows the phone; a request of the locker ends |
| `CallLogFollows` | `services` | an erased call list stays erased, syncs are answered, requests are followed by a pull |
| `MnsWatched` | `services` | the watch knows the connections there are; a silent MAP is opened again |
| `ReceiptsArrive` | `services` | no receipt is lost or misdirected; the queue empties |
| `ContactsFollow` | `services` | what is kept can be read, contacts arrive, syncs are answered, unwanted photos go |
| `ObligationOnDisk`, `UserChoiceStands`, `RadioReturns` | `links` | a radio recovery switched off is in the journal; a user's choice is not overridden; the radio returns |
| `RecoveryEarned` | `links` | profiles and worker are held exactly while recovery is active; a cycle needs unbroken evidence and budget; probe, snapshot and recovery end |
| `AncsFollows` | `links` | nothing the phone removed is shown, an action is answered once, notifications return for good |
| `RouteSettles` | `links` | the route shown is BlueZ's, requests are answered, a saved choice is applied |
| `NeverStuck`, `NoMissedLoss`, `StatusHonest` | `supervisors` | the supervisor always has a way on; a dead session is forgotten or its signal is pending; status, consumers and the LE hold agree with the sessions |
| `EveryWaitIsAnswered` | `bearers` | every flag of the bearer supervisor that blocks something has a call that ends it |
| `DialPublished` | `bearers` | the solicitation is told of every LE dial and of its end |
| `Recovers`, `BearersReturn` | `bearers` | sessions and the Classic link come back, an LE link has a way to come, resets end |
| `StoredOnce`, `ErasedStaysErased`, `CaughtUp`, `BackfillEnds` | `user_side` | a message is stored once, none older than an erasure returns, history catches up, a backfill ends |
| `PopupsHonest` | `user_side` | the sink's tables are the server's, only meant clicks act, popups follow the phone |
| `CodesKept` | `user_side` | a code is copied only while it is wanted, but for a second attempt after the evidence was dropped; no helper keeps it for ever |
| `PairingSound` | `user_side` | a run that was bound to its client ends, leaves the adapter as it was unless a call that sets `Pairable` failed, and bonds only by its own answer |
| `RepliesAsApproved`, `RequestsKept` | `user_side` | a reply goes only where a user agreed; deletions and searches meet what is there, and each call is answered |
| `ViewsForget`, `ViewsSettleCurrent` | `clients` | what a view may no longer show does not come back; at rest views show what the daemon has, or the last read failed |
| `TonesReachTheirCall` | `clients` | tones reach the call they were pressed for, once, in order |
| `SavedChoiceStands` | `clients` | a saved switch shows the choice whatever older answers say, until somebody changes it or a save fails |
| `PluginsSound` | `clients` | what is published can be run, bus names are unique, between operations files agree and no replaced code runs; plugins that a crash or a failed move, undoing or removal left half changed are excepted by name |

Every property of a passing run has a mutant: a definition changed the way a plausible bug
would change the code, for which TLC finds the property violated.

### 3.1 Bounds and why they are enough

Faults and requests of the environment are counted; what the program does by itself, and
successful answers, are not. Refused submissions and disk writes fail at any time without a
bound unless the module says otherwise.

* Worker: four operations (one of recovery's), `MaxPending = 3`; three fill the limit, so
  the refusal occurs. The theorems remove this bound.
* Calls: one call id, one tracked, two attempts, one event, one fault. Media: two attempts
  and one refresh, switch and fault each. Health: three turns, one report. Tethering: both
  modes, two wishes, one fault. Proximity: four events. Call history: two lists, one
  request, one fault (two faults also pass: 181 thousand states). MNS: two paths, three
  messages and three faults. Receipts: three messages, one path reused by two sessions,
  limit 2, one fault. Contacts: three policies, two keys, one wish, one fault.
* Power: two cycles and three disturbances, so that a crash, a switch and a failed request
  meet. Recovery: two cycles, the least for which a budget means something, and two
  disturbances. ANCS: one UID, reused; three requests with a backlog of one, two events, one
  fault, both modes. Audio: one wish, two messages, one fault (safety also with two faults
  and three messages: 1.49 million states).
* Profiles: two disturbances (a lost session, an exit of obexd, a restart of bluetoothd, a
  resume, a recovery or another consumer's failing operation each count), `MaxPending = 2`:
  the races the code guards against are of one handler with one loss, or of two losses.
  Bearers: one disturbance with signals and on the legacy build, none on the polled one, with
  resting after two failures; the run also looks for cycles, as it does for the profile
  supervisor with one disturbance. The two invariants were also checked with a disturbance on
  every build (370 thousand states) and with two with signals (1.81 million), and are proved.
* Backfill: two messages, one missed and one live, two seconds, one disturbance. For
  `CaughtUp` also three messages, three seconds and one disturbance (3.1 million states), and
  two messages, three seconds and two disturbances (4.4 million). `Margin = 0`: every gap is
  longer than the margin.
* Popups: five mixes of kinds, limit 1, two popups, one fault. Codes: two messages, one per
  window, two pushes, one user act, one fault, two setups. Pairing: every combination of
  explicit choice, LE, replaced target and Pairable beforehand, two requests, one loss.
  Conversations: ten mixes of what meets a reply, two rosters.
* Qt and GTK: twenty-one and twenty-two mixes of the views that are open and the changes and
  failures that meet them, one retry; the keypad holds `MaxTones = 2` unsent tones (32 in the
  code), and three or four are pressed. Plugins: nine plans of what two clients do, with up to
  three failing steps, at most three processes. A larger set (media and tethering of Qt with both
  bounds at two and a failure, an update with three failing steps before a second installation,
  a failing step where an update meets an installation) was checked too: 4.4 million states.

### 3.2 Fairness

Weak fairness is assumed of what GLib and threads do: dispatching a ready source, taking the
next queued operation, returning from a call. The code gives every D-Bus call a timeout,
which is why a call always returns, possibly with an error. systemd restarts a crashed daemon
(`Restart=` of the unit file). `ProfileSupervisor` adds strong fairness for two facts of the
environment: a phone that is asked again and again answers one attempt with success, and the
radio comes back (`RadioReturns` of `PowerRestore`, where no write to the disk is assumed to
succeed). Where a property says that a service returns, the peer is assumed to come back
(bluetoothd, oFono, the Classic link), since these are restarted by others. Nothing is assumed
of the user, of the phone in `BearerSupervisor`, or of anyone but the helper in `Pairing`: its
`Bind` has no fairness, since it waits for the client's line on stdin without a deadline
(`cli.py:391`).
Losses, crashes, switches and failures have no fairness. The comment at each module's
`FairStep` lists what it assumes.

`QuietPreflight = TRUE` in run `links` excludes the user's switching the radio in the few
calls between the snapshot and the power-off; what happens otherwise is the subject of
`power_race`.

## 4. Proofs

The theorems hold for every value of the constants that the named assumptions allow, and use
only the safety part of a specification, never its fairness. All inductive invariants were
checked with TLC before they were proved.

| Module | Theorem | States | From |
|---|---|---|---|
| `ObexWorkerProofs` | `WorkerTypes`, `WorkerBookkeeping`, `WorkerReservation`, `WorkerCleanupLast` | types, `FuturesExact`, `ReservationExclusive`, `CleanupIsLast` | `WorkerAssumption` |
| `PowerRestoreProofs` | `PowerTypes`, `ChoiceStands` | types, `UserChoiceStands` | `NoneAssumption` |
| `PowerRestoreProofs` | `ObligationKept`, `LateSignalsHarmless` | `ObligationOnDisk`, `OldSignalsExcluded` | `NoneAssumption`, `QuietPreflight` |
| `ProfileSupervisorProofs` | `LossesHeard` | `NoMissedLoss` | `SupervisorAssumption`, `None` is no set of numbers |
| `ProfileSupervisorProofs` | `SupervisorTypes`, `SupervisorNeverStuck`, `SupervisorHonest` | types, `NeverStuck`, `StatusHonest` | `SupervisorAssumption` |
| `ProfileSupervisorProofs` | `SupervisorUsesWorker` | refinement: the daemon implements the worker's specification | `SupervisorAssumption` |
| `BearerSupervisorProofs` | `BearersAnswered`, `DialsTold` | `EveryWaitIsAnswered`, `DialPublished` | `BearerAssumption` |
| `MessageBackfillProofs` | `BackfillTypes`, `EveryMessageOnce`, `NothingErasedReturns` | types, `StoredOnce`, `ErasedStaysErased` | `BackfillAssumption` |
| `MessageBackfillProofs` | `HistoryCatchesUp` | `CaughtUp` | `BackfillAssumption` |
| `ClientsProofs` | `PluginsStaySound` | `PluginsSound` | `PluginAssumption` |
| `ClientsProofs` | `ChoicesStand` | `SavedChoiceStands` | `ClientsAssumption` |
| `ClientsProofs` | `WithdrawnStaysGone`, `TonesArrive` | `ViewsForget`, `TonesReachTheirCall` | `ClientsAssumption`, `PluginAssumption` |
| `GtkClientProofs` | `GtkChoiceStands`, `GtkForgets` | `ChoiceStands`, `Forgets` of the GTK client | `NoneIsNew` |
| `QtClientProofs` | `QtForgets`, `QtTones` | `Forgets`, `TonesAsPressed` of the Qt client | `NoneIsNew` |

**Worker.** `FuturesExact` and `ReservationExclusive` are not inductive. `WorkerInv` adds
that queue and completions hold no operation twice, and `ShutdownOrder`: before the cleanup
is submitted it is neither queued nor running; while `shutdown()` cancels, whatever is queued
and not cancelled yet is still in its list; afterwards nothing queued is uncancelled, so the
thread can only skip it; and a stopped worker runs no operation. Lemmas on sequences
(`AppendElems`, `HeadTailElems`, ...) turn appends and tails into unions and differences of
sets. `CleanupIsLast` follows because a running cleanup implies, by `ShutdownOrder`, that no
queued operation may start.

**Power cycle.** `PowerInv` (types, `JournalKept`, `ChoiceKept`) suffices for the user's
choice: a choice is only recorded while nothing of recovery's is pending, and from then on
no request to power on is made or under way. `ObligationOnDisk` needs `RestoreInv`: units only
grow, a job under way is one of the transaction's, and while the radio is owed (`Owed`) the
transaction is pending in a running daemon and no "on" of ours is queued behind the "off".
The hypothesis `QuietPreflight` is needed, as `power_race` shows: without it two old signals
complete the transaction.

**Sessions.** `LossKnown`: a session obexd no longer has is announced by a signal still
pending, or was noted by the open under way before it publishes the path. Publication looks at
the notes, so it cannot publish a session whose loss was already heard.

**Supervisor.** `SupervisorInv` relates the flags `_opening` and `_closing` to the operations
in flight with their generations. The essential part is the worker's order: no open is queued
behind a close, so when a close is delivered no superseded open is left, and what was delivered
before it belongs to an older generation. The worker's invariants are not proved again:
`SupervisorUsesWorker` shows that every step of the daemon is a step of `ObexWorker` or leaves
its variables alone, so `WorkerInv` holds of the composition.

**Bearers.** An action applies one handler to the record `sv`, and a handler is a chain of
methods that may leave early, so `Good` is a predicate of such a record and every method has a
lemma that says it keeps it. The inductive part is `CallsMatch`: a connect call whose answer
would be taken has a request it can answer. Without it, a reply could meet the request of a
later dial. While a reply is handled its call is already gone and its request not yet cleared;
`E` in `Good(s, E)` holds the requests excused in that moment, and is empty between handlers.
Methods that touch no request, call, phase or advertisement are `Alike` to doing nothing.

**Backfill.** `StoredOnce` is far from inductive. `BackfillInv` has eight parts: no two
operations of one connection that could store the same message are in flight (`Apart`); what
waits in the worker's FIFO is ordered (nothing but fetches lies ahead of a store, listings by
generation), so that the answer of a current listing finds only fetches queued (`Flags`); a
live message still pending is not stored, or is remembered (`PendingOnce`, `LiveOnce`); the
messages of a queued store are in no copy of history and, if also pending live, remembered; a
scan and a plan leave out what is stored, except what arrived live meanwhile (`PlansOnce`).
`AboveFloor` says that what a scan, plan or store holds is not older than the floor it
recorded, which with `append_events`' second look at the floor gives `ErasedStaysErased`.

**Catching up.** `CaughtUp` is about the moment when nothing is under way; `CatchInv` says what
holds until then of every message the connection has to bring (`Open`: in the inbox, newer
than the floor, neither stored nor in a store of an earlier connection). It is *coming*: it
waits to be fetched, a listing is scheduled, queued or answered with a plan that has it, a
store has it, or a failure that will make the connection owe a listing is on its way
(`AllComing`). The parts that keep this inductive: no open message lies more than the margin
before one that bounds a listing (`NoGap`; a message that arrived live bounds none, which is
what `live_after` is for); what a scan, plan or store does not have arrived after all it has
(`ScanCovers`, `PlanCovers`, `StoreCovers`), so that storing it opens no gap; and neither
`_live` nor `_remembered` leaves out a message for a copy that does not exist
(`LiveWritten`, `RememberedStored`). Two cases the invariant did not survive in the first
attempt are now in `gapped`: a store of an earlier connection that fails after the reconnect,
and a live message that could not be written while a listing is in flight, which `_live`
nevertheless takes out of the plan. Both may leave the message out of history for good
(section 5).

**Plugins.** `PluginsStaySound` is proved for any plans of the module's two clients and any
number of commits, failing steps, crashes, strangers and started processes (two of which live at
a time, so that numbers are reused). What a failing move, undoing or removal leaves behind is
excepted by `damaged` and `torn`, as the comments of `Runnable` and `Agree` say; `TornIsDamaged`
and what the invariant says of `kept` (what a change could not remove) keep the exceptions no
wider than that. `PluginInv` says of the client that holds the lock
what each of its places guarantees (`Work`): what was published before the commit can still be
run and is not the new environment (`Keeps`), the new one is whole before a file names it
(`Builds`), which of the three files have been written or put back (`Publishes`), which
directories the plugin has (`Places`), and that files and directories agreed before
(`AgreedBefore`), which is what makes a rollback restore agreement. A new path differs from
every existing one because its suffix is not below any earlier one (`Fresh`). For the processes,
`Stops` follows the stopper: until it has asked the owner again it only knows that a process
with that number runs the old code; the pidfd together with the second question identify the
process that gets SIGTERM. Whatever is not the process being stopped is `Fine`, and the lock is
released only when that one has ended or is reported. One lemma per step; what a step does to
`disk` and to the client's record is stated first, so that the rest is about single fields.
The attempt showed an error in the model: disabling a plugin without a record was reported as a
success, where the code answers `UNMANAGED` (section 5).

**GTK client.** A handler is an operator from one state record of the window to the next, so the
invariant `Good(s, d)` is a predicate of that record and of the daemon, and every handler has a
lemma. Its parts are `Base` (what the record can hold and what is in flight), `Choice` of every
switch, `Rules` and `Views`. Handlers that have nothing to do with the switches are `Quiet`,
`Calm` or `Steady` and share one lemma each. The hard part is `Choice`. A settings answer is
resolved against the choice that is pending or acknowledged, and `ChoiceStands` says that the row
shows the choice once the daemon carried it out (the ghost `kept`, which others' changes and a
failed save end). What makes this true is that
one thread reads the settings, one answer at a time: of the answers that are dispatched after the
acknowledgement of a save, at most the first was read before it (`OneStale`), and that one is
what the acknowledged choice outlasts. `Forgets` follows from `Views`: a read that was under way
when its view was hidden, its phone changed or its opt-in went carries an older token than the
view has now.

**Qt client.** `IInv` consists of what the daemon may be (`Daemon`), what signals are on their way
(`Sent`) and `Good(s, d, H)` of the controller, where `H` names the pages of the mix. `Good` has one
part per model of the controller (`StatusPart`, `NotesPart`, `BookPart`, `SearchPart`, `FindPart`,
`FacesPart`, `KeysPart`, ...), each about the model's own record, the jobs it asked for and their
answers: *an answer that would still be shown is fit to be shown*. A job with the serial of the
newest one was asked for under the present epoch, query or generation, and an older one is
dropped. Two links connect a part to the status (`NotesLink`, `FacesLink`); while a new status is
handed from model to model they do not hold, so the chain is proved with the weaker `Fair` and
they are restored at its end. `Moves(s, t, V, K)` is the frame: from `s` to `t` only the views in
`V` change and only jobs of the kinds in `K` are added; `Kept` turns it into the parts a handler
leaves alone, so that a handler's lemma is about its own model only. The daemon's epoch, revision
and version only grow (`Later`), which keeps what was read under an older one comparable. For the
search, `Cleared` says that after an invalidation no answer on its way has the current serial, and
only then may `since` move forward. For the tones, the worker's order is enough: what the daemon
got was pressed before what is queued, the queue is in the order of the presses, and both precede
what waits (`Before`); that only one request is out at a time (`busy`) is not needed.

`MCClients` instances both proof modules, so that their theorems hold of `ClientsSpec`, which TLC
checks: while a client runs, the behaviour is one of its module's specification (`GtkRuns`,
`QtRuns`), and which client runs never changes (`OtherRuns`).

What stays with TLC, and why:

* Liveness (`EveryJobSettles`, `Recovers`, `BearersReturn`, `RadioReturns`, `BackfillEnds` and
  the temporal parts of the combined properties): fairness and ENABLED are outside what the
  prover handles.
* `ViewsSettleCurrent`: an invariant, but of the moment when everything has been answered, and
  one of the mixes. The daemon's data has one version number for all pages, and a change of what
  one page shows makes the others' numbers old without a signal to them, so the property is only
  meant for mixes that change the data of one page, as those of `MCClients` do. A proof for every
  mix needs a number per page, and an inductive form that says of every view what is still on its
  way to make it current.
* The combined properties of `MCServices`, `MCLinks` and `MCUserSide`: each is a conjunction with
  a temporal formula, and the invariants of their safety parts are not proved (section 6).

## 5. Findings

* `power_race` (`OldSignalsExcluded`). `restore()` relies on the comment at
  `bluetooth_recovery.py:386`, "Seeing off first excludes old on signals from
  preflight". The worker's reads are on its own bus connection; if the user
  switches the radio off and on between `cycle()`'s last check and its
  `Set(False)`, both signals are dispatched after the journal is written. They
  complete the transaction and clear the journal while the daemon's power-off is
  being executed.
* `backfill_gap` (`EveryGapFilled`). The docstring of `message_backfill.py` says that
  each reconnect stores "the messages history does not have". A listing begins two
  hours before the newest stored message that did not arrive live in the *current*
  connection. If a connection delivers a live message and is lost before its listing
  (or the listing or its store fails), that message is the newest for the next connection,
  and what was missed more than the margin before it is never listed.
* `ancs_action` (`ActionsStayWithTheirEvent`). `_forget_actionable()` drops queued actions of
  a reused UID, but not the one being written; answered `InProgress`, it is written again, to
  the new notification.
* `calls_queued` (`CallsExact`). A `CallAdded` of the old binding, received before the modem
  returned at its path, is given to the new binding's handler and stays listed.
* `calls_erased` (`ErasedCallsGone`). A storage preparation that read the call history before
  ClearHistory is adopted after it, and the erased calls are listed again.
* `policy_crash` (`NoWrongPolicyAfterCrash`). A pull waiting for the store lock commits rows of
  the old policy between the erasure and the change of the revision; only its callback erases
  them, and a crash comes first. (Without a crash, a preparation may read such rows and fail.)

`PROJECT.json` quotes the lines. Smaller observations made while modelling, which the
properties except by name or which lie outside the modelled part:

* Backfill: a live copy given up in favour of a store that then fails, or is refused because
  history was erased after the scan, is in history only after the next listing; a message of
  the very second of an erasure is not below the floor; a store of an earlier connection that
  fails after the next one began leaves its gap open if the newer connection's listing starts
  after it; a live message that cannot be written while a listing is in flight is in `_live`
  all the same, so that listing leaves it out, and if storage was locked when the connection
  began no later one has it. `gapped` excepts these cases from `CaughtUp`.
* Bearers: Classic stays "resting" when the phone reconnects before the next poll, unlike the
  docstring at `bearer_supervisor.py:1736`; the reply of `hold_le`'s cancelling Disconnect can
  complete an LE reset asked for later (needs two faults).
* ANCS: with two overdue answers and a reused UID an old answer can be shown for the new event.
* Calls: off, on and off again while `Powered` is pending leaves the modem powered (`resumed`).
* Media: with two faults the silence watchdog's budget may be spent before the service returns.
* Tethering: exceptions `crossed`, `early` and `broken` of the module; a link adopted from
  outside is not chased when it is lost.
* Call history: opting out and shutting down before the store's callback leaves rows until the
  next preparation; exception `readopted`.
* MNS: a failed inventory while the one reconnection is spent leaves a live connection unseen.
* Contacts: with two wishes a preparation of a reset can read rows that an overtaken pull's
  callback then erases.
* Popups: a daemon that stops while a call rings leaves the call's popup; an amended popup that
  was already closed comes back untracked.
* Codes: read evidence that comes after its 60 s record was dropped is seen only by the lookup.
  `otp_context.py:48` drops a record also between a failed copy and its confirmation 400 ms
  later; the second attempt of `_confirm` (`otp_clipboard.py:445`) then copies the code of a
  message known to be read, unlike the comment at `otp_clipboard.py:357`. `CodeStep` excepts it.
* Pairing: a killed helper leaves Pairable on; so do a restoring call that fails, after which
  the helper goes on, and a `Set(True)` that times out and is carried out, for which nothing is
  restored (`pair_setup.py:1333-1358`; ghost `unsure`); `_wait_for_paired_device` sleeps without
  dispatching GLib, unlike the comment at `pair_setup.py:573`.
* Qt: a reload while an adapter selection is pending forgets the selection.
* GTK: missed-call popups toggled right after turning call history off turn history on again
  (`status.py:1929`); a failed save of one switch re-applies the last status read and can flip
  another row, which `SavedChoiceStands` excepts; the composer is enabled again while a send is in flight. After somebody else
  toggles a switch away and back while its save is answered, two older answers may be shown in
  turn: what was read does not tell the second state from the first. `kept` ends with the first
  change by others, and `SavedChoiceStands` excepts this case. Failed reads of the tether state
  and of the apps keep what was shown without saying so; a change of the muted apps signalled
  while the status could not be read is missed if their number stays the same
  (`ui/notification_apps.py`, ghost `missed`).
* Plugins: staging litter after a crash is never removed; two queued prepares in the settings
  leak the first checkout; after a crash between service and record, disabling stops only the
  recorded environment's processes, and none if there is no record yet: the plugin can be
  activated from its service file, but counts as `UNMANAGED` (`set_enabled`). If the new
  checkout cannot be moved into place (`plugin_manager.py:535`, outside the `try`), the old one
  stays aside and nothing restores it; undoing a commit may fail as well; directories that
  cannot be removed stay silently (`:573`, `:582`, `:649`); and a backup that cannot be unlinked
  in the `finally` at `:683` makes `commit()` undo what it had published.
* TUI (read, not modelled): the exclusive render group can cancel `_send_finished`, which leaves
  the composer disabled.

## 6. Plan

Done: the modules of section 2, the runs of section 3, the proofs of section 4. Next:

1. Proofs: `SettlesCurrent` of the two clients, with a version per page; `PausedExactly` and `CycleStep` of `BluetoothRecovery`; `VerdictEarned` of
   `BluezHealth`; `LockStep` of `ProximityLock`; `ContactsKept`.
2. Models: the TUI's views and composer, the notification log with its pins, the phone battery,
   the MPRIS player, start-up and its retries in the daemon, the Quickshell bridge.

## 7. Not modelled

* TUI and CLI, Quickshell: presentation over the same client API as the modelled clients.
* Notification log, phone battery: changed on the main loop, one call at a time. Service
  management: systemd keeps the state.
* MAP transfers, queries and sending: blocking calls inside one operation of the worker.
* Parsers (ANCS, AMS, bMessage, vCard), recognition of codes in a text: stateless translations.
* Packaging, documentation, the plugin API's types: no program logic.
* Sessions: `open_pbap_only`, used by the CLI without a daemon. Power: an adapter replugged
  under the same bluetoothd between the last check and `Set`, which `cycle()`'s docstring
  concedes. Bearers: the evidence of LE flaps and of a suspect bond (865-1132), which ends in
  a notice; telling an unchanged LE state again on the legacy build (1254-1259). ANCS:
  blocking calls are atomic. Calls: properties of a call, dialling, tones of the daemon's
  side, watches that cannot be set up in `_bind` and `_adopt`. Media: attribute reads,
  commands, moved characteristics. Audio: whether sound plays, delay, removal of the device,
  retries of Play. Contacts and call history: an unreadable settings file, refused
  submissions, the limit of waiters, damaged storage. Popups: the delayed popup of a missed
  call, matching of MAP and ANCS copies. Pairing: the console wizard and the listing of
  devices. Conversations: names, aliases, stars; what arrives between the last check and the
  transmission. Clients: setup and pairing dialogs, drafts, doctor, avatar limits, and in Qt
  the parts of the notifications' key that are no revision (`notification_history.py:96-100`).
  Plugins: network failures, index, log and configuration commands.
* `PROJECT.json` says of each component what is missing.
