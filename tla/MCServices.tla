----------------------------- MODULE MCServices -----------------------------
(***************************************************************************)
(* The OBEX worker and the daemon's services for TLC, one at a time: the   *)
(* first state chooses a service, the behaviour is one of that service,    *)
(* and the others are absent.  They meet in the daemon only through inputs *)
(* that each module lets vary freely, so nothing is lost by looking at     *)
(* them apart.                                                             *)
(*                                                                         *)
(* ObexWorker is extended, and idle while another service runs; the others *)
(* share core, peer, ... under the names each of them gives them.          *)
(***************************************************************************)
EXTENDS ObexWorker

VARIABLES service, core, peer, count, bound, proof

Calls == INSTANCE CallController
    WITH cc <- core, ofono <- peer, faults <- count, events <- bound,
         Ids <- {"c"}, MaxTracked <- 1, MaxAttempts <- 2, MaxEvents <- 1, MaxFaults <- 1

Media == INSTANCE AmsClient
    WITH am <- core, blue <- peer, faults <- count, switches <- bound,
         MaxAttempts <- 2, MaxRefreshes <- 1, MaxSwitches <- 1, MaxFaults <- 1

Health == INSTANCE BluezHealth
    WITH hl <- core, blz <- peer, turns <- count, MaxTurns <- 3, MaxReports <- 1

Tethering == INSTANCE Tether
    WITH te <- core, pan <- peer, wishes <- count, faults <- bound,
         Modes <- {"bluez", "nm"}, MaxWishes <- 2, MaxFaults <- 1

Proximity == INSTANCE ProximityLock
    WITH px <- core, near <- peer, seen <- count, pxEvents <- bound, MaxEvents <- 4

CallLog == INSTANCE CallHistorySync
    WITH ch <- core, net <- peer, faults <- count, asks <- bound,
         Lists <- 2, MaxBackoff <- 1, MaxAsks <- 1, MaxFaults <- 1

Mns == INSTANCE MnsWatch
    WITH mn <- core, obex <- peer, faults <- count, Paths <- {"p", "q"}, MaxSent <- 3, MaxFaults <- 3

Receipts == INSTANCE ReadReceipts
    WITH rr <- core, work <- peer, reads <- count, faults <- bound,
         Messages <- {"a", "b", "c"}, Paths <- {"p"}, Limit <- 2, MaxSessions <- 2,
         MaxReads <- 3, MaxFaults <- 1

Contacts == INSTANCE ContactStore
    WITH ct <- core, env <- peer, wishes <- count, faults <- bound,
         Policies <- {"encrypted", "plaintext", "none"}, MaxKeys <- 2, MaxWishes <- 1, MaxFaults <- 1

shared == <<core, peer, count, bound, proof>>
all == <<service, workerVars, shared>>

Is(name) == service = name

-----------------------------------------------------------------------------
ServicesInit ==
    /\ WorkerInit
    /\ \/ Is("worker") /\ core = None /\ peer = None /\ count = None /\ bound = None /\ proof = None
       \/ Is("calls") /\ Calls!Init /\ proof = None
       \/ Is("media") /\ Media!Init /\ proof = None
       \/ Is("health") /\ Health!Init /\ bound = None /\ proof = None
       \/ Is("tether") /\ Tethering!Init /\ proof = None
       \/ Is("proximity") /\ Proximity!Init
       \/ Is("callLog") /\ CallLog!Init /\ proof = None
       \/ Is("mns") /\ Mns!Init /\ bound = None /\ proof = None
       \/ Is("receipts") /\ Receipts!Init /\ proof = None
       \/ Is("contacts") /\ Contacts!Init /\ proof = None

ServicesNext ==
    /\ UNCHANGED service
    /\ \/ Is("worker") /\ WorkerNext /\ UNCHANGED shared
       \/ Is("calls") /\ Calls!Next /\ UNCHANGED <<workerVars, proof>>
       \/ Is("media") /\ Media!Next /\ UNCHANGED <<workerVars, proof>>
       \/ Is("health") /\ Health!Next /\ UNCHANGED <<workerVars, bound, proof>>
       \/ Is("tether") /\ Tethering!Next /\ UNCHANGED <<workerVars, proof>>
       \/ Is("proximity") /\ Proximity!Next /\ UNCHANGED workerVars
       \/ Is("callLog") /\ CallLog!Next /\ UNCHANGED <<workerVars, proof>>
       \/ Is("mns") /\ Mns!Next /\ UNCHANGED <<workerVars, bound, proof>>
       \/ Is("receipts") /\ Receipts!Next /\ UNCHANGED <<workerVars, proof>>
       \/ Is("contacts") /\ Contacts!Next /\ UNCHANGED <<workerVars, proof>>

\* The fairness of the service that runs, as its module states it.
Turn(k) ==
    /\ UNCHANGED service
    /\ \/ Is("worker") /\ WorkerFairStep(k) /\ UNCHANGED shared
       \/ Is("calls") /\ Calls!FairStep(k) /\ UNCHANGED <<workerVars, proof>>
       \/ Is("media") /\ Media!FairStep(k) /\ UNCHANGED <<workerVars, proof>>
       \/ Is("health") /\ Health!FairStep(k) /\ UNCHANGED <<workerVars, bound, proof>>
       \/ Is("tether") /\ Tethering!FairStep(k) /\ UNCHANGED <<workerVars, proof>>
       \/ Is("proximity") /\ Proximity!FairStep(k) /\ UNCHANGED workerVars
       \/ Is("callLog") /\ CallLog!FairStep(k) /\ UNCHANGED <<workerVars, proof>>
       \/ Is("mns") /\ Mns!FairStep(k) /\ UNCHANGED <<workerVars, bound, proof>>
       \/ Is("receipts") /\ Receipts!FairStep(k) /\ UNCHANGED <<workerVars, proof>>
       \/ Is("contacts") /\ Contacts!FairStep(k) /\ UNCHANGED <<workerVars, proof>>

ServicesSpec == ServicesInit /\ [][ServicesNext]_all /\ \A k \in 1 .. 18 : WF_all(Turn(k))

-----------------------------------------------------------------------------
(* The properties are those of the modules, which say in words what they mean; each is
   about the behaviours of its own service. *)

\* CallController: the calls shown are the calls there are, no modem stays powered at our
\* request with calls off, and calls become ready for good.
CallsServed ==
    /\ [](Is("calls") => Calls!CallsFollow /\ Calls!ModemReleased)
    /\ <>[](Is("calls") /\ Calls!Wanted) => <>[](Is("calls") /\ Calls!Serving)
\* AmsClient: no notify session is lost sight of, and opting in and opting out both arrive.
MediaFollowsChoice ==
    /\ [](Is("media") => Media!SessionsKnown)
    /\ <>[](Is("media") /\ core.on) => <>[](Is("media") /\ Media!Registered)
    /\ <>[](Is("media") /\ ~core.on) => <>[](Is("media") /\ Media!Silent)
\* BluezHealth: bluetoothd is blamed only for two pings missed in a row, and is blamed
\* for good exactly when it hangs for good.
VerdictFollows ==
    /\ [](Is("health") => Health!VerdictEarned)
    /\ <>[](Is("health") /\ Health!Hung) => <>[](Is("health") /\ core.unresponsive /\ core.paused)
    /\ <>[](Is("health") /\ Health!Sound) => <>[](Is("health") => ~(core.unresponsive \/ core.paused))
\* Tether: what is shown is what BlueZ has, a tether turned off stays off, and automatic
\* tethering brings the link up.
TetherFollows ==
    /\ [](Is("tether") => Tethering!TetherHonest /\ Tethering!OffStays)
    /\ <>[](Is("tether") /\ Tethering!Automatic) => <>[](Is("tether") /\ Tethering!Up(peer))
\* ProximityLock: the desktop is locked only for a phone that was seen and then left, with
\* the locker at work; the lock follows the phone, and requests of the locker end.
LockFollows ==
    /\ [][Is("proximity") => Proximity!LockStep]_all
    /\ []<>(Is("proximity") => ~Proximity!Present \/ core.st = "armed")
    /\ []<>(Is("proximity") => ~Proximity!Gone)
    /\ []<>(Is("proximity") => ~core.busy)
\* CallHistorySync: an erased call list stays erased, syncs are answered, and requests
\* followed by a pull.
CallLogFollows ==
    /\ [](Is("callLog") => CallLog!ForgottenStays)
    /\ []<>(Is("callLog") => ~CallLog!Waiting)
    /\ <>[](Is("callLog") /\ CallLog!Able) => []<>(Is("callLog") => ~core.owed)
\* MnsWatch: the watch knows the connections there are, and a silent MAP is opened again.
MnsWatched ==
    /\ [](Is("mns") => Mns!PresenceKnown)
    /\ <>[](Is("mns") /\ Mns!Silent) => <>[](Is("mns") /\ core.spent)
\* ReadReceipts: no receipt is lost or misdirected, and the queue empties.
ReceiptsArrive ==
    /\ [](Is("receipts") => Receipts!ReceiptsKept)
    /\ []<>(Is("receipts") => Receipts!Delivered)
\* ContactStore: what is kept can be read, contacts arrive, syncs are answered, and
\* unwanted photos go.
ContactsFollow ==
    /\ [](Is("contacts") => Contacts!ContactsKept)
    /\ <>[](Is("contacts") /\ Contacts!Usable) =>
           <>[](Is("contacts") => ~Contacts!Needed(core) /\ core.mem)
    /\ []<>(Is("contacts") => core.waiters = 0)
    /\ <>[](Is("contacts") /\ ~core.photos) => <>[](Is("contacts") => ~core.pics)
=============================================================================
