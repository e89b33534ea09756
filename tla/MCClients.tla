------------------------------ MODULE MCClients ------------------------------
(***************************************************************************)
(* The clients' side, for TLC: the Qt client, the GTK client and the       *)
(* plugin manager, one at a time.  The first state chooses which of them   *)
(* runs, and what is opened, asked for and changed while it does.          *)
(***************************************************************************)
EXTENDS PluginManager

CONSTANTS
    QtMixes,        \* what a client opens, asks for and meets: QtPages and GtkPages for TLC
    GtkMixes

VARIABLE service

\* None is none of the values it stands in for in the clients.
ASSUME ClientsAssumption == None \notin BOOLEAN /\ None \notin BOOLEAN \X BOOLEAN \X Nat

QtPages ==
    {[history |-> 1, act |-> 1, fail |-> 1, lost |-> 1],
     [find |-> 0, type |-> 3, fail |-> 1],
     [notes |-> 1, page |-> 3, lock |-> 1, pin |-> 1],
     [notes |-> 2, page |-> 1, fail |-> 1],
     [book |-> 1, page |-> 2, card |-> 2],
     [book |-> 0, page |-> 1, card |-> 1, type |-> 2, fail |-> 1],
     [book |-> 1, page |-> 1, card |-> 1, photos |-> 2],
     [search |-> 2, type |-> 2],
     [search |-> 1, type |-> 1, fail |-> 2],
     [log |-> 1, page |-> 2, save |-> 1],
     [log |-> 1, page |-> 1, sync |-> 1, lost |-> 1, fail |-> 1],
     [apps |-> 1, notes |-> 0, page |-> 2, mute |-> 1, lost |-> 1, fail |-> 1],
     [faces |-> 1, photos |-> 2, fail |-> 1],
     [calls |-> 2, press |-> 4, lost |-> 1],
     [calls |-> 1, save |-> 2, hangup |-> 1, fail |-> 1],
     [media |-> 2, save |-> 2],
     [media |-> 1, save |-> 2, fail |-> 1],
     [tether |-> 2, command |-> 1, lost |-> 1, fail |-> 1],
     [tether |-> 1, command |-> 2, lost |-> 1, fail |-> 1],
     [sets |-> 3, page |-> 2, lost |-> 1, fail |-> 1],
     [notes |-> 0, page |-> 1, unlock |-> 1, lock |-> 1, lost |-> 1]}

Qt == INSTANCE QtClientProofs WITH dm <- disk, qt <- cl, bus <- lock, Mixes <- QtMixes, Retries <- 1

GtkPages ==
    {[media |-> 2, turn |-> 2, page |-> 1],
     [media |-> 1, page |-> 2, fail |-> 1],
     [log |-> 1, page |-> 2, phone |-> 1, sync |-> 1],
     [log |-> 1, page |-> 1, turn |-> 1, lock |-> 2],
     [log |-> 1, page |-> 1, sync |-> 1, lost |-> 1, fail |-> 1],
     [calls |-> 1, act |-> 1, phone |-> 1, page |-> 2],
     [calls |-> 1, act |-> 1, turn |-> 2, lost |-> 1],
     [quick |-> 2, lost |-> 1],
     [set |-> 2],
     [set |-> 1, other |-> 1],
     [set |-> 2, lost |-> 1],
     [set |-> 1, fail |-> 1],
     [set |-> 0, plain |-> 2],
     [set |-> 0, lock |-> 1, lost |-> 1],
     [set |-> 0, rules |-> 2, lost |-> 1, fail |-> 1],
     [set |-> 0, rules |-> 1, plain |-> 1],
     [set |-> 0, apps |-> 2, page |-> 2, lost |-> 1],
     [set |-> 0, apps |-> 1, page |-> 1, fail |-> 1],
     [features |-> 3, page |-> 1, lost |-> 1],
     [set |-> 0, tether |-> 2, lost |-> 1],
     [set |-> 0, tether |-> 1, fail |-> 1],
     [threads |-> 2, fail |-> 1]}

Gtk == INSTANCE GtkClientProofs WITH dm <- disk, gtk <- cl, bus <- lock, Mixes <- GtkMixes

\* Commands of two clients, and what may fail or be killed meanwhile.
Op(op, id) == [op |-> op, id |-> id]
Plan(a, b, installed, head, fail, crash, strangers) ==
    [ops |-> [a |-> a, b |-> b], installed |-> installed, head |-> head,
     fail |-> fail, crash |-> crash, strangers |-> strangers]

PluginPlans ==
    {Plan(<<Op("install", "p")>>, <<Op("install", "q")>>, FALSE, 1, 1, 1, 0),
     Plan(<<Op("update", "p")>>, <<>>, TRUE, 2, 3, 0, 0),
     Plan(<<Op("install", "p"), Op("install", "p")>>, <<>>, FALSE, 1, 2, 0, 0),
     Plan(<<Op("install", "p"), Op("remove", "p")>>, <<>>, FALSE, 1, 2, 0, 0),
     Plan(<<Op("update", "p")>>, <<Op("remove", "p")>>, TRUE, 2, 1, 1, 0),
     Plan(<<Op("update", "p")>>, <<Op("install", "p")>>, TRUE, 2, 0, 0, 0),
     Plan(<<Op("disable", "p"), Op("enable", "p")>>, <<Op("update", "p")>>, TRUE, 2, 1, 0, 1),
     Plan(<<Op("install", "p"), Op("disable", "p")>>, <<>>, FALSE, 1, 0, 1, 0),
     Plan(<<Op("remove", "p"), Op("install", "q")>>, <<>>, TRUE, 1, 1, 1, 0)}

clientsVars == <<service, disk, cl, lock, procs, left>>
Is(name) == service = name

-----------------------------------------------------------------------------
ClientsInit ==
    \/ Is("qt") /\ Qt!Init /\ procs = None
    \/ Is("gtk") /\ Gtk!Init /\ procs = None
    \/ Is("plugins") /\ Init

ClientsNext ==
    /\ UNCHANGED service
    /\ \/ Is("qt") /\ Qt!Next /\ UNCHANGED procs
       \/ Is("gtk") /\ Gtk!Next /\ UNCHANGED procs
       \/ Is("plugins") /\ Next

\* The fairness of the one that runs, as its module states it.
Turn(k) ==
    /\ UNCHANGED service
    /\ \/ Is("qt") /\ Qt!FairStep(k) /\ UNCHANGED procs
       \/ Is("gtk") /\ Gtk!FairStep(k) /\ UNCHANGED procs

ClientsSpec == ClientsInit /\ [][ClientsNext]_clientsVars /\ \A k \in 1 .. 4 : WF_clientsVars(Turn(k))

-----------------------------------------------------------------------------
(* The properties are those of the modules, which say in words what they mean. *)

\* QtClient, GtkClient: what a view may no longer show is gone, and no late answer brings it
\* back.
ViewsForget == (Is("qt") => Qt!Forgets) /\ (Is("gtk") => Gtk!Forgets)
\* QtClient: tones reach the call they were pressed for, once, in order.
TonesReachTheirCall == Is("qt") => Qt!TonesAsPressed
\* GtkClient: a saved switch shows the choice whatever older answers say, until somebody changes
\* it or the save of any switch fails.
SavedChoiceStands == Is("gtk") => Gtk!ChoiceStands
\* QtClient, GtkClient: when nothing is on its way, views show what the daemon has.
ViewsSettleCurrent == (Is("qt") => Qt!SettlesCurrent) /\ (Is("gtk") => Gtk!SettlesCurrent)
\* PluginManager: whatever is published can be run; no two plugins share a bus name; between
\* operations the files agree and no replaced or disabled code runs; with the exceptions that
\* are named there.
PluginsSound ==
    Is("plugins") => Runnable /\ OneName /\ Agree /\ OldCodeGone

=============================================================================
