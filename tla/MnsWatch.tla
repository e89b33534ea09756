------------------------------ MODULE MnsWatch ------------------------------
(***************************************************************************)
(* The watch of the phone's MAP notification connection (MNS): class       *)
(* MnsWatch of src/src/blueferry/obex/mns_watch.py, and what the daemon    *)
(* does about it.  obexd publishes each connection as an object; the watch *)
(* learns of them from an inventory and from signals, and has MAP opened   *)
(* again once when there is none.                                          *)
(*                                                                         *)
(* obexd answers the inventory with the objects of a moment between call   *)
(* and answer, and the answer keeps no order with the signals.  The daemon *)
(* makes a watch per MAP session, so what arrives for an earlier one finds *)
(* it stopped.                                                             *)
(***************************************************************************)
EXTENDS Naturals, Sequences

CONSTANTS
    Paths,          \* object paths of MNS connections
    MaxFaults,      \* bound of losses, refusals and unanswered inventories
    MaxSent,        \* bound of the signals that are not dispatched yet
    None

VARIABLES
    mn,             \* the watch, and what the daemon remembers
    obex,           \* obexd: the MAP session, its connections, its messages
    faults

mnsVars == <<mn, obex, faults>>

\* changes: _inventory_changes, None once the inventory is answered; timer: what its reason
\* says; blind: the inventory failed (history).
NewWatch == [sessions |-> {}, timer |-> None, changes |-> {}, blind |-> FALSE]

\* map: the MAP session is "open", or gone (or obexd is, "exited") and not "down" for the
\* daemon yet; asked: the inventory is not answered; inventory: the paths it answers, once they are collected.
Init ==
    /\ mn = [watch |-> None, spent |-> FALSE]
    /\ obex = [map |-> "down", mns |-> {}, sent |-> <<>>, asked |-> FALSE,
               inventory |-> None]
    /\ faults = 0

Running == mn.watch # None

-----------------------------------------------------------------------------
\* _profiles_lost(), by reconnect(): the watch stops, and MAP is opened again.
Lost ==
    /\ mn' = [mn EXCEPT !.watch = None]
    /\ obex' = [obex EXCEPT !.map = "down", !.asked = FALSE, !.inventory = None]

\* _on_interfaces_added() of one of the phone's connections; present: _mns_present().
Added(m, path) ==
    [m EXCEPT !.watch.sessions = @ \cup {path}, !.watch.timer = None,
              !.watch.changes = IF @ = None THEN None ELSE @ \cup {path},
              !.spent = FALSE]

Removed(m, path) ==
    LET left == m.watch.sessions \ {path}
    IN [m EXCEPT !.watch.sessions = left,
                 !.watch.changes = IF @ = None THEN None ELSE @ \cup {path},
                 !.watch.timer = IF path \in m.watch.sessions /\ left = {} THEN "loss" ELSE @]

\* Mutant: an answered inventory is believed over the signals that came before it.
ListedLate(m, objects) ==
    LET known == m.watch.sessions \cup objects
    IN [m EXCEPT !.watch.sessions = known, !.watch.changes = None,
                 !.watch.timer = IF objects # {} THEN None
                                 ELSE IF known = {} /\ @ = None THEN "open" ELSE @,
                 !.spent = @ /\ objects = {}]

\* listed(): what a signal was about meanwhile is skipped.
Listed(m, objects) ==
    LET fresh == objects \ m.watch.changes
        known == m.watch.sessions \cup fresh
    IN [m EXCEPT !.watch.sessions = known, !.watch.changes = None,
                 !.watch.timer = IF fresh # {} THEN None
                                 ELSE IF known = {} /\ @ = None THEN "open" ELSE @,
                 !.spent = @ /\ fresh = {}]

-----------------------------------------------------------------------------
Fault == faults < MaxFaults /\ faults' = faults + 1
NoFault == UNCHANGED faults

\* MAP is opened; obexd asks the phone for notifications.
MapOpens ==
    /\ obex.map = "down" /\ ~Running
    /\ obex' = [obex EXCEPT !.map = "open"]
    /\ NoFault /\ UNCHANGED mn

\* _post_available_sessions_setup(): start() subscribes and asks for the inventory.
Start ==
    /\ obex.map = "open" /\ ~Running
    /\ mn' = [mn EXCEPT !.watch = NewWatch]
    /\ obex' = [obex EXCEPT !.asked = TRUE]
    /\ NoFault

MapLost ==
    /\ obex.map = "open" /\ Fault
    /\ \/ obex' = [obex EXCEPT !.map = "lost"]
       \/ obex' = [obex EXCEPT !.map = "exited", !.mns = {}]
    /\ UNCHANGED mn

\* The loss of MAP reaches the profile supervisor; the exit of obexd behind its signals.
MapLossSeen ==
    /\ obex.map = "lost" \/ (obex.map = "exited" /\ obex.sent = <<>>)
    /\ Lost /\ NoFault

Signal(kind, path) == [obex EXCEPT !.sent = Append(@, [kind |-> kind, path |-> path])]

\* The phone opens a connection, as it does for a MAP session, or closes one.
MnsOpens ==
    /\ obex.map = "open" /\ Len(obex.sent) < MaxSent
    /\ \E path \in Paths \ obex.mns : obex' = [Signal("added", path) EXCEPT !.mns = @ \cup {path}]
    /\ NoFault /\ UNCHANGED mn

MnsCloses ==
    /\ Len(obex.sent) < MaxSent
    /\ \E path \in obex.mns : obex' = [Signal("removed", path) EXCEPT !.mns = @ \ {path}]
    /\ IF obex.map = "open" THEN Fault ELSE NoFault
    /\ UNCHANGED mn

Snapshot ==
    /\ obex.asked /\ obex.inventory = None
    /\ obex' = [obex EXCEPT !.inventory = obex.mns]
    /\ NoFault /\ UNCHANGED mn

InventoryAnswered ==
    /\ Running /\ obex.inventory # None
    /\ mn' = Listed(mn, obex.inventory)
    /\ obex' = [obex EXCEPT !.asked = FALSE, !.inventory = None]
    /\ NoFault

InventoryFails ==
    /\ Running /\ obex.asked /\ Fault
    /\ mn' = [Listed(mn, {}) EXCEPT !.watch.blind = TRUE]
    /\ obex' = [obex EXCEPT !.asked = FALSE, !.inventory = None]

Dispatch ==
    /\ obex.sent # <<>>
    /\ LET s == Head(obex.sent)
       IN mn' = CASE ~Running -> mn
                  [] Running /\ s.kind = "added" -> Added(mn, s.path)
                  [] OTHER -> Removed(mn, s.path)
    /\ obex' = [obex EXCEPT !.sent = Tail(@)]
    /\ NoFault

\* _expired() and _mns_missing(): MAP is opened again, unless that was tried in vain.  The
\* main loop takes what a process that exited has sent before a timer of seconds.
TimerFires ==
    /\ Running /\ mn.watch.timer # None
    /\ obex.map = "exited" => obex.sent = <<>>
    /\ IF mn.watch.sessions # {} \/ mn.spent
       THEN mn' = [mn EXCEPT !.watch.timer = None] /\ UNCHANGED obex
       ELSE /\ mn' = [mn EXCEPT !.watch = None, !.spent = TRUE]
            /\ obex' = [obex EXCEPT !.map = "down", !.asked = FALSE, !.inventory = None]
    /\ NoFault

-----------------------------------------------------------------------------
Next ==
    \/ MapOpens \/ Start \/ MapLost \/ MapLossSeen \/ MnsOpens \/ MnsCloses
    \/ Snapshot \/ InventoryAnswered \/ InventoryFails \/ Dispatch \/ TimerFires

\* The supervisor opens MAP again, obexd answers, and the main loop runs.
FairStep(k) ==
    CASE k = 1 -> MapOpens
      [] k = 2 -> Start
      [] k = 3 -> MapLossSeen
      [] k = 4 -> Snapshot
      [] k = 5 -> InventoryAnswered
      [] k = 6 -> Dispatch
      [] k = 7 -> TimerFires
      [] OTHER -> FALSE

Spec == Init /\ [][Next]_mnsVars /\ \A k \in 1 .. 7 : WF_mnsVars(FairStep(k))

-----------------------------------------------------------------------------
\* With the inventory answered and no signal under way, the watch knows the connections there
\* are, whatever the order in which inventory and signals arrived (listed()); and while it
\* knows of none, a timer runs that has MAP opened again, unless that was tried already.
PresenceKnown ==
    Running /\ mn.watch.changes = None =>
        /\ obex.map = "open" /\ obex.sent = <<>> /\ ~mn.watch.blind =>
               mn.watch.sessions = obex.mns
        /\ mn.watch.sessions = {} => mn.watch.timer # None \/ mn.spent

\* MAP is up and the phone pushes nothing.
Silent == obex.map = "open" /\ obex.mns = {}

\* A phone that pushes nothing over a MAP session that lasts is noticed, and MAP opened again
\* (_mns_missing()); what the watch knows is right (PresenceKnown).
MnsWatched == []PresenceKnown /\ (<>[]Silent => <>[]mn.spent)
=============================================================================
