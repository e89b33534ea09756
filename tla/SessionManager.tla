--------------------------- MODULE SessionManager ---------------------------
(***************************************************************************)
(* The daemon's MAP and PBAP sessions (src/src/blueferry/obex/sessions.py), *)
(* the private D-Bus owner of each (src/src/blueferry/bus.py) and, as their *)
(* environment, obexd.                                                     *)
(*                                                                         *)
(* open_all() and close_all() run on the OBEX worker, in the steps between *)
(* which GLib may dispatch obexd's signals on the main loop.  A session is *)
(* a record of its object path and of the obexd process that made it: the  *)
(* code sees only the path, and a restarted obexd numbers from one again.  *)
(* ProfileSupervisor composes these actions with the worker.               *)
(***************************************************************************)
EXTENDS Naturals, Sequences

CONSTANT None

VARIABLES
    session,        \* map and pbap: what the daemon believes is open
    smClosing,      \* SessionManager._closing
    removed,        \* _removed_while_opening (a set of paths, or None)
    exited,         \* _obexd_exited_while_opening
    owner,          \* obex_profiles: the session each private bus owns
    op,             \* where the worker is inside open_all()/close_all()
    live,           \* obexd: the sessions that exist
    nextPath,       \* obexd: number of its next session object
    incarnation,    \* obexd: how often it exited
    signals         \* obexd's signals not yet dispatched, oldest first

sessionVars == <<session, smClosing, removed, exited, owner, op,
                 live, nextPath, incarnation, signals>>

Target == {"MAP", "PBAP"}
Session == [path : Nat, inc : Nat]
Idle == [at |-> "idle", target |-> "MAP", failed |-> None]
Nothing == [t \in Target |-> None]
Exit == 0           \* NameOwnerChanged of obexd, among the removed paths

SessionInit ==
    /\ session = Nothing /\ owner = Nothing
    /\ smClosing = FALSE /\ removed = None /\ exited = FALSE
    /\ op = Idle
    /\ live = {} /\ nextPath = 1 /\ incarnation = 0
    /\ signals = <<>>

-----------------------------------------------------------------------------
(***************************************************************************)
(* obexd.                                                                  *)
(***************************************************************************)

\* obexd ends a session whose owner connection closed, and announces it.
Farewell(t) == IF owner[t] \in live THEN <<owner[t].path>> ELSE <<>>

\* The phone or obexd drops one session.
LoseSession(s) ==
    /\ s \in live
    /\ live' = live \ {s}
    /\ signals' = Append(signals, s.path)
    /\ UNCHANGED <<session, smClosing, removed, exited, owner, op, nextPath, incarnation>>

\* obexd exits with all its sessions; it is activated again on demand.
ObexdExit ==
    /\ live' = {} /\ nextPath' = 1 /\ incarnation' = incarnation + 1
    /\ signals' = Append(signals, Exit)
    /\ UNCHANGED <<session, smClosing, removed, exited, owner, op>>

-----------------------------------------------------------------------------
(***************************************************************************)
(* Signal handlers on the main loop.  Each sets the sessions; whether the  *)
(* loss is reported to the supervisor is Notifies.                         *)
(***************************************************************************)

Surviving ==
    [t \in Target |->
        IF session[t] # None /\ Head(signals) \in {Exit, session[t].path}
          THEN None ELSE session[t]]

\* Mutant: a loss during an open is left to the end of the open.
NotifiesUnlessOpening == Surviving # session /\ ~smClosing /\ removed = None

Notifies == Surviving # session /\ ~smClosing

\* _on_interfaces_removed and _on_name_owner_changed
OnSignal ==
    /\ signals # <<>>
    /\ signals' = Tail(signals)
    /\ session' = Surviving
    /\ exited' = (exited \/ (Head(signals) = Exit /\ removed # None))
    /\ removed' = IF removed # None /\ Head(signals) # Exit
                    THEN removed \cup {Head(signals)} ELSE removed
    /\ UNCHANGED <<smClosing, owner, op, live, nextPath, incarnation>>

\* report_error(): an operation failed as if its object or service were gone.
Forget ==
    /\ session' = Nothing
    /\ UNCHANGED <<smClosing, removed, exited, owner, op, live, nextPath, incarnation, signals>>

-----------------------------------------------------------------------------
(***************************************************************************)
(* open_all() on the worker.                                               *)
(***************************************************************************)

Step(target, failed) ==
    IF target = "MAP" THEN [at |-> "create", target |-> "PBAP", failed |-> failed]
    ELSE [at |-> "end", target |-> "PBAP", failed |-> failed]

\* The first failure is the one open_all() raises.
Failing(t) == IF op.failed = None THEN t ELSE op.failed

OpenBegin ==
    /\ op.at = "idle"
    /\ IF \A t \in Target : session[t] # None
         THEN op' = [op EXCEPT !.at = "end"] /\ UNCHANGED <<removed, exited>>
         ELSE /\ op' = [op EXCEPT !.at = "create"]
              /\ removed' = {} /\ exited' = FALSE
    /\ UNCHANGED <<session, smClosing, owner, live, nextPath, incarnation, signals>>

\* The target is already open: its healthy session is kept.
KeepSession ==
    /\ op.at = "create" /\ session[op.target] # None
    /\ op' = Step(op.target, op.failed)
    /\ UNCHANGED <<session, smClosing, removed, exited, owner, live, nextPath,
                   incarnation, signals>>

\* _create_session() with a fresh owner: the old owner is closed first.
CreateSession(ok) ==
    LET t == op.target
        new == [path |-> nextPath, inc |-> incarnation]
    IN  /\ op.at = "create" /\ session[t] = None
        /\ signals' = signals \o Farewell(t)
        /\ IF ok
             THEN /\ live' = (live \ {owner[t]}) \cup {new}
                  /\ nextPath' = nextPath + 1
                  /\ owner' = [owner EXCEPT ![t] = new]
                  /\ op' = [op EXCEPT !.at = "publish"]
             ELSE /\ live' = live \ {owner[t]}
                  /\ owner' = [owner EXCEPT ![t] = None]
                  /\ op' = Step(t, Failing(t))
                  /\ UNCHANGED nextPath
        /\ UNCHANGED <<session, smClosing, removed, exited, incarnation>>

\* Mutant: a path removed before its publication is published all the same.
PublishBlindly ==
    LET t == op.target
    IN  /\ op.at = "publish"
        /\ session' = [session EXCEPT ![t] = owner[t]]
        /\ op' = Step(t, op.failed)
        /\ UNCHANGED <<owner, live, signals, smClosing, removed, exited, nextPath, incarnation>>

\* _publish(): a session whose removal already arrived is a failed open.
Publish ==
    LET t == op.target
    IN  /\ op.at = "publish"
        /\ IF exited \/ owner[t].path \in removed
             THEN /\ owner' = [owner EXCEPT ![t] = None]
                  /\ live' = live \ {owner[t]}
                  /\ signals' = signals \o Farewell(t)
                  /\ op' = Step(t, Failing(t))
                  /\ UNCHANGED session
             ELSE /\ session' = [session EXCEPT ![t] = owner[t]]
                  /\ op' = Step(t, op.failed)
                  /\ UNCHANGED <<owner, live, signals>>
        /\ UNCHANGED <<smClosing, removed, exited, nextPath, incarnation>>

OpenEnd ==
    /\ op.at = "end"
    /\ op' = Idle
    /\ removed' = None /\ exited' = FALSE
    /\ UNCHANGED <<session, smClosing, owner, live, nextPath, incarnation, signals>>

-----------------------------------------------------------------------------
(***************************************************************************)
(* close_all() on the worker, and the end of the worker's connections.     *)
(***************************************************************************)

Disown ==
    /\ owner' = Nothing
    /\ live' = live \ {owner[t] : t \in Target}
    /\ signals' = signals \o Farewell("MAP") \o Farewell("PBAP")

CloseBegin(remove_remote) ==
    /\ op.at = "idle"
    /\ op' = [op EXCEPT !.at = "closing"]
    /\ smClosing' = TRUE
    /\ IF remove_remote THEN Disown ELSE UNCHANGED <<owner, live, signals>>
    /\ UNCHANGED <<session, removed, exited, nextPath, incarnation>>

CloseEnd ==
    /\ op.at = "closing"
    /\ op' = Idle
    /\ session' = Nothing /\ smClosing' = FALSE
    /\ UNCHANGED <<removed, exited, owner, live, nextPath, incarnation, signals>>

\* close_all(remove_remote=False) called by a main-loop handler.
CloseLocally ==
    /\ session' = Nothing /\ smClosing' = FALSE
    /\ UNCHANGED <<removed, exited, owner, op, live, nextPath, incarnation, signals>>

\* close_obex_worker_bus()
CloseWorkerBus ==
    /\ Disown
    /\ UNCHANGED <<session, smClosing, removed, exited, op, nextPath, incarnation>>

-----------------------------------------------------------------------------
SessionTypeOK ==
    /\ session \in [Target -> Session \cup {None}]
    /\ owner \in [Target -> Session \cup {None}]
    /\ smClosing \in BOOLEAN /\ exited \in BOOLEAN
    /\ removed = None \/ removed \subseteq Nat
    /\ op \in [at : {"idle", "create", "publish", "end", "closing"},
               target : Target, failed : Target \cup {None}]
    /\ live \subseteq Session
    /\ nextPath \in Nat /\ incarnation \in Nat
    /\ signals \in Seq(Nat)
=============================================================================
