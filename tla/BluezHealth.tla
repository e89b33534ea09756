---------------------------- MODULE BluezHealth ----------------------------
(***************************************************************************)
(* The watch on bluetoothd: class BluezHealth of                           *)
(* src/src/blueferry/bluez_health.py, and the daemon's calls of it.        *)
(*                                                                         *)
(* A method is an operator on the record s.  A ping under way belongs to   *)
(* the process it was sent to; "cur" is FALSE once the generation that     *)
(* sent it is over.  The 15 s and 30 s intervals are one timer: what       *)
(* matters of them is that a ping never follows a failed one at once.      *)
(***************************************************************************)
EXTENDS Naturals, Sequences, SequencesExt, Handlers

CONSTANTS
    MaxTurns,       \* bound of the times bluetoothd hangs, resumes, exits or starts
    MaxReports,     \* bound of the reports of other components in one turn
    None

VARIABLES
    hl,             \* the watch
    blz,            \* bluetoothd, and what it did
    turns

healthVars == <<hl, blz, turns>>

Threshold == 2      \* PING_FAILURE_THRESHOLD

\* failures  _failures, up to the threshold    unresponsive  _unresponsive
\* reason    _reason == "kernel"               pinging       _pinging
\* timer     _timer is not None                asking        the PID asked for: cur or not
\* pings     the Peer.Ping calls under way     poke          bearers.poke is on the idle queue
\* paused    what the other components saw last: their dials are held back
InitHealth ==
    [failures |-> 0, unresponsive |-> FALSE, reason |-> FALSE, pinging |-> FALSE,
     timer |-> TRUE, pings |-> <<>>, asking |-> {}, poke |-> FALSE, paused |-> FALSE]

\* bluetoothd: "ok" answers, "hung" does not, "stuck" is hung in the kernel, "gone".
\* missed counts the pings of this process that went unanswered since it last answered
\* anything (a count the code does not keep); reports the reports in this turn.
Init ==
    /\ hl = InitHealth
    /\ blz = [state |-> "ok", missed |-> 0, reports |-> 0]
    /\ turns = 0

-----------------------------------------------------------------------------
(* The watch. *)

\* on_change: the daemon publishes, and resumes its dials when the verdict is lifted.
Notify(s) == [s EXCEPT !.paused = s.unresponsive, !.poke = @ \/ ~s.unresponsive]

Recovered(s) == Notify([s EXCEPT !.unresponsive = FALSE, !.reason = FALSE])

ReportSuccess(s) ==
    IF s.unresponsive THEN Recovered([s EXCEPT !.failures = 0])
    ELSE [s EXCEPT !.failures = 0]

NextGeneration(s) ==
    [s EXCEPT !.pinging = FALSE, !.asking = {FALSE : a \in @},
              !.pings = [i \in DOMAIN @ |-> [@[i] EXCEPT !.cur = FALSE]]]

\* Mutant: the restart keeps the generation.
OwnerChangedSameGeneration(s) ==
    LET fresh == [s EXCEPT !.failures = 0, !.pinging = FALSE]
    IN IF s.unresponsive THEN Recovered(fresh) ELSE fresh

OwnerChanged(s) ==
    LET fresh == [NextGeneration(s) EXCEPT !.failures = 0]
    IN IF s.unresponsive THEN Recovered(fresh) ELSE fresh

Probe(s, process) ==
    IF s.pinging THEN s
    ELSE [s EXCEPT !.pinging = TRUE,
                   !.pings = Append(@, [cur |-> TRUE, to |-> process])]

Report(s, process) ==
    IF ~s.unresponsive /\ s.failures = 0 THEN Probe(s, process) ELSE s

Explain(s) == [s EXCEPT !.asking = @ \union {TRUE}]

Failed(s) ==
    LET counted == [s EXCEPT !.failures = IF @ < Threshold THEN @ + 1 ELSE @]
    IN IF s.unresponsive \/ counted.failures < Threshold THEN counted
       ELSE Notify(Explain([counted EXCEPT !.unresponsive = TRUE, !.reason = FALSE]))

GotPid(s, cur, stuck) ==
    IF cur /\ s.unresponsive /\ stuck THEN Notify([s EXCEPT !.reason = TRUE]) ELSE s

\* The answer of a ping: "pong", "silence" (NoReply, Timeout) or "unowned".
Answered(s, i, answer) ==
    LET rest == [s EXCEPT !.pings = RemoveAt(@, i)]
        over == [rest EXCEPT !.pinging = FALSE]
    IN IF ~s.pings[i].cur THEN rest
       ELSE CASE answer = "pong" -> ReportSuccess(over)
              [] answer = "silence" -> Failed(over)
              [] answer = "unowned" -> [over EXCEPT !.failures = 0]

-----------------------------------------------------------------------------
(* The events. *)

Answers == blz.state = "ok"
Owned == blz.state # "gone"

\* The timer, _tick.  With nobody owning the name the bus refuses the ping.
Tick ==
    /\ hl.timer
    /\ hl' = Probe(hl, IF Owned THEN "this" ELSE "nobody")
    /\ UNCHANGED <<blz, turns>>

Pong ==
    \E i \in DOMAIN hl.pings :
        /\ hl.pings[i].to = "this" /\ Answers
        /\ hl' = Answered(hl, i, "pong")
        /\ blz' = [blz EXCEPT !.missed = 0]
        /\ UNCHANGED turns

Silence ==
    \E i \in DOMAIN hl.pings :
        /\ hl.pings[i].to # "nobody" /\ ~(hl.pings[i].to = "this" /\ Answers)
        /\ hl' = Answered(hl, i, "silence")
        /\ blz' = [blz EXCEPT !.missed = IF hl.pings[i].to = "this" /\ @ < Threshold
                                         THEN @ + 1 ELSE @]
        /\ UNCHANGED turns

Unowned ==
    \E i \in DOMAIN hl.pings :
        /\ hl.pings[i].to = "nobody"
        /\ hl' = Answered(hl, i, "unowned")
        /\ UNCHANGED <<blz, turns>>

\* GetConnectionUnixProcessID, answered by the bus for whoever owns the name now.
PidAnswers ==
    \E cur \in hl.asking :
        /\ hl' = GotPid([hl EXCEPT !.asking = @ \ {cur}], cur, blz.state = "stuck")
        /\ UNCHANGED <<blz, turns>>

\* The bearer supervisor reports an error or a success of a call of its own
\* (on_bluez_error, on_bluez_ok).
Reports ==
    /\ blz.reports < MaxReports
    /\ IF Answers
       THEN /\ hl' = ReportSuccess(hl)
            /\ blz' = [blz EXCEPT !.missed = 0, !.reports = @ + 1]
       ELSE /\ Owned
            /\ hl' = Report(hl, "this")
            /\ blz' = [blz EXCEPT !.reports = @ + 1]
    /\ UNCHANGED turns

\* _on_bluez_health_changed: the idle callback that pokes the bearers.
Resume ==
    /\ hl.poke
    /\ hl' = [hl EXCEPT !.poke = FALSE]
    /\ UNCHANGED <<blz, turns>>

Stop ==
    /\ hl.timer
    /\ hl' = [NextGeneration(hl) EXCEPT !.timer = FALSE]
    /\ UNCHANGED <<blz, turns>>

\* bluetoothd hangs or goes on.
Becomes ==
    /\ turns < MaxTurns
    /\ blz.state # "gone"
    /\ \E next \in {"ok", "hung", "stuck"} \ {blz.state} :
           blz' = [blz EXCEPT !.state = next, !.reports = 0]
    /\ turns' = turns + 1
    /\ UNCHANGED hl

\* The process ends, and another takes the name: NameOwnerChanged, and the pings sent to
\* the earlier process stay unanswered.
OwnerSignal ==
    /\ turns < MaxTurns
    /\ LET next == IF Owned THEN "gone" ELSE "ok"
           orphaned == [hl EXCEPT !.pings = [i \in DOMAIN @ |->
                           IF @[i].to = "this" THEN [@[i] EXCEPT !.to = "former"]
                           ELSE @[i]]]
       IN /\ hl' = IF hl.timer THEN OwnerChanged(orphaned) ELSE orphaned
          /\ blz' = [state |-> next, missed |-> 0, reports |-> 0]
    /\ turns' = turns + 1

Next ==
    \/ Tick \/ Pong \/ Silence \/ Unowned \/ PidAnswers \/ Reports \/ Resume \/ Stop
    \/ Becomes \/ OwnerSignal

FairStep(k) ==
    CASE k = 1 -> Tick [] k = 2 -> Pong [] k = 3 -> Silence [] k = 4 -> Unowned
      [] k = 5 -> PidAnswers [] k = 6 -> Resume [] OTHER -> FALSE

Fairness == \A k \in 1 .. 6 : WF_healthVars(FairStep(k))

SafetySpec == Init /\ [][Next]_healthVars

Spec == SafetySpec /\ Fairness

-----------------------------------------------------------------------------
(* bluetoothd is called unresponsive, and the daemon's dials are held back, only after
   two pings of the process that owns the name went unanswered with no answer of any
   kind between them: a ping of an earlier process, or one slow call, never gives the
   verdict (BluezHealth.report, owner_changed and the generation of probe). *)
VerdictEarned == hl.timer /\ hl.unresponsive => blz.missed >= Threshold

\* bluetoothd hangs, or it answers or is gone, while the watch runs.
Hung == hl.timer /\ blz.state \in {"hung", "stuck"}
Sound == hl.timer /\ ~Hung

(* The verdict follows bluetoothd for good: one that stays hung is reported, one that
   answers or is gone is not, and the other components hear of it (probe, _failed,
   _recovered, _on_bluez_health_changed). *)
VerdictFollows ==
    /\ <>[]Hung => <>[](hl.unresponsive /\ hl.paused)
    /\ <>[]Sound => <>[]~(hl.unresponsive \/ hl.paused)
=============================================================================
